---------------------------- MODULE PartsProofs -----------------------------
(***************************************************************************)
(* Theorems about parts that MCParts puts side by side: captchas, the      *)
(* rate-limit filter, static files, the HTTP client, the request pipeline, *)
(* the file log and the cache adapters.  A behaviour is about one part, so *)
(* each proof has an inductive invariant of that part, which says nothing  *)
(* when which names another.                                               *)
(***************************************************************************)
EXTENDS MCParts, FiniteSetTheorems, NaturalsInduction, WellFoundedInduction, SequenceTheorems, TLAPS

-----------------------------------------------------------------------------
(* Captchas.                                                               *)

Calls == [pc : {"idle", "compare", "delete", "done"}, id : Ids \cup {Captchas!Idle.id},
          chars : Nat, answer : Nat, ok : BOOLEAN]

CaptchaTypes ==
  /\ made \in Nat /\ store \in [Ids -> 0 .. made] /\ shown \in [Ids -> 0 .. made]
  /\ verify \in [Verifiers -> Calls]
  /\ spent \subseteq 1 .. made

\* A challenge belongs to one id, also while a Verify has it in hand.
OwnId ==
  /\ \A i, j \in Ids : store[i] = store[j] /\ store[i] # 0 => i = j
  /\ \A v \in Verifiers : verify[v].pc \in {"compare", "delete"} =>
       /\ verify[v].id \in Ids /\ verify[v].chars \in 1 .. made
       /\ \A i \in Ids : store[i] = verify[v].chars => i = verify[v].id

CaptchaInv == CaptchaTypes /\ OwnId /\ Captchas!OneTry

\* A new challenge is one that nobody has had.
LEMMA PutKeeps ==
  ASSUME CaptchaInv, NEW i \in Ids, Captchas!Put(i), shown' \in [Ids -> 0 .. made']
  PROVE  CaptchaInv'
<1>1. /\ made' = made + 1 /\ UNCHANGED <<verify, spent>>
      /\ store' = [store EXCEPT ![i] = made + 1] \/ store' = store
  BY DEF Captchas!Put
<1>2. CaptchaTypes' BY <1>1 DEF CaptchaInv, CaptchaTypes
<1>3. \A j \in Ids : store'[j] = store[j] \/ (j = i /\ store'[j] = made + 1)
  BY <1>1 DEF CaptchaInv, CaptchaTypes
<1>4. \A j \in Ids : store[j] \in Nat /\ store[j] <= made BY DEF CaptchaInv, CaptchaTypes
<1>5. OwnId'
  <2>1. ASSUME NEW j \in Ids, NEW y \in Ids, store'[j] = store'[y], store'[j] # 0 PROVE j = y
    BY <1>3, <1>4, <2>1 DEF CaptchaInv, CaptchaTypes, OwnId
  <2>2. ASSUME NEW v \in Verifiers, verify'[v].pc \in {"compare", "delete"}
        PROVE  /\ verify'[v].id \in Ids /\ verify'[v].chars \in 1 .. made'
               /\ \A j \in Ids : store'[j] = verify'[v].chars => j = verify'[v].id
    BY <1>1, <1>3, <1>4, <2>2 DEF CaptchaInv, CaptchaTypes, OwnId
  <2> QED BY <2>1, <2>2 DEF OwnId
<1>6. Captchas!OneTry'
  <2> SUFFICES ASSUME NEW j \in Ids PROVE store'[j] \notin spent
    BY <1>1 DEF Captchas!OneTry
  <2> QED BY <1>3 DEF CaptchaInv, CaptchaTypes, Captchas!OneTry
<1> QED BY <1>2, <1>5, <1>6 DEF CaptchaInv

\* The store may lose a challenge at any time.
LEMMA DropKeeps ==
  ASSUME CaptchaInv, NEW i \in Ids, store' = [store EXCEPT ![i] = 0], UNCHANGED <<made, shown>>,
         verify' = verify, spent' = spent
  PROVE  CaptchaInv'
<1>1. \A j \in Ids : store'[j] = store[j] \/ store'[j] = 0 BY DEF CaptchaInv, CaptchaTypes
<1>2. CaptchaTypes' BY DEF CaptchaInv, CaptchaTypes
<1>3. OwnId' BY <1>1 DEF CaptchaInv, CaptchaTypes, OwnId
<1>4. Captchas!OneTry' BY <1>1 DEF CaptchaInv, CaptchaTypes, Captchas!OneTry
<1> QED BY <1>2, <1>3, <1>4 DEF CaptchaInv

LEMMA VerifyKeeps ==
  ASSUME CaptchaInv, NEW v \in Verifiers,
         Captchas!Get(v) \/ Captchas!Compare(v) \/ Captchas!Delete(v) \/ Captchas!Return(v)
  PROVE  CaptchaInv'
<1> USE DEF CaptchaInv, CaptchaTypes
<1>1. CASE Captchas!Get(v)
  <2>1. /\ UNCHANGED <<store, made, shown, spent>>
        /\ \E i \in Ids, a \in Nat :
             \/ verify' = [verify EXCEPT ![v] = [pc |-> "done", id |-> i, chars |-> 0, answer |-> a, ok |-> FALSE]]
             \/ /\ store[i] # 0
                /\ verify' = [verify EXCEPT ![v] =
                     [pc |-> "compare", id |-> i, chars |-> store[i], answer |-> a, ok |-> FALSE]]
    <3>0. PICK i \in Ids : \E a \in {0, shown[i]} :
            verify' = [verify EXCEPT ![v] =
              IF a = 0 \/ store[i] = 0 THEN [pc |-> "done", id |-> i, chars |-> 0, answer |-> a, ok |-> FALSE]
              ELSE [pc |-> "compare", id |-> i, chars |-> store[i], answer |-> a, ok |-> FALSE]]
      BY <1>1 DEF Captchas!Get
    <3>1. PICK a \in {0, shown[i]} :
            verify' = [verify EXCEPT ![v] =
              IF a = 0 \/ store[i] = 0 THEN [pc |-> "done", id |-> i, chars |-> 0, answer |-> a, ok |-> FALSE]
              ELSE [pc |-> "compare", id |-> i, chars |-> store[i], answer |-> a, ok |-> FALSE]]
      BY <3>0
    <3>2. a \in Nat BY <3>1
    <3>3. UNCHANGED <<store, made, shown, spent>> BY <1>1 DEF Captchas!Get
    <3> QED BY <3>1, <3>2, <3>3
  <2>2. PICK i \in Ids, a \in Nat :
             \/ verify' = [verify EXCEPT ![v] = [pc |-> "done", id |-> i, chars |-> 0, answer |-> a, ok |-> FALSE]]
             \/ /\ store[i] # 0
                /\ verify' = [verify EXCEPT ![v] =
                     [pc |-> "compare", id |-> i, chars |-> store[i], answer |-> a, ok |-> FALSE]]
    BY <2>1
  <2>3. store[i] \in Nat BY <2>2
  <2>4. \E r \in Calls : verify' = [verify EXCEPT ![v] = r]
    <3>1. [pc |-> "done", id |-> i, chars |-> 0, answer |-> a, ok |-> FALSE] \in Calls BY DEF Calls
    <3>2. [pc |-> "compare", id |-> i, chars |-> store[i], answer |-> a, ok |-> FALSE] \in Calls
      BY <2>3 DEF Calls
    <3> QED BY <2>2, <3>1, <3>2
  <2>5. CaptchaTypes' BY <2>1, <2>4
  <2>6. OwnId' BY <2>1, <2>2, <2>3 DEF OwnId
  <2>7. Captchas!OneTry' BY <2>1 DEF Captchas!OneTry
  <2> QED BY <2>5, <2>6, <2>7
<1>2. CASE Captchas!Compare(v)
  <2>1. PICK right \in BOOLEAN :
          verify' = [verify EXCEPT ![v].pc = "delete", ![v].ok = right /\ verify[v].answer = verify[v].chars]
    BY <1>2 DEF Captchas!Compare
  <2>2. verify[v].pc = "compare" /\ UNCHANGED <<store, made, shown, spent>> BY <1>2 DEF Captchas!Compare
  <2> DEFINE x == right /\ verify[v].answer = verify[v].chars
  <2>3. verify' \in [Verifiers -> Calls]
    <3>1. x \in BOOLEAN OBVIOUS
    <3> HIDE DEF x
    <3>2. [verify[v] EXCEPT !.pc = "delete", !.ok = x] \in Calls BY <3>1 DEF Calls
    <3>3. verify' = [verify EXCEPT ![v] = [verify[v] EXCEPT !.pc = "delete", !.ok = x]]
      BY <2>1 DEF x
    <3> QED BY <3>2, <3>3
  <2>4. CaptchaTypes' BY <2>2, <2>3
  <2>5. OwnId' BY <2>1, <2>2 DEF OwnId, Calls
  <2>6. Captchas!OneTry' BY <2>2 DEF Captchas!OneTry
  <2> QED BY <2>4, <2>5, <2>6
<1>3. CASE Captchas!Delete(v)
  <2>1. /\ verify[v].pc = "delete" /\ UNCHANGED <<made, shown>>
        /\ \/ /\ store' = [store EXCEPT ![verify[v].id] = 0]
              /\ spent' = spent \cup {verify[v].chars}
           \/ UNCHANGED <<store, spent>>
        /\ verify' = [verify EXCEPT ![v].pc = "done"]
    BY <1>3 DEF Captchas!Delete
  <2>2. /\ verify[v].id \in Ids /\ verify[v].chars \in 1 .. made
        /\ \A i \in Ids : store[i] = verify[v].chars => i = verify[v].id
    BY <2>1 DEF OwnId
  <2>3. \A i \in Ids : \/ store'[i] = store[i] /\ (i # verify[v].id \/ spent' = spent)
                       \/ store'[i] = 0
    BY <2>1
  <2>4. CaptchaTypes' BY <2>1, <2>2 DEF Calls
  <2>5. OwnId' BY <2>1, <2>3 DEF OwnId, Calls
  <2>6. Captchas!OneTry' BY <2>1, <2>2, <2>3 DEF Captchas!OneTry
  <2> QED BY <2>4, <2>5, <2>6
<1>4. CASE Captchas!Return(v)
  <2>1. verify' = [verify EXCEPT ![v] = Captchas!Idle] /\ UNCHANGED <<store, made, shown, spent>>
    BY <1>4 DEF Captchas!Return
  <2>2. Captchas!Idle \in Calls /\ Captchas!Idle.pc = "idle" BY DEF Calls, Captchas!Idle
  <2>3. CaptchaTypes' BY <2>1, <2>2
  <2>4. OwnId' BY <2>1, <2>2 DEF OwnId
  <2>5. Captchas!OneTry' BY <2>1 DEF Captchas!OneTry
  <2> QED BY <2>3, <2>4, <2>5
<1> QED BY <1>1, <1>2, <1>3, <1>4

LEMMA CaptchaBegins == Captchas!Init => CaptchaInv
<1> SUFFICES ASSUME Captchas!Init PROVE CaptchaInv
  OBVIOUS
<1>1. Captchas!Idle \in Calls /\ Captchas!Idle.pc = "idle" BY DEF Calls, Captchas!Idle
<1> QED BY <1>1 DEF Captchas!Init, CaptchaInv, CaptchaTypes, OwnId, Captchas!OneTry

LEMMA CaptchaKeeps ==
  ASSUME CaptchaInv, [Captchas!Next]_Captchas!captchaVars
  PROVE  CaptchaInv'
<1>1. ASSUME NEW i \in Ids, Captchas!CreateCaptcha(i) PROVE CaptchaInv'
  <2>1. Captchas!Put(i) /\ shown' = shown BY <1>1 DEF Captchas!CreateCaptcha
  <2>2. made' = made + 1 BY <2>1 DEF Captchas!Put
  <2>3. shown' \in [Ids -> 0 .. made'] BY <2>1, <2>2 DEF CaptchaInv, CaptchaTypes
  <2> QED BY <2>1, <2>3, PutKeeps
<1>2. ASSUME NEW i \in Ids, Captchas!Reload(i) PROVE CaptchaInv'
  <2>1. Captchas!Put(i) /\ shown' = IF store'[i] = made' THEN [shown EXCEPT ![i] = made'] ELSE shown
    BY <1>2 DEF Captchas!Reload
  <2>2. made' = made + 1 BY <2>1 DEF Captchas!Put
  <2>3. shown' \in [Ids -> 0 .. made'] BY <2>1, <2>2 DEF CaptchaInv, CaptchaTypes
  <2> QED BY <2>1, <2>3, PutKeeps
<1>3. ASSUME NEW i \in Ids, Captchas!Handler(i) PROVE CaptchaInv'
  <2>1. shown' = [shown EXCEPT ![i] = store[i]] /\ UNCHANGED <<store, made, verify, spent>>
    BY <1>3 DEF Captchas!Handler
  <2>2. CaptchaTypes' BY <2>1 DEF CaptchaInv, CaptchaTypes
  <2> QED BY <2>1, <2>2 DEF CaptchaInv, OwnId, Captchas!OneTry
<1>4. ASSUME NEW i \in Ids, Captchas!Expire(i) PROVE CaptchaInv'
  BY <1>4, DropKeeps DEF Captchas!Expire
<1>5. ASSUME NEW v \in Verifiers,
             Captchas!Get(v) \/ Captchas!Compare(v) \/ Captchas!Delete(v) \/ Captchas!Return(v)
      PROVE  CaptchaInv'
  BY <1>5, VerifyKeeps
<1>6. CASE UNCHANGED Captchas!captchaVars
  BY <1>6 DEF Captchas!captchaVars, CaptchaInv, CaptchaTypes, OwnId, Captchas!OneTry
<1> QED BY <1>1, <1>2, <1>3, <1>4, <1>5, <1>6 DEF Captchas!Next

\* Once the deferred Delete of a Verify, after a right answer or a wrong one, has
\* gone through, its challenge is out of the store for good: what is deleted is
\* what was compared or newer, and challenges are never put twice.
THEOREM CaptchaSpent == Spec => []OneTry
<1> DEFINE Inv == which = "captcha" => CaptchaInv
<1>1. Init => Inv BY CaptchaBegins DEF Init
<1>2. Inv /\ [Next]_vars => Inv'
  <2> SUFFICES ASSUME Inv, [Next]_vars, which' = "captcha" PROVE CaptchaInv' OBVIOUS
  <2>1. which = "captcha" BY DEF Next, vars
  <2>2. [Captchas!Next]_Captchas!captchaVars
    BY <2>1 DEF Next, vars, captchaVars, Captchas!captchaVars
  <2> QED BY <2>1, <2>2, CaptchaKeeps
<1>3. Inv => OneTry BY DEF CaptchaInv, OneTry
<1> QED BY <1>1, <1>2, <1>3, PTL DEF Spec

-----------------------------------------------------------------------------
(* The rate-limit filter.                                                  *)

\* Time is counted in whole periods of Rate.
LEMMA Division ==
  ASSUME NEW a \in Nat, NEW r \in Nat \ {0}
  PROVE  /\ a \div r \in Nat
         /\ (a \div r) * r <= a /\ a < (a \div r) * r + r
         /\ \A e \in Nat : e * r <= a => e <= a \div r
<1>1. a \div r \in Nat /\ (a \div r) * r <= a /\ a < (a \div r) * r + r OBVIOUS
<1>2. ASSUME NEW e \in Nat, e * r <= a PROVE e <= a \div r
  <2> DEFINE q == a \div r
  <2>1. q \in Nat /\ a < (q + 1) * r BY <1>1
  <2> HIDE DEF q
  <2>2. CASE q < e
    <3>1. (q + 1) * r <= e * r BY <2>1, <2>2
    <3>2. (q + 1) * r \in Nat /\ e * r \in Nat BY <2>1
    <3> QED BY <1>2, <2>1, <3>1, <3>2
  <2>3. CASE ~(q < e) BY <2>1, <2>3 DEF q
  <2> QED BY <2>2, <2>3
<1> QED BY <1>1, <1>2

\* A key has one bucket and no other key has it; a request that takes has it.
KeyInv ==
  /\ \A y, l \in Keys : buckets[y] # NoBucket /\ buckets[y] = buckets[l] => y = l
  /\ \A y \in Keys : buckets[y] \notin free
  /\ \A c \in Clients : step[c] = "take" => bucket[c] # NoBucket /\ bucket[c] = buckets[key[c]]

ClockInv ==
  /\ \A b \in Buckets : last[b] <= clock
  /\ \A y \in Keys : born[y] <= clock /\ mark[y].at <= clock /\ mark[y].count <= granted[y]

\* What was let through and what is left were there at first, or came since.
CreditInv ==
  \A y \in Keys :
    IF buckets[y] = NoBucket THEN granted[y] = 0
    ELSE \E e \in Nat : /\ last[buckets[y]] = born[y] + e * Rate
                        /\ granted[y] + remaining[buckets[y]] <= Capacity + e

\* In a window nothing has been taken yet, or else the bucket has been cut to
\* its capacity, less than one period before the window began or later.
WindowInv ==
  \A y \in Keys :
    \/ granted[y] = mark[y].count
    \/ /\ buckets[y] # NoBucket
       /\ \E j \in Nat : /\ j * Rate <= last[buckets[y]] - mark[y].at + Rate - 1
                         /\ granted[y] - mark[y].count + remaining[buckets[y]] <= Capacity + 1 + j

RateInv == Rates!TypeOK /\ KeyInv /\ ClockInv /\ CreditInv /\ WindowInv

\* The requests that passed are within the bounds.
LEMMA BoundsHold ==
  ASSUME Rates!RateAssumption, RateInv
  PROVE  Rates!LimitsHold
<1> USE DEF Rates!RateAssumption, RateInv, Rates!TypeOK
<1>1. ASSUME NEW y \in Keys PROVE granted[y] <= Capacity + (clock - born[y]) \div Rate
  <2>1. clock - born[y] \in Nat /\ (clock - born[y]) \div Rate \in Nat BY Division DEF ClockInv
  <2>2. CASE buckets[y] = NoBucket BY <2>1, <2>2 DEF CreditInv
  <2>3. CASE buckets[y] # NoBucket
    <3> DEFINE b == buckets[y]
    <3>1. b \in Buckets BY <2>3
    <3>2. PICK e \in Nat : last[b] = born[y] + e * Rate /\ granted[y] + remaining[b] <= Capacity + e
      BY <2>3 DEF CreditInv
    <3>3. e * Rate <= clock - born[y]
      <4>1. last[b] <= clock /\ last[b] \in Nat /\ born[y] \in Nat /\ clock \in Nat BY <3>1 DEF ClockInv
      <4>2. e * Rate \in Nat OBVIOUS
      <4> QED BY <3>2, <4>1, <4>2
    <3>4. e <= (clock - born[y]) \div Rate BY <2>1, <3>3, Division
    <3>5. remaining[b] \in Nat /\ granted[y] \in Nat BY <3>1
    <3> QED BY <2>1, <3>2, <3>4, <3>5
  <2> QED BY <2>2, <2>3
<1>2. ASSUME NEW y \in Keys
      PROVE  granted[y] - mark[y].count
               <= Capacity + 1 + (clock - mark[y].at + Rate - 1) \div Rate
  <2> DEFINE a == clock - mark[y].at + Rate - 1
  <2>1. a \in Nat /\ a \div Rate \in Nat
    <3>1. a \in Nat BY DEF ClockInv
    <3> QED BY <3>1, Division
  <2>2. CASE granted[y] = mark[y].count BY <2>1, <2>2
  <2>3. CASE granted[y] # mark[y].count
    <3> DEFINE b == buckets[y]
    <3>1. b \in Buckets BY <2>3 DEF WindowInv
    <3>2. PICK j \in Nat : /\ j * Rate <= last[b] - mark[y].at + Rate - 1
                           /\ granted[y] - mark[y].count + remaining[b] <= Capacity + 1 + j
      BY <2>3 DEF WindowInv
    <3>3. j * Rate <= a
      <4>1. last[b] <= clock /\ last[b] \in Nat /\ mark[y].at \in Nat /\ clock \in Nat BY <3>1 DEF ClockInv
      <4>2. j * Rate \in Nat OBVIOUS
      <4> QED BY <3>2, <4>1, <4>2
    <3>4. j <= a \div Rate BY <2>1, <3>3, Division
    <3>5. remaining[b] \in Nat /\ granted[y] \in Nat /\ mark[y].count \in Nat BY <3>1
    <3>6. granted[y] - mark[y].count <= Capacity + 1 + j BY <3>2, <3>5
    <3> HIDE DEF a
    <3>7. granted[y] - mark[y].count <= Capacity + 1 + a \div Rate BY <2>1, <3>4, <3>5, <3>6
    <3> QED BY <3>7 DEF a
  <2> QED BY <2>2, <2>3
<1> QED BY <1>1, <1>2 DEF Rates!LimitsHold, Rates!TotalBound, Rates!WindowBound


LEMMA Distribute ==
  ASSUME NEW m \in Int, NEW e \in Int, NEW r \in Int
  PROVE  (m + e) * r = m * r + e * r
OBVIOUS

\* take() credits whole periods, and takes a token if there is one.
LEMMA TakeFacts ==
  ASSUME Rates!RateAssumption, RateInv, NEW c \in Clients, NEW b \in Buckets, Rates!Take(c, b)
  PROVE  \E u \in Nat :
           /\ last' = [last EXCEPT ![b] = last[b] + u * Rate]
           /\ last[b] + u * Rate <= clock /\ clock < last[b] + u * Rate + Rate
           /\ \E rest \in 0 .. Capacity :
                /\ remaining' = [remaining EXCEPT ![b] = rest]
                /\ \/ rest <= remaining[b] + u /\ UNCHANGED granted
                   \/ /\ rest <= remaining[b] + u - 1
                      /\ granted' = [granted EXCEPT ![key[c]] = @ + 1]
<1> USE DEF Rates!RateAssumption, RateInv, Rates!TypeOK
<1> DEFINE u == Rates!Times(b)
<1>1. u = (clock - last[b]) \div Rate BY DEF Rates!Times
<1>2. clock - last[b] \in Nat BY DEF ClockInv
<1>3. u \in Nat /\ u * Rate <= clock - last[b] /\ clock - last[b] < u * Rate + Rate
  <2> DEFINE a == clock - last[b]
  <2>1. a \in Nat /\ u = a \div Rate BY <1>1, <1>2
  <2> HIDE DEF a, u
  <2>2. u \in Nat /\ u * Rate <= a /\ a < u * Rate + Rate BY <2>1, Division
  <2> QED BY <2>2 DEF a
<1>4. last' = [last EXCEPT ![b] = last[b] + u * Rate] BY DEF Rates!Take
<1>5. /\ remaining[b] \in 0 .. Capacity /\ last[b] \in Nat /\ clock \in Nat OBVIOUS
<1> HIDE DEF u
<1>6. u * Rate \in Nat BY <1>3
<1>7. last[b] + u * Rate <= clock /\ clock < last[b] + u * Rate + Rate BY <1>3, <1>5, <1>6
<1>8. Rates!Tokens(b) = remaining[b] + u BY DEF Rates!Tokens, u
<1>9. \E rest \in 0 .. Capacity :
        /\ remaining' = [remaining EXCEPT ![b] = rest]
        /\ \/ rest <= remaining[b] + u /\ UNCHANGED granted
           \/ rest <= remaining[b] + u - 1 /\ granted' = [granted EXCEPT ![key[c]] = @ + 1]
  <2>1. CASE Rates!Tokens(b) < 1
    <3>1. remaining' = [remaining EXCEPT ![b] = Rates!Tokens(b)] /\ UNCHANGED granted
      BY <1>3, <1>5, <1>8, <2>1 DEF Rates!Take
    <3>2. Rates!Tokens(b) \in 0 .. Capacity /\ Rates!Tokens(b) <= remaining[b] + u
      BY <1>3, <1>5, <1>8, <2>1
    <3> QED BY <3>1, <3>2
  <2>2. CASE Rates!Tokens(b) >= 1
    <3> DEFINE rest == Rates!AtMost(Rates!Tokens(b) - 1, Capacity)
    <3>1. remaining' = [remaining EXCEPT ![b] = rest] /\ granted' = [granted EXCEPT ![key[c]] = @ + 1]
      BY <1>3, <1>5, <1>8, <2>2 DEF Rates!Take
    <3>2. rest \in 0 .. Capacity /\ rest <= remaining[b] + u - 1
      BY <1>3, <1>5, <1>8, <2>2 DEF Rates!AtMost
    <3> HIDE DEF rest
    <3> QED BY <3>1, <3>2
  <2>3. Rates!Tokens(b) < 1 \/ Rates!Tokens(b) >= 1 BY <1>3, <1>5, <1>8
  <2> QED BY <2>1, <2>2, <2>3
<1> QED BY <1>3, <1>4, <1>7, <1>9

LEMMA TakeKeeps ==
  ASSUME Rates!RateAssumption, RateInv, NEW c \in Clients, NEW b \in Buckets, Rates!Take(c, b)
  PROVE  RateInv'
<1> USE DEF Rates!RateAssumption, RateInv, Rates!TypeOK
<1> DEFINE y == key[c]
<1>1. PICK u \in Nat :
        /\ last' = [last EXCEPT ![b] = last[b] + u * Rate]
        /\ last[b] + u * Rate <= clock /\ clock < last[b] + u * Rate + Rate
        /\ \E rest \in 0 .. Capacity :
             /\ remaining' = [remaining EXCEPT ![b] = rest]
             /\ \/ rest <= remaining[b] + u /\ UNCHANGED granted
                \/ rest <= remaining[b] + u - 1 /\ granted' = [granted EXCEPT ![y] = @ + 1]
  BY TakeFacts
<1>2. PICK rest \in 0 .. Capacity :
        /\ remaining' = [remaining EXCEPT ![b] = rest]
        /\ \/ rest <= remaining[b] + u /\ UNCHANGED granted
           \/ rest <= remaining[b] + u - 1 /\ granted' = [granted EXCEPT ![y] = @ + 1]
  BY <1>1
<1>3. /\ step[c] = "take" /\ bucket[c] = b
      /\ step' = [step EXCEPT ![c] = "idle"] /\ bucket' = [bucket EXCEPT ![c] = NoBucket]
      /\ UNCHANGED <<clock, key, buckets, free, born, mark>>
  BY DEF Rates!Take
<1>4. y \in Keys /\ buckets[y] = b /\ b # NoBucket BY <1>3 DEF KeyInv
<1>5. u * Rate \in Nat BY <1>1
<1>6. /\ last'[b] = last[b] + u * Rate /\ remaining'[b] = rest
      /\ \A d \in Buckets : d # b => last'[d] = last[d] /\ remaining'[d] = remaining[d]
      /\ \A l \in Keys : l # y => granted'[l] = granted[l]
      /\ \/ rest <= remaining[b] + u /\ granted'[y] = granted[y]
         \/ rest <= remaining[b] + u - 1 /\ granted'[y] = granted[y] + 1
  BY <1>1, <1>2, <1>4
<1>7. /\ last[b] \in Nat /\ clock \in Nat /\ remaining[b] \in Nat /\ granted[y] \in Nat /\ born[y] \in Nat
      /\ mark[y].at \in Nat /\ mark[y].count \in Nat
  BY <1>4
<1> HIDE DEF y
<1>8. Rates!TypeOK'
  <2>1. last' \in [Buckets -> 0 .. RateTime]
    <3>0. clock <= RateTime /\ RateTime \in Nat OBVIOUS
    <3> DEFINE x == last[b] + u * Rate
    <3>1. x \in Nat
      <4> DEFINE credit == u * Rate
      <4>1. credit \in Nat BY <1>5
      <4> HIDE DEF credit
      <4>2. last[b] + credit \in Nat BY <1>7, <4>1
      <4> QED BY <4>2 DEF credit
    <3>4. x <= clock BY <1>1
    <3> HIDE DEF x
    <3>2. x \in 0 .. RateTime BY <1>7, <3>0, <3>1, <3>4
    <3>3. last' = [last EXCEPT ![b] = x] BY <1>1 DEF x
    <3> QED BY <3>2, <3>3
  <2>2. granted' \in [Keys -> Nat] BY <1>2, <1>4, <1>7
  <2> QED BY <1>2, <1>3, <2>1, <2>2
<1>9. KeyInv' BY <1>3 DEF KeyInv
<1>10. ClockInv'
  <2>1. \A d \in Buckets : last'[d] <= clock' BY <1>1, <1>3, <1>6 DEF ClockInv
  <2>2. \A l \in Keys : granted[l] <= granted'[l]
    <3>1. granted[y] <= granted'[y] BY <1>6, <1>7
    <3> QED BY <1>6, <3>1
  <2>3. \A l \in Keys : mark[l].count <= granted'[l]
    <3>1. granted' \in [Keys -> Nat] BY <1>8
    <3> QED BY <2>2, <3>1 DEF ClockInv
  <2> QED BY <1>3, <2>1, <2>3 DEF ClockInv
<1>11. CreditInv'
  <2> SUFFICES ASSUME NEW l \in Keys
               PROVE  IF buckets[l] = NoBucket THEN granted'[l] = 0
                      ELSE \E e \in Nat : /\ last'[buckets[l]] = born[l] + e * Rate
                                          /\ granted'[l] + remaining'[buckets[l]] <= Capacity + e
    BY <1>3 DEF CreditInv
  <2>1. CASE l = y
    <3>1. PICK e \in Nat : last[b] = born[y] + e * Rate /\ granted[y] + remaining[b] <= Capacity + e
      BY <1>4 DEF CreditInv
    <3>2. (e + u) * Rate = e * Rate + u * Rate /\ e * Rate \in Nat BY <1>1, <3>1, Distribute
    <3>3. last'[b] = born[y] + (e + u) * Rate BY <1>5, <1>6, <1>7, <3>1, <3>2
    <3>4. granted'[y] + rest <= Capacity + (e + u) BY <1>2, <1>6, <1>7, <3>1
    <3>5. e + u \in Nat OBVIOUS
    <3> QED BY <1>4, <1>6, <2>1, <3>3, <3>4, <3>5
  <2>2. CASE l # y
    <3>1. granted'[l] = granted[l] /\ buckets[l] # b BY <1>4, <1>6, <2>2 DEF KeyInv
    <3>2. buckets[l] # NoBucket => /\ last'[buckets[l]] = last[buckets[l]]
                                   /\ remaining'[buckets[l]] = remaining[buckets[l]]
      BY <1>6, <3>1
    <3> QED BY <3>1, <3>2 DEF CreditInv
  <2> QED BY <2>1, <2>2
<1>12. WindowInv'
  <2> SUFFICES ASSUME NEW l \in Keys
               PROVE  \/ granted'[l] = mark[l].count
                      \/ /\ buckets[l] # NoBucket
                         /\ \E j \in Nat :
                              /\ j * Rate <= last'[buckets[l]] - mark[l].at + Rate - 1
                              /\ granted'[l] - mark[l].count + remaining'[buckets[l]] <= Capacity + 1 + j
    BY <1>3 DEF WindowInv
  <2>1. CASE l = y /\ granted[y] = mark[y].count
    <3>1. 0 * Rate <= last'[b] - mark[y].at + Rate - 1
      <4>1. mark[y].at <= clock BY <1>4 DEF ClockInv
      <4> QED BY <1>1, <1>5, <1>6, <1>7, <4>1
    <3>2. granted'[y] = mark[y].count \/ granted'[y] - mark[y].count + rest <= Capacity + 1 + 0
      BY <1>2, <1>6, <1>7, <2>1
    <3> QED BY <1>4, <1>6, <2>1, <3>1, <3>2
  <2>2. CASE l = y /\ granted[y] # mark[y].count
    <3>1. PICK j \in Nat : /\ j * Rate <= last[b] - mark[y].at + Rate - 1
                           /\ granted[y] - mark[y].count + remaining[b] <= Capacity + 1 + j
      BY <1>4, <2>2 DEF WindowInv
    <3>2. (j + u) * Rate = j * Rate + u * Rate /\ j * Rate \in Nat BY <1>1, <3>1, Distribute
    <3>3. (j + u) * Rate <= last'[b] - mark[y].at + Rate - 1 BY <1>5, <1>6, <1>7, <3>1, <3>2
    <3>4. granted'[y] - mark[y].count + rest <= Capacity + 1 + (j + u) BY <1>2, <1>6, <1>7, <3>1
    <3>5. j + u \in Nat OBVIOUS
    <3> QED BY <1>4, <1>6, <2>2, <3>3, <3>4, <3>5
  <2>3. CASE l # y
    <3>1. granted'[l] = granted[l] /\ buckets[l] # b BY <1>4, <1>6, <2>3 DEF KeyInv
    <3>2. buckets[l] # NoBucket => /\ last'[buckets[l]] = last[buckets[l]]
                                   /\ remaining'[buckets[l]] = remaining[buckets[l]]
      BY <1>6, <3>1
    <3> QED BY <3>1, <3>2 DEF WindowInv
  <2> QED BY <2>1, <2>2, <2>3
<1> QED BY <1>8, <1>9, <1>10, <1>11, <1>12


\* createBucket, with its second look under the write lock.
LEMMA CreateKeeps ==
  ASSUME Rates!RateAssumption, RateInv, NEW c \in Clients, Rates!CreateBucket(c)
  PROVE  RateInv'
<1> USE DEF Rates!RateAssumption, RateInv, Rates!TypeOK
<1> DEFINE y == key[c]
<1>1. /\ step[c] = "create" /\ step' = [step EXCEPT ![c] = "take"]
      /\ UNCHANGED <<clock, key, granted, mark>> /\ y \in Keys
  BY DEF Rates!CreateBucket
<1>2. CASE buckets[y] # NoBucket
  <2>1. bucket' = [bucket EXCEPT ![c] = buckets[y]] /\ UNCHANGED <<buckets, free, remaining, last, born>>
    BY <1>2 DEF Rates!CreateBucket, Rates!tokenVars
  <2>2. Rates!TypeOK' BY <1>1, <2>1
  <2>3. KeyInv' BY <1>1, <1>2, <2>1 DEF KeyInv
  <2>4. ClockInv' /\ CreditInv' /\ WindowInv' BY <1>1, <2>1 DEF ClockInv, CreditInv, WindowInv
  <2> QED BY <2>2, <2>3, <2>4
<1>3. CASE buckets[y] = NoBucket
  <2>1. PICK b \in Buckets : /\ Rates!NewBucket(b)
                             /\ buckets' = [buckets EXCEPT ![y] = b]
                             /\ bucket' = [bucket EXCEPT ![c] = b]
    BY <1>3 DEF Rates!CreateBucket
  <2>2. /\ b \in free /\ free' = free \ {b}
        /\ remaining' = [remaining EXCEPT ![b] = Capacity] /\ last' = [last EXCEPT ![b] = clock]
        /\ born' = [born EXCEPT ![y] = clock] /\ b # NoBucket
    BY <1>3, <2>1 DEF Rates!CreateBucket, Rates!NewBucket
  <2>3. \A l \in Keys : /\ buckets[l] # b
                        /\ l # y => buckets'[l] = buckets[l] /\ born'[l] = born[l]
    BY <2>1, <2>2 DEF KeyInv
  <2>4. /\ buckets'[y] = b /\ born'[y] = clock /\ remaining'[b] = Capacity /\ last'[b] = clock
        /\ \A d \in Buckets : d # b => last'[d] = last[d] /\ remaining'[d] = remaining[d]
    BY <1>1, <2>1, <2>2
  <2>5. granted[y] = 0 /\ mark[y].count = 0
    <3>1. mark[y].count <= granted[y] /\ mark[y].count \in Nat BY <1>1 DEF ClockInv
    <3>2. granted[y] = 0 BY <1>1, <1>3 DEF CreditInv
    <3> QED BY <3>1, <3>2
  <2> HIDE DEF y
  <2>6. Rates!TypeOK' BY <1>1, <2>1, <2>2
  <2>7. KeyInv'
    <3>1. \A l, m \in Keys : buckets'[l] # NoBucket /\ buckets'[l] = buckets'[m] => l = m
      <4> HIDE DEF Rates!RateAssumption, RateInv, Rates!TypeOK
      <4>1. KeyInv BY DEF RateInv
      <4>2. \A l, m \in Keys : buckets[l] # NoBucket /\ buckets[l] = buckets[m] => l = m BY <4>1 DEF KeyInv
      <4>3. \A l \in Keys : buckets[l] # b /\ buckets'[l] = IF l = y THEN b ELSE buckets[l]
        BY <2>3, <2>4
      <4> HIDE DEF KeyInv
      <4> QED BY <4>2, <4>3
    <3>2. \A l \in Keys : buckets'[l] \notin free' BY <2>2, <2>3, <2>4 DEF KeyInv
    <3>3. ASSUME NEW d \in Clients, step'[d] = "take"
          PROVE  bucket'[d] # NoBucket /\ bucket'[d] = buckets'[key[d]]
      <4>1. CASE d = c BY <1>1, <2>1, <2>2, <2>4, <4>1 DEF y
      <4>2. CASE d # c
        <5>1. bucket[d] # NoBucket /\ bucket[d] = buckets[key[d]] BY <1>1, <3>3, <4>2 DEF KeyInv
        <5>2. key[d] \in Keys /\ key[d] # y BY <1>3, <5>1 DEF y
        <5> QED BY <2>1, <2>3, <4>2, <5>1, <5>2
      <4> QED BY <4>1, <4>2
    <3> QED BY <1>1, <3>1, <3>2, <3>3 DEF KeyInv
  <2>8. ClockInv'
    <3>1. clock \in Nat OBVIOUS
    <3>2. \A d \in Buckets : last'[d] <= clock BY <2>4, <3>1 DEF ClockInv
    <3>3. \A l \in Keys : born'[l] <= clock BY <2>3, <2>4, <3>1 DEF ClockInv
    <3> QED BY <1>1, <3>2, <3>3 DEF ClockInv
  <2>9. CreditInv'
    <3> SUFFICES ASSUME NEW l \in Keys
                 PROVE  IF buckets'[l] = NoBucket THEN granted[l] = 0
                        ELSE \E e \in Nat : /\ last'[buckets'[l]] = born'[l] + e * Rate
                                            /\ granted[l] + remaining'[buckets'[l]] <= Capacity + e
      BY <1>1 DEF CreditInv
    <3>1. CASE l = y
      <4>1. clock = clock + 0 * Rate /\ 0 + Capacity <= Capacity + 0 OBVIOUS
      <4> QED BY <2>4, <2>5, <3>1, <4>1
    <3>2. CASE l # y
      <4>1. buckets'[l] = buckets[l] /\ born'[l] = born[l] /\ buckets[l] # b BY <2>3, <3>2
      <4>2. buckets[l] # NoBucket => /\ last'[buckets[l]] = last[buckets[l]]
                                     /\ remaining'[buckets[l]] = remaining[buckets[l]]
        BY <2>4, <4>1
      <4> QED BY <4>1, <4>2 DEF CreditInv
    <3> QED BY <3>1, <3>2
  <2>10. WindowInv'
    <3> SUFFICES ASSUME NEW l \in Keys
                 PROVE  \/ granted[l] = mark[l].count
                        \/ /\ buckets'[l] # NoBucket
                           /\ \E j \in Nat :
                                /\ j * Rate <= last'[buckets'[l]] - mark[l].at + Rate - 1
                                /\ granted[l] - mark[l].count + remaining'[buckets'[l]] <= Capacity + 1 + j
      BY <1>1 DEF WindowInv
    <3>1. CASE l = y BY <2>5, <3>1
    <3>2. CASE l # y
      <4>1. buckets'[l] = buckets[l] /\ buckets[l] # b BY <2>3, <3>2
      <4>2. buckets[l] # NoBucket => /\ last'[buckets[l]] = last[buckets[l]]
                                     /\ remaining'[buckets[l]] = remaining[buckets[l]]
        BY <2>4, <4>1
      <4> QED BY <4>1, <4>2 DEF WindowInv
    <3> QED BY <3>1, <3>2
  <2> QED BY <2>6, <2>7, <2>8, <2>9, <2>10
<1> QED BY <1>2, <1>3

LEMMA RateOthersKeep ==
  ASSUME Rates!RateAssumption, RateInv,
         \/ Rates!Tick
         \/ \E y \in Keys : Rates!Mark(y)
         \/ \E c \in Clients : Rates!GetBucket(c)
         \/ UNCHANGED Rates!vars
  PROVE  RateInv'
<1> USE DEF Rates!RateAssumption, RateInv, Rates!TypeOK, Rates!tokenVars, Rates!clientVars
<1>1. CASE Rates!Tick
  <2>1. clock' = clock + 1 /\ clock' \in 0 .. RateTime BY <1>1 DEF Rates!Tick
  <2>2. UNCHANGED <<step, key, bucket, buckets, free, remaining, last, granted, born, mark>>
    BY <1>1 DEF Rates!Tick
  <2>3. Rates!TypeOK' BY <2>1, <2>2
  <2>4. ClockInv' BY <2>1, <2>2 DEF ClockInv
  <2>5. KeyInv' /\ CreditInv' /\ WindowInv' BY <2>2 DEF KeyInv, CreditInv, WindowInv
  <2> QED BY <2>3, <2>4, <2>5
<1>2. ASSUME NEW y \in Keys, Rates!Mark(y) PROVE RateInv'
  <2>1. /\ mark' = [mark EXCEPT ![y] = [at |-> clock, count |-> granted[y]]]
        /\ UNCHANGED <<clock, step, key, bucket, buckets, free, remaining, last, granted, born>>
    BY <1>2 DEF Rates!Mark
  <2>2. Rates!TypeOK' BY <2>1
  <2>3. /\ mark'[y].at = clock /\ mark'[y].count = granted[y]
        /\ \A l \in Keys : l # y => mark'[l] = mark[l]
    BY <2>1
  <2>4. ClockInv'
    <3>1. clock \in Nat /\ granted[y] \in Nat OBVIOUS
    <3> QED BY <2>1, <2>3, <3>1 DEF ClockInv
  <2>5. WindowInv' BY <2>1, <2>3 DEF WindowInv
  <2>6. KeyInv' /\ CreditInv' BY <2>1 DEF KeyInv, CreditInv
  <2> QED BY <2>2, <2>4, <2>5, <2>6
<1>3. ASSUME NEW c \in Clients, Rates!GetBucket(c) PROVE RateInv'
  <2>1. PICK y \in Keys :
          /\ key' = [key EXCEPT ![c] = y] /\ bucket' = [bucket EXCEPT ![c] = buckets[y]]
          /\ step' = [step EXCEPT ![c] = IF buckets[y] = NoBucket THEN "create" ELSE "take"]
    BY <1>3 DEF Rates!GetBucket
  <2>2. UNCHANGED <<clock, buckets, free, remaining, last, granted, born, mark>>
    BY <1>3 DEF Rates!GetBucket
  <2>3. Rates!TypeOK' BY <2>1, <2>2
  <2>4. KeyInv' BY <2>1, <2>2 DEF KeyInv
  <2>5. ClockInv' /\ CreditInv' /\ WindowInv' BY <2>2 DEF ClockInv, CreditInv, WindowInv
  <2> QED BY <2>3, <2>4, <2>5
<1>4. CASE UNCHANGED Rates!vars
  BY <1>4 DEF Rates!vars, KeyInv, ClockInv, CreditInv, WindowInv
<1> QED BY <1>1, <1>2, <1>3, <1>4

\* Over its life a key gets its capacity and one request per Rate, and in any
\* window capacity + 1 more than the tokens of the window, however many
\* requests race in getBucket, createBucket and take.
THEOREM RateLimited == Spec => []LimitsHold
<1> DEFINE Inv == which = "rate" => RateInv
<1>1. Init => Inv
  <2> SUFFICES ASSUME Rates!Init PROVE RateInv
    BY DEF Init
  <2> USE RatesAssumption DEF Rates!RateAssumption, Rates!Init
  <2>1. Rates!TypeOK BY DEF Rates!TypeOK
  <2>2. KeyInv /\ ClockInv BY DEF KeyInv, ClockInv
  <2>3. CreditInv /\ WindowInv BY DEF CreditInv, WindowInv
  <2> QED BY <2>1, <2>2, <2>3 DEF RateInv
<1>2. Inv /\ [Next]_vars => Inv'
  <2> SUFFICES ASSUME Inv, [Next]_vars, which' = "rate" PROVE RateInv' OBVIOUS
  <2>1. which = "rate" BY DEF Next, vars
  <2>2. [Rates!Next]_Rates!vars BY <2>1 DEF Next, vars, rateVars, Rates!vars, Rates!clientVars, Rates!tokenVars
  <2> QED BY <2>1, <2>2, RatesAssumption, CreateKeeps, TakeKeeps, RateOthersKeep DEF Rates!Next
<1>3. Inv => LimitsHold BY RatesAssumption, BoundsHold DEF LimitsHold
<1> QED BY <1>1, <1>2, <1>3, PTL DEF Spec

-----------------------------------------------------------------------------
(* Static files.                                                           *)

Stats == [version : Nat, mtime : Nat, size : Nat]
Copies == [version : Nat, mtime : Nat, size : Nat, enc : Static!Encodings]
Fetches == [pc : {"start", "serve", "check", "open", "done"}, fi : Stats \cup {Static!Empty},
            enc : Static!Encodings, since : Nat, got : Copies]

StaticTypes ==
  /\ file \in Stats /\ cache \in [Static!Encodings -> Copies] /\ req \in [Requests -> Fetches]
  /\ level \in {5, Static!BestCompression}
  /\ IsFiniteSet(past) /\ Cardinality(past) <= file.version

\* What isOk compares.
Stamp(s) == <<s.mtime, s.size>>
Opens(r) == req[r].pc \in {"check", "open"}

\* A copy has its key's encoding and the stamp of a file there was; it is not
\* older than the file while stamps tell the versions apart.
CopyInv ==
  /\ Stamp(file) \in past
  /\ \A e \in Static!Encodings : cache[e].version # 0 =>
       /\ cache[e].enc = e /\ Stamp(cache[e]) \in past
       /\ ~Static!Coarse /\ Stamp(cache[e]) = Stamp(file) => cache[e].version >= file.version

\* The same of the file a request has found.
FetchInv ==
  \A r \in Requests :
    /\ req[r].pc # "start" => req[r].since <= file.version
    /\ req[r].pc # "done" => req[r].got = Static!Empty
    /\ Opens(r) => req[r].fi \in Stats /\ Stamp(req[r].fi) \in past
    /\ \A e \in Static!Encodings :
         Opens(r) /\ cache[e].version # 0 /\ ~Static!Coarse /\ Stamp(cache[e]) = Stamp(req[r].fi) =>
           cache[e].version >= req[r].since

StaticInv == StaticTypes /\ CopyInv /\ FetchInv /\ Static!StaticSound

\* The cardinality StaticFiles speaks of is the one the theorems about finite
\* sets speak of.
LEMMA SameCardinality == \A S : Static!Cardinality(S) = Cardinality(S)
BY DEF Static!Cardinality, Cardinality

\* The pool a compressor is put into has compressors of one level.
LEMMA PutPure ==
  ASSUME Static!PoolsPure, level \in {5, 9}, NEW x \in {5, 9}, NEW y \in Static!Encode(x), Static!Put(y)
  PROVE  Static!PoolsPure' \/ level' # level
<1>1. /\ \/ level' # level
         \/ custom' = custom
         \/ y = level /\ custom' = custom \cup {y}
      /\ \/ best' = best
         \/ y = 9 /\ best' = best \cup {y}
  BY DEF Static!Put, Static!BestCompression
<1> QED BY <1>1 DEF Static!PoolsPure, Static!BestCompression

LEMMA ChangeKeeps ==
  ASSUME StaticInv, Static!Change
  PROVE  StaticInv'
<1> USE DEF StaticInv, StaticTypes
<1>1. PICK a \in {file.mtime, file.mtime + 1}, s \in Static!Sizes :
        /\ file' = [version |-> file.version + 1, mtime |-> a, size |-> s]
        /\ past' = past \cup {<<a, s>>}
  BY DEF Static!Change
<1>2. UNCHANGED <<cache, req, level, custom, best>> BY DEF Static!Change
<1>3. /\ file.version \in Nat /\ file.mtime \in Nat /\ a \in Nat /\ s \in Nat
      /\ file'.version = file.version + 1 /\ file' \in Stats /\ Stamp(file') = <<a, s>>
  BY <1>1 DEF Stats, Static!Sizes, Stamp
<1>4. /\ IsFiniteSet(past')
      /\ Cardinality(past') = IF <<a, s>> \in past THEN Cardinality(past) ELSE Cardinality(past) + 1
      /\ Cardinality(past) \in Nat
  BY <1>1, FS_AddElement, FS_CardinalityType
<1>5. StaticTypes' BY <1>2, <1>3, <1>4
<1>6. ~Static!Coarse' => ~Static!Coarse /\ <<a, s>> \notin past
  <2>1. Static!Coarse' <=> Cardinality(past') < file.version + 1
    BY <1>3, SameCardinality DEF Static!Coarse
  <2>2. Static!Coarse <=> Cardinality(past) < file.version BY SameCardinality DEF Static!Coarse
  <2> HIDE DEF StaticInv
  <2>3. Cardinality(past) <= file.version BY DEF StaticInv
  <2> QED BY <1>3, <1>4, <2>1, <2>2, <2>3
<1>7. CopyInv'
  <2>1. Stamp(file)' \in past' BY <1>1, <1>3 DEF Stamp
  <2>2. ASSUME NEW e \in Static!Encodings, cache[e].version # 0
        PROVE  /\ cache[e].enc = e /\ Stamp(cache[e]) \in past'
               /\ ~Static!Coarse' /\ Stamp(cache[e]) = <<a, s>> => cache[e].version >= file'.version
    BY <1>1, <1>6, <2>2 DEF CopyInv
  <2> QED BY <1>2, <1>3, <2>1, <2>2 DEF CopyInv, Stamp
<1>8. FetchInv'
  <2> SUFFICES ASSUME NEW r \in Requests
      PROVE /\ req[r].pc # "start" => req[r].since <= file'.version
            /\ req[r].pc # "done" => req[r].got = Static!Empty
            /\ Opens(r) => req[r].fi \in Stats /\ Stamp(req[r].fi) \in past'
            /\ \A e \in Static!Encodings :
                 Opens(r) /\ cache[e].version # 0 /\ ~Static!Coarse' /\ Stamp(cache[e]) = Stamp(req[r].fi) =>
                   cache[e].version >= req[r].since
    BY <1>2 DEF FetchInv, Opens, Stamp
  <2>1. req[r].since \in Nat BY DEF Fetches
  <2> QED BY <1>1, <1>3, <1>6, <2>1 DEF FetchInv
<1>9. Static!StaticSound'
  BY <1>2, <1>6 DEF Static!StaticSound, Static!Fresh, Static!EncodingRight, Static!PoolsPure
<1> QED BY <1>5, <1>7, <1>8, <1>9

\* What a request has got when it is done.
LEMMA DoneKeeps ==
  ASSUME StaticInv, NEW r \in Requests, NEW x \in Copies, req[r].pc # "done",
         x # Static!Empty /\ ~Static!Coarse => x.version >= req[r].since,
         x # Static!Empty => x.enc = req[r].enc,
         req' = [req EXCEPT ![r].pc = "done", ![r].got = x], UNCHANGED <<file, past, level>>
  PROVE  /\ req' \in [Requests -> Fetches]
         /\ \A q \in Requests : q # r => req'[q] = req[q]
         /\ req'[r].pc = "done" /\ req'[r].since = req[r].since
         /\ Static!Fresh' /\ Static!EncodingRight'
<1> USE DEF StaticInv, StaticTypes
<1>1. /\ req' \in [Requests -> Fetches]
      /\ \A q \in Requests : q # r => req'[q] = req[q]
      /\ req'[r].pc = "done" /\ req'[r].since = req[r].since /\ req'[r].enc = req[r].enc /\ req'[r].got = x
  BY DEF Fetches
<1>2. Static!Coarse' <=> Static!Coarse BY DEF Static!Coarse
<1>3. Static!Fresh' BY <1>1, <1>2 DEF Static!StaticSound, Static!Fresh
<1>4. Static!EncodingRight' BY <1>1 DEF Static!StaticSound, Static!EncodingRight
<1> QED BY <1>1, <1>3, <1>4

\* A copy that suits the request is one it may get.
LEMMA HitSuits ==
  ASSUME StaticInv, NEW r \in Requests, Opens(r),
         NEW e \in Static!Encodings, e = req[r].enc, Static!IsOk(cache[e], req[r].fi)
  PROVE  /\ cache[e] \in Copies /\ cache[e].enc = req[r].enc
         /\ ~Static!Coarse => cache[e].version >= req[r].since
<1>1. cache[e].version # 0 /\ Stamp(cache[e]) = Stamp(req[r].fi) BY DEF Static!IsOk, Stamp
<1> QED BY <1>1 DEF StaticInv, StaticTypes, CopyInv, FetchInv

\* Steps of a request that leave the cache alone.
LEMMA FetchKeeps ==
  ASSUME StaticInv, NEW r \in Requests,
         Static!Look(r) \/ Static!ServeFile(r) \/ Static!Check(r) \/ Static!Gone(r) \/ Static!Again(r)
  PROVE  StaticInv'
<1> USE DEF StaticInv, StaticTypes
<1>0. UNCHANGED <<file, cache, level, custom, best, past>>
  BY DEF Static!Look, Static!ServeFile, Static!Check, Static!Gone, Static!Again
<1>1. /\ (Static!Coarse' <=> Static!Coarse) /\ Static!PoolsPure' /\ CopyInv'
      /\ file \in Stats /\ file.version \in Nat
  BY <1>0 DEF Static!Coarse, CopyInv, Static!StaticSound, Static!PoolsPure, Stamp, Stats
<1>2. Static!Empty \in Copies /\ Static!Empty.version = 0
  BY DEF Copies, Static!Empty, Static!Encodings
\* What is left to show of a step that changes req at r only.
<1>3. ASSUME req' \in [Requests -> Fetches], \A q \in Requests : q # r => req'[q] = req[q],
             Static!Fresh', Static!EncodingRight',
             /\ req'[r].pc # "start" => req'[r].since <= file.version
             /\ req'[r].pc # "done" => req'[r].got = Static!Empty
             /\ req'[r].pc \in {"check", "open"} =>
                  /\ req'[r].fi \in Stats /\ Stamp(req'[r].fi) \in past
                  /\ \A e \in Static!Encodings :
                       cache[e].version # 0 /\ ~Static!Coarse /\ Stamp(cache[e]) = Stamp(req'[r].fi) =>
                         cache[e].version >= req'[r].since
      PROVE  StaticInv'
  <2>1. FetchInv' BY <1>0, <1>1, <1>3 DEF FetchInv, Opens, Stamp
  <2> QED BY <1>0, <1>1, <1>3, <2>1 DEF Static!StaticSound
<1>4. CASE Static!Look(r)
  <2>1. PICK e \in Static!Encodings :
          req' = [req EXCEPT ![r] = [pc |-> IF file.size > Static!CacheSize THEN "serve" ELSE "check",
                                     fi |-> file, enc |-> e, since |-> file.version, got |-> Static!Empty]]
    BY <1>4 DEF Static!Look, Static!ParseEncoding
  <2>2. /\ req' \in [Requests -> Fetches] /\ \A q \in Requests : q # r => req'[q] = req[q]
        /\ req'[r].pc \in {"serve", "check"} /\ req'[r].since = file.version
        /\ req'[r].got = Static!Empty /\ req'[r].fi = file
    BY <1>1, <1>2, <2>1 DEF Fetches
  <2>3. Static!Fresh' /\ Static!EncodingRight'
    BY <1>1, <2>2 DEF Static!StaticSound, Static!Fresh, Static!EncodingRight
  <2>4. /\ Stamp(file) \in past
        /\ \A y \in Static!Encodings :
             cache[y].version # 0 /\ ~Static!Coarse /\ Stamp(cache[y]) = Stamp(file) =>
               cache[y].version >= file.version
    BY DEF CopyInv
  <2> QED BY <1>1, <1>3, <2>2, <2>3, <2>4
<1>5. ASSUME NEW x \in Copies, req[r].pc \notin {"start", "done"},
             x # Static!Empty /\ ~Static!Coarse => x.version >= req[r].since,
             x # Static!Empty => x.enc = req[r].enc,
             req' = [req EXCEPT ![r].pc = "done", ![r].got = x]
      PROVE  StaticInv'
  <2>1. /\ req' \in [Requests -> Fetches] /\ \A q \in Requests : q # r => req'[q] = req[q]
        /\ req'[r].pc = "done" /\ req'[r].since = req[r].since
        /\ Static!Fresh' /\ Static!EncodingRight'
    <3> HIDE DEF StaticInv, StaticTypes
    <3> QED BY <1>0, <1>5, DoneKeeps
  <2>2. req[r].since <= file.version BY <1>5 DEF FetchInv
  <2> QED BY <1>3, <2>1, <2>2
<1>6. CASE Static!ServeFile(r)
  <2> DEFINE x == [version |-> file.version, mtime |-> file.mtime, size |-> file.size, enc |-> req[r].enc]
  <2>1. x \in Copies /\ x.version = file.version /\ x.enc = req[r].enc
    BY DEF Stats, Copies, Fetches
  <2>2. req[r].pc = "serve" /\ req' = [req EXCEPT ![r].pc = "done", ![r].got = x]
    BY <1>6 DEF Static!ServeFile
  <2>3. req[r].since <= file.version /\ req[r].since \in Nat BY <2>2 DEF FetchInv, Fetches
  <2> HIDE DEF x
  <2> QED BY <1>1, <1>5, <2>1, <2>2, <2>3
<1>7. CASE Static!Check(r)
  <2>1. req[r].pc = "check" /\ req[r].enc \in Static!Encodings BY <1>7 DEF Static!Check, Fetches
  <2>2. CASE Static!IsOk(cache[req[r].enc], req[r].fi)
    <3>1. req' = [req EXCEPT ![r].pc = "done", ![r].got = cache[req[r].enc]]
      BY <1>7, <2>2 DEF Static!Check, Static!Key
    <3>2. Opens(r) BY <2>1 DEF Opens
    <3> HIDE DEF StaticInv, StaticTypes
    <3>3. /\ cache[req[r].enc] \in Copies /\ cache[req[r].enc].enc = req[r].enc
          /\ ~Static!Coarse => cache[req[r].enc].version >= req[r].since
      BY <2>1, <2>2, <3>2, HitSuits
    <3> QED BY <1>5, <2>1, <3>1, <3>3
  <2>3. CASE ~Static!IsOk(cache[req[r].enc], req[r].fi)
    <3>1. req' = [req EXCEPT ![r].pc = "open"] BY <1>7, <2>3 DEF Static!Check, Static!Key
    <3>2. /\ req' \in [Requests -> Fetches] /\ \A q \in Requests : q # r => req'[q] = req[q]
          /\ req'[r].pc = "open" /\ req'[r].since = req[r].since /\ req'[r].got = req[r].got
          /\ req'[r].fi = req[r].fi
      BY <3>1 DEF Fetches
    <3>3. Static!Fresh' /\ Static!EncodingRight'
      BY <1>1, <3>2 DEF Static!StaticSound, Static!Fresh, Static!EncodingRight
    <3>4. /\ req[r].since <= file.version /\ req[r].got = Static!Empty
          /\ req[r].fi \in Stats /\ Stamp(req[r].fi) \in past
          /\ \A e \in Static!Encodings :
               cache[e].version # 0 /\ ~Static!Coarse /\ Stamp(cache[e]) = Stamp(req[r].fi) =>
                 cache[e].version >= req[r].since
      BY <2>1 DEF FetchInv, Opens
    <3> QED BY <1>3, <3>2, <3>3, <3>4
  <2> QED BY <2>2, <2>3
<1>8. CASE Static!Gone(r)
  <2>1. req[r].pc = "open" /\ req' = [req EXCEPT ![r].pc = "done"] BY <1>8 DEF Static!Gone
  <2>2. req[r].got = Static!Empty BY <2>1 DEF FetchInv
  <2>3. req' = [req EXCEPT ![r].pc = "done", ![r].got = Static!Empty]
    <3>1. req[r] \in Fetches OBVIOUS
    <3>2. [req[r] EXCEPT !.pc = "done"] = [req[r] EXCEPT !.pc = "done", !.got = Static!Empty]
      BY <2>2, <3>1 DEF Fetches
    <3> QED BY <2>1, <3>2
  <2> QED BY <1>2, <1>5, <2>1, <2>3
<1>9. CASE Static!Again(r)
  <2>1. req' = [req EXCEPT ![r] = Static!Start] BY <1>9 DEF Static!Again
  <2>2. /\ Static!Start \in Fetches /\ Static!Start.pc = "start" /\ Static!Start.got = Static!Empty
    BY <1>2 DEF Static!Start, Fetches, Static!Encodings
  <2>3. /\ req' \in [Requests -> Fetches] /\ req'[r] = Static!Start
        /\ \A q \in Requests : q # r => req'[q] = req[q]
    BY <2>1, <2>2
  <2>4. Static!Fresh' /\ Static!EncodingRight'
    BY <1>1, <2>2, <2>3 DEF Static!StaticSound, Static!Fresh, Static!EncodingRight
  <2> QED BY <1>3, <2>2, <2>3, <2>4
<1> QED BY <1>4, <1>6, <1>7, <1>8, <1>9

\* The cache has a new copy in one place and otherwise nothing new.
LEMMA AddedCopies ==
  ASSUME NEW e \in Static!Encodings, NEW x \in Copies, cache \in [Static!Encodings -> Copies]
  PROVE  /\ Static!Added(e, x) \in [Static!Encodings -> Copies]
         /\ \A y \in Static!Encodings :
              \/ Static!Added(e, x)[y] = cache[y]
              \/ y = e /\ Static!Added(e, x)[y] = x
              \/ Static!Added(e, x)[y].version = 0
<1>1. Static!Empty \in Copies /\ Static!Empty.version = 0
  BY DEF Copies, Static!Empty, Static!Encodings
<1>2. \/ Static!Added(e, x) = [cache EXCEPT ![e] = x]
      \/ Static!Added(e, x) = [y \in Static!Encodings |-> IF y = e THEN x ELSE Static!Empty]
  BY DEF Static!Added
<1> QED BY <1>1, <1>2

LEMMA OpenKeeps ==
  ASSUME StaticInv, NEW r \in Requests, Static!Open(r)
  PROVE  StaticInv'
<1> DEFINE e == req[r].enc
           x == [version |-> file.version, mtime |-> req[r].fi.mtime, size |-> req[r].fi.size, enc |-> e]
<1>1. /\ req[r].pc = "open" /\ UNCHANGED <<file, level, past>>
      /\ \/ /\ Static!IsOk(cache[e], req[r].fi) /\ UNCHANGED <<cache, custom, best>>
            /\ req' = [req EXCEPT ![r].pc = "done", ![r].got = cache[e]]
         \/ /\ cache' = cache \/ cache' = Static!Added(e, x)
            /\ req' = [req EXCEPT ![r].pc = "done", ![r].got = x]
            /\ \/ UNCHANGED <<custom, best>>
               \/ \E y \in Static!Encode(Static!BestCompression) : Static!Put(y)
  BY DEF Static!Open, Static!Key
<1>2. /\ Opens(r) /\ e \in Static!Encodings /\ file \in Stats /\ req[r].fi \in Stats
      /\ Stamp(req[r].fi) \in past /\ req[r].since <= file.version /\ req[r].since \in Nat
      /\ Stamp(file) \in past
  BY <1>1 DEF StaticInv, StaticTypes, FetchInv, CopyInv, Opens, Fetches
<1>3. /\ x \in Copies /\ x.version = file.version /\ x.enc = e /\ Stamp(x) = Stamp(req[r].fi)
      /\ x.version >= req[r].since
  BY <1>2 DEF Stats, Copies, Stamp
<1> HIDE DEF x
<1>4. Static!Coarse' <=> Static!Coarse BY <1>1 DEF Static!Coarse
<1>5. Static!PoolsPure'
  <2>1. Static!PoolsPure /\ level \in {5, 9} /\ level' = level
    BY <1>1 DEF StaticInv, StaticTypes, Static!StaticSound, Static!BestCompression
  <2>2. Static!BestCompression \in {5, 9} BY DEF Static!BestCompression
  <2> QED BY <1>1, <2>1, <2>2, PutPure DEF Static!PoolsPure
<1>6. /\ req' \in [Requests -> Fetches] /\ \A q \in Requests : q # r => req'[q] = req[q]
      /\ req'[r].pc = "done" /\ req'[r].since = req[r].since
      /\ Static!Fresh' /\ Static!EncodingRight'
  <2>1. CASE /\ Static!IsOk(cache[e], req[r].fi)
               /\ req' = [req EXCEPT ![r].pc = "done", ![r].got = cache[e]]
    <3>1. /\ cache[e] \in Copies /\ cache[e].enc = req[r].enc
          /\ ~Static!Coarse => cache[e].version >= req[r].since
      BY <1>2, <2>1, HitSuits
    <3>2. req[r].pc # "done" /\ UNCHANGED <<file, past, level>> BY <1>1
    <3> HIDE DEF e
    <3> QED BY <2>1, <3>1, <3>2, DoneKeeps
  <2>2. CASE req' = [req EXCEPT ![r].pc = "done", ![r].got = x]
    BY <1>1, <1>3, <2>2, DoneKeeps
  <2> QED BY <1>1, <2>1, <2>2
<1>7. /\ cache' \in [Static!Encodings -> Copies]
      /\ \A y \in Static!Encodings :
           cache'[y].version # 0 => cache'[y] = cache[y] \/ (y = e /\ cache'[y] = x)
  <2>1. cache \in [Static!Encodings -> Copies] BY DEF StaticInv, StaticTypes
  <2>2. CASE cache' = cache BY <2>1, <2>2
  <2>3. CASE cache' = Static!Added(e, x) BY <1>2, <1>3, <2>1, <2>3, AddedCopies
  <2> QED BY <1>1, <2>2, <2>3
<1>8. StaticTypes' BY <1>1, <1>6, <1>7 DEF StaticInv, StaticTypes
<1>9. CopyInv'
  <2> SUFFICES ASSUME NEW y \in Static!Encodings, cache'[y].version # 0
      PROVE  /\ cache'[y].enc = y /\ Stamp(cache'[y]) \in past
             /\ ~Static!Coarse /\ Stamp(cache'[y]) = Stamp(file) => cache'[y].version >= file.version
    BY <1>1, <1>2, <1>4 DEF CopyInv, Stamp
  <2>1. CASE cache'[y] = cache[y] BY <2>1 DEF StaticInv, CopyInv
  <2>2. CASE y = e /\ cache'[y] = x BY <1>2, <1>3, <2>2 DEF Stats
  <2> QED BY <1>7, <2>1, <2>2
<1>10. FetchInv'
  <2> SUFFICES ASSUME NEW q \in Requests
      PROVE /\ req'[q].pc # "start" => req'[q].since <= file.version
            /\ req'[q].pc # "done" => req'[q].got = Static!Empty
            /\ Opens(q)' => req'[q].fi \in Stats /\ Stamp(req'[q].fi) \in past
            /\ \A y \in Static!Encodings :
                 Opens(q)' /\ cache'[y].version # 0 /\ ~Static!Coarse /\ Stamp(cache'[y]) = Stamp(req'[q].fi) =>
                   cache'[y].version >= req'[q].since
    BY <1>1, <1>4 DEF FetchInv, Stamp
  <2>1. CASE q = r BY <1>2, <1>6, <2>1 DEF Opens
  <2>2. CASE q # r
    <3>1. req'[q] = req[q] /\ (Opens(q)' <=> Opens(q)) BY <1>6, <2>2 DEF Opens
    <3>2. ASSUME NEW y \in Static!Encodings, Opens(q), cache'[y].version # 0, ~Static!Coarse,
                 Stamp(cache'[y]) = Stamp(req[q].fi)
          PROVE  cache'[y].version >= req[q].since
      <4>1. CASE cache'[y] = cache[y] BY <3>2, <4>1 DEF StaticInv, FetchInv
      <4>2. CASE cache'[y] = x
        <5>1. req[q].since <= file.version BY <3>2 DEF StaticInv, FetchInv, Opens
        <5>2. req[q].since \in Nat /\ file.version \in Nat BY <1>2 DEF StaticInv, StaticTypes, Fetches, Stats
        <5> QED BY <1>3, <4>2, <5>1, <5>2
      <4> QED BY <1>7, <3>2, <4>1, <4>2
    <3>3. /\ req[q].pc # "start" => req[q].since <= file.version
          /\ req[q].pc # "done" => req[q].got = Static!Empty
          /\ Opens(q) => req[q].fi \in Stats /\ Stamp(req[q].fi) \in past
      BY DEF StaticInv, FetchInv
    <3> QED BY <3>1, <3>2, <3>3
  <2> QED BY <2>1, <2>2
<1> QED BY <1>5, <1>6, <1>8, <1>9, <1>10 DEF StaticInv, Static!StaticSound

LEMMA StaticBegins == Static!Init => StaticInv
<1> SUFFICES ASSUME Static!Init PROVE StaticInv
  OBVIOUS
<1> USE DEF Static!Init
<1>1. /\ Static!Empty \in Copies /\ Static!Empty.version = 0
      /\ Static!Start \in Fetches /\ Static!Start.pc = "start" /\ Static!Start.got = Static!Empty
  BY DEF Copies, Static!Empty, Static!Encodings, Fetches, Static!Start
<1>2. file \in Stats /\ file.version = 1 /\ past = {<<file.mtime, file.size>>} BY DEF Stats
<1>3. IsFiniteSet(past) /\ Cardinality(past) = 1 BY <1>2, FS_Singleton
<1>4. StaticTypes BY <1>1, <1>2, <1>3 DEF StaticTypes
<1>5. CopyInv BY <1>1, <1>2 DEF CopyInv, Stamp
<1>6. FetchInv BY <1>1 DEF FetchInv, Opens
<1>7. Static!StaticSound
  BY <1>1 DEF Static!StaticSound, Static!Fresh, Static!EncodingRight, Static!PoolsPure
<1> QED BY <1>4, <1>5, <1>6, <1>7 DEF StaticInv

LEMMA StaticKeeps ==
  ASSUME StaticInv, [Static!Next]_Static!staticVars
  PROVE  StaticInv'
<1>1. CASE Static!WriteBody
  <2>1. Static!PoolsPure /\ level \in {5, 9}
    BY DEF StaticInv, StaticTypes, Static!StaticSound, Static!BestCompression
  <2>2. UNCHANGED <<file, cache, req, level, past>> BY <1>1 DEF Static!WriteBody
  <2>3. Static!PoolsPure' BY <1>1, <2>1, <2>2, PutPure DEF Static!WriteBody
  <2> QED BY <2>2, <2>3 DEF StaticInv, StaticTypes, CopyInv, FetchInv, Opens, Stamp, Static!StaticSound,
            Static!Fresh, Static!EncodingRight, Static!Coarse
<1>2. CASE UNCHANGED Static!staticVars
  BY <1>2 DEF Static!staticVars, StaticInv, StaticTypes, CopyInv, FetchInv, Opens, Stamp,
     Static!StaticSound, Static!Fresh, Static!EncodingRight, Static!PoolsPure, Static!Coarse
<1> QED BY <1>1, <1>2, ChangeKeeps, FetchKeeps, OpenKeeps DEF Static!Next

\* While the times and sizes of a file tell its versions apart, a request gets
\* no version older than the one it found, whatever others put into the cache;
\* in its own encoding, by compressors of one level.
THEOREM StaticFresh == Spec => []StaticSound
<1> DEFINE Inv == which = "static" => StaticInv
<1>1. Init => Inv BY StaticBegins DEF Init
<1>2. Inv /\ [Next]_vars => Inv'
  <2> SUFFICES ASSUME Inv, [Next]_vars, which' = "static" PROVE StaticInv' OBVIOUS
  <2>1. which = "static" BY DEF Next, vars
  <2>2. [Static!Next]_Static!staticVars BY <2>1 DEF Next, vars, staticVars, Static!staticVars
  <2> QED BY <2>1, <2>2, StaticKeeps
<1>3. Inv => StaticSound BY DEF StaticInv, StaticSound
<1> QED BY <1>1, <1>2, <1>3, PTL DEF Spec

-----------------------------------------------------------------------------
(* The HTTP client.                                                        *)

\* Requests with a slice of filters and filters of their own; what these are
\* does not matter here.
HttpRequests(x, y) ==
  [live : BOOLEAN, method : {"GET", "POST"}, chain : {x}, mine : {y},
   content : {"none", "data", "files"}, files : BOOLEAN, params : BOOLEAN, reader : {"nil", "full", "used"},
   inUrl : Nat, stage : {"idle", "send"}, tries : Nat, keep : BOOLEAN,
   resp : BOOLEAN, closed : BOOLEAN, body : {"none", "part", "whole"},
   sent : Nat, answers : Nat, own : BOOLEAN]

\* Data has a reader; the parameters go into the URL when a request is sent
\* for the first time; a program that only asks for the answer sends nothing
\* more once there is one.
RequestOk(q) ==
  /\ \E x, y : q \in HttpRequests(x, y)
  /\ q.content = "data" => q.reader # "nil"
  /\ q.sent = 0 => q.inUrl = 0 /\ q.stage = "idle"
  /\ q.sent = 1 => q.inUrl = IF q.method = "GET" /\ q.params THEN 1 ELSE 0
  /\ ~q.own => /\ q.answers <= 1
               /\ q.answers = 1 => q.resp
               /\ q.stage = "send" => q.keep /\ ~q.resp

ClientInv ==
  /\ hreq = [r \in Reqs |-> hreq[r]]
  /\ \A r \in Reqs : RequestOk(hreq[r])
  /\ Http!BodyWhole /\ Http!ParamsOnce

\* A step that changes one request, and not what the server got.
LEMMA OneRequest ==
  ASSUME ClientInv, NEW r \in Reqs, NEW q, RequestOk(q), hreq' = [hreq EXCEPT ![r] = q]
  PROVE  /\ hreq' = [p \in Reqs |-> hreq'[p]] /\ \A p \in Reqs : RequestOk(hreq'[p])
         /\ received' = received => ClientInv'
<1>1. \A p \in Reqs : hreq'[p] = IF p = r THEN q ELSE hreq[p] BY DEF ClientInv
<1>2. hreq' = [p \in Reqs |-> hreq'[p]] BY <1>1 DEF ClientInv
<1>3. \A p \in Reqs : RequestOk(hreq'[p]) BY <1>1 DEF ClientInv
<1>4. received' = received => Http!BodyWhole' /\ Http!ParamsOnce'
  BY DEF ClientInv, Http!BodyWhole, Http!ParamsOnce
<1> QED BY <1>2, <1>3, <1>4 DEF ClientInv

LEMMA NewOk ==
  ASSUME NEW a \in {"GET", "POST"}, NEW x
  PROVE  RequestOk(Http!NewRequest(a, x))
<1> DEFINE q == Http!NewRequest(a, x)
<1>1. q \in HttpRequests(x, {}) BY DEF HttpRequests, Http!NewRequest
<1>2. q.content = "none" /\ q.sent = 0 /\ q.inUrl = 0 /\ q.stage = "idle" /\ q.answers = 0
  BY DEF Http!NewRequest
<1> QED BY <1>1, <1>2 DEF RequestOk

\* What a program does to a request before it sends it, or to its answer.
LEMMA FilledOk ==
  ASSUME NEW q, RequestOk(q)
  PROVE  /\ RequestOk(Http!WithBody(q))
         /\ q.sent = 0 => RequestOk([q EXCEPT !.params = TRUE])
         /\ RequestOk([q EXCEPT !.files = TRUE])
         /\ \A x, y : RequestOk([q EXCEPT !.chain = x, !.mine = y])
         /\ \A x \in BOOLEAN : RequestOk([q EXCEPT !.closed = x])
         /\ \A x \in BOOLEAN, y \in {"part", "whole"} : RequestOk([q EXCEPT !.body = y, !.closed = x])
<1>0. PICK x0, y0 : q \in HttpRequests(x0, y0) BY DEF RequestOk
<1> USE <1>0
<1>1. RequestOk(Http!WithBody(q))
  <2>1. Http!WithBody(q) \in HttpRequests(x0, y0) BY DEF HttpRequests, Http!WithBody
  <2> QED BY <2>1 DEF HttpRequests, Http!WithBody, RequestOk
<1>2. ASSUME q.sent = 0 PROVE RequestOk([q EXCEPT !.params = TRUE])
  <2>1. [q EXCEPT !.params = TRUE] \in HttpRequests(x0, y0) BY DEF HttpRequests
  <2> QED BY <1>2, <2>1 DEF HttpRequests, RequestOk
<1>3. RequestOk([q EXCEPT !.files = TRUE])
  <2>1. [q EXCEPT !.files = TRUE] \in HttpRequests(x0, y0) BY DEF HttpRequests
  <2> QED BY <2>1 DEF HttpRequests, RequestOk
<1>4. ASSUME NEW x, NEW y PROVE RequestOk([q EXCEPT !.chain = x, !.mine = y])
  <2>1. [q EXCEPT !.chain = x, !.mine = y] \in HttpRequests(x, y) BY DEF HttpRequests
  <2> QED BY <2>1 DEF HttpRequests, RequestOk
<1>5. ASSUME NEW x \in BOOLEAN PROVE RequestOk([q EXCEPT !.closed = x])
  <2>1. [q EXCEPT !.closed = x] \in HttpRequests(x0, y0) BY DEF HttpRequests
  <2> QED BY <2>1 DEF HttpRequests, RequestOk
<1>6. ASSUME NEW x \in BOOLEAN, NEW y \in {"part", "whole"}
      PROVE  RequestOk([q EXCEPT !.body = y, !.closed = x])
  <2>1. [q EXCEPT !.body = y, !.closed = x] \in HttpRequests(x0, y0) BY DEF HttpRequests
  <2> QED BY <2>1 DEF HttpRequests, RequestOk
<1> QED BY <1>1, <1>2, <1>3, <1>4, <1>5, <1>6

\* The request buildURL leaves.
LEMMA BuiltURL ==
  ASSUME NEW q, RequestOk(q), NEW x, NEW y, q \in HttpRequests(x, y)
  PROVE  LET b == Http!BuildURL(q) IN
         /\ b \in HttpRequests(x, y)
         /\ b.content = "data" => b.reader # "nil"
         /\ q.sent = 0 => b.inUrl = IF q.method = "GET" /\ q.params THEN 1 ELSE 0
         /\ b.method = q.method /\ b.params = q.params /\ b.sent = q.sent
         /\ b.own = q.own /\ b.answers = q.answers /\ b.resp = q.resp
<1> DEFINE b == Http!BuildURL(q)
<1> SUFFICES /\ b \in HttpRequests(x, y)
             /\ b.content = "data" => b.reader # "nil"
             /\ q.sent = 0 => b.inUrl = IF q.method = "GET" /\ q.params THEN 1 ELSE 0
             /\ b.method = q.method /\ b.params = q.params /\ b.sent = q.sent
             /\ b.own = q.own /\ b.answers = q.answers /\ b.resp = q.resp
  OBVIOUS
<1>1. \/ b = q /\ (q.method = "GET" => ~q.params)
      \/ b = [q EXCEPT !.inUrl = q.inUrl + 1] /\ q.method = "GET" /\ q.params
      \/ b = [q EXCEPT !.content = "files", !.reader = "full"] /\ q.method = "POST"
      \/ b = [q EXCEPT !.content = "data", !.reader = "full"] /\ q.method = "POST"
  BY DEF HttpRequests, Http!BuildURL, Http!WithBody
<1> HIDE DEF b
<1>0. (q.content = "data" => q.reader # "nil") /\ (q.sent = 0 => q.inUrl = 0) BY DEF RequestOk
<1> USE <1>0
<1>2. CASE b = q /\ (q.method = "GET" => ~q.params) BY <1>2
<1>3. CASE b = [q EXCEPT !.inUrl = q.inUrl + 1] /\ q.method = "GET" /\ q.params
  <2> DEFINE i == q.inUrl + 1
  <2>1. i \in Nat /\ (q.sent = 0 => i = 1) BY DEF HttpRequests
  <2> HIDE DEF i
  <2>2. b = [q EXCEPT !.inUrl = i] BY <1>3 DEF i
  <2>3. /\ b \in HttpRequests(x, y) /\ b.content = q.content /\ b.reader = q.reader /\ b.inUrl = i
        /\ b.method = q.method /\ b.params = q.params /\ b.sent = q.sent
        /\ b.own = q.own /\ b.answers = q.answers /\ b.resp = q.resp
    BY <2>1, <2>2 DEF HttpRequests
  <2> QED BY <1>3, <2>1, <2>3
<1>4. CASE b = [q EXCEPT !.content = "files", !.reader = "full"] /\ q.method = "POST"
  BY <1>4 DEF HttpRequests
<1>5. CASE b = [q EXCEPT !.content = "data", !.reader = "full"] /\ q.method = "POST"
  BY <1>5 DEF HttpRequests
<1> QED BY <1>1, <1>2, <1>3, <1>4, <1>5

LEMMA SendKeeps ==
  ASSUME ClientInv, NEW r \in Reqs, NEW a \in BOOLEAN, Http!Send(r, a), ~a \/ ~hreq[r].resp
  PROVE  ClientInv'
<1> DEFINE q == hreq[r]
           b == Http!BuildURL(q)
           o == b.own \/ ~a
           i == b.sent + 1
           s == [b EXCEPT !.stage = "send", !.tries = 0, !.keep = a, !.sent = i, !.own = o]
<1>1. RequestOk(q) BY DEF ClientInv
<1>2. PICK x, y : q \in HttpRequests(x, y) BY <1>1 DEF RequestOk
<1>3. hreq' = [hreq EXCEPT ![r] = s] /\ received' = received BY DEF Http!Send
<1>4. /\ b \in HttpRequests(x, y)
      /\ b.content = "data" => b.reader # "nil"
      /\ q.sent = 0 => b.inUrl = IF q.method = "GET" /\ q.params THEN 1 ELSE 0
      /\ b.method = q.method /\ b.params = q.params /\ b.sent = q.sent
      /\ b.own = q.own /\ b.answers = q.answers /\ b.resp = q.resp
  BY <1>1, <1>2, BuiltURL
<1>5. /\ q.sent \in Nat /\ q.own \in BOOLEAN /\ q.resp \in BOOLEAN /\ q.answers \in Nat
      /\ ~q.own => q.answers <= 1 /\ (q.answers = 1 => q.resp)
  BY <1>1, <1>2 DEF HttpRequests, RequestOk
<1>8. o \in BOOLEAN /\ (~o => a /\ ~q.own) /\ i \in Nat /\ i = q.sent + 1 BY <1>4, <1>5
<1> HIDE DEF b, o, i
<1>6. /\ s \in HttpRequests(x, y)
      /\ s.content = b.content /\ s.reader = b.reader /\ s.inUrl = b.inUrl /\ s.method = b.method
      /\ s.params = b.params /\ s.sent = i /\ s.own = o /\ s.answers = q.answers
      /\ s.resp = q.resp /\ s.keep = a
  BY <1>4, <1>5, <1>8, ZenonT(30) DEF HttpRequests
<1> HIDE DEF s
<1>7. RequestOk(s)
  <2>1. ~s.own => a /\ ~q.own /\ ~q.resp BY <1>5, <1>6, <1>8
  <2>2. s.sent # 0 /\ (s.sent = 1 => q.sent = 0) BY <1>5, <1>6, <1>8
  <2>3. \E u, v : s \in HttpRequests(u, v) BY <1>6
  <2> QED BY <1>4, <1>5, <1>6, <2>1, <2>2, <2>3 DEF RequestOk
<1> QED BY <1>3, <1>7, OneRequest

LEMMA AttemptKeeps ==
  ASSUME ClientInv, NEW r \in Reqs, Http!Attempt(r)
  PROVE  ClientInv'
<1> DEFINE q == hreq[r]
           read == IF q.reader = "nil" THEN "nil" ELSE "used"
<1>1. RequestOk(q) /\ q.stage = "send" BY DEF ClientInv, Http!Attempt
<1>2. PICK x, y : q \in HttpRequests(x, y) BY <1>1 DEF RequestOk
<1>3. PICK how \in Http!Outcomes(q) :
        /\ received' = IF how = "refused" THEN received
                       ELSE [content |-> q.content, reader |-> q.reader, inUrl |-> q.inUrl, sent |-> q.sent,
                             params |-> q.params, method |-> q.method, files |-> q.files, own |-> q.own]
        /\ hreq' = [hreq EXCEPT ![r] =
             IF how = "ok"
             THEN [q EXCEPT !.stage = "idle", !.reader = read, !.answers = q.answers + 1,
                            !.resp = q.resp \/ q.keep, !.closed = q.closed /\ ~q.keep]
             ELSE Http!Again([q EXCEPT !.reader = IF how = "broken" THEN read ELSE q.reader])]
  BY DEF Http!Attempt
<1>4. how \in {"ok", "refused", "broken"} /\ (how # "refused" => ~(q.reader = "used" /\ q.content = "data"))
  BY <1>3 DEF Http!Outcomes
<1>5. read \in {"nil", "used"} /\ (q.content = "data" => read # "nil") BY <1>1 DEF RequestOk
<1> HIDE DEF read
\* An answer.
<1>6. ASSUME NEW s, NEW o \in BOOLEAN, NEW c \in BOOLEAN, NEW i \in Nat, o <=> q.resp \/ q.keep,
             i = q.answers + 1, s = [q EXCEPT !.stage = "idle", !.reader = read, !.answers = i,
                           !.resp = o, !.closed = c]
      PROVE  RequestOk(s)
  <2>1. /\ s \in HttpRequests(x, y)
        /\ s.content = q.content /\ s.reader = read /\ s.inUrl = q.inUrl /\ s.method = q.method
        /\ s.params = q.params /\ s.sent = q.sent /\ s.own = q.own /\ s.answers = i
        /\ s.resp = o /\ s.stage = "idle"
    <3>1. s = [q EXCEPT !.stage = "idle", !.reader = read, !.answers = i, !.resp = o, !.closed = c] BY <1>6
    <3> QED BY <1>2, <1>5, <3>1 DEF HttpRequests
  <2>2. q.answers \in Nat /\ (~q.own => q.keep /\ ~q.resp /\ q.answers = 0)
    BY <1>1, <1>2 DEF RequestOk, HttpRequests
  <2>3. \E u, v : s \in HttpRequests(u, v) BY <2>1
  <2>4. /\ q.content = "data" => q.reader # "nil"
        /\ q.sent # 0 /\ (q.sent = 1 => q.inUrl = IF q.method = "GET" /\ q.params THEN 1 ELSE 0)
    BY <1>1 DEF RequestOk
  <2> QED BY <1>5, <1>6, <2>1, <2>2, <2>3, <2>4 DEF RequestOk
\* None; the next attempt has a reader again if the body is data.
<1>7. ASSUME NEW c \in {"nil", "full", "used"} PROVE RequestOk(Http!Again([q EXCEPT !.reader = c]))
  <2> DEFINE p == [q EXCEPT !.reader = c]
             s == Http!Again(p)
  <2>1. p \in HttpRequests(x, y) /\ p.content = q.content BY <1>2, <1>7 DEF HttpRequests
  <2>2. Http!CopyBody(p) \in {"nil", "full"} /\ (q.content = "data" => Http!CopyBody(p) = "full")
    BY <2>1 DEF Http!CopyBody
  <2>3. /\ s \in HttpRequests(x, y)
        /\ s.content = q.content /\ s.reader = Http!CopyBody(p) /\ s.inUrl = q.inUrl /\ s.method = q.method
        /\ s.params = q.params /\ s.sent = q.sent /\ s.own = q.own /\ s.answers = q.answers
        /\ s.resp = q.resp /\ s.keep = q.keep
    <3>1. PICK e \in {"send", "idle"} :
            s = [p EXCEPT !.tries = p.tries + 1, !.reader = Http!CopyBody(p), !.stage = e]
      BY DEF Http!Again
    <3> DEFINE i == p.tries + 1
               f == Http!CopyBody(p)
    <3>2. /\ p.inUrl = q.inUrl /\ p.method = q.method
          /\ p.params = q.params /\ p.sent = q.sent /\ p.own = q.own /\ p.answers = q.answers
          /\ p.resp = q.resp /\ p.keep = q.keep
      BY <1>2 DEF HttpRequests
    <3> HIDE DEF s, p
    <3>3. i \in Nat BY <2>1 DEF HttpRequests
    <3>4. s = [p EXCEPT !.tries = i, !.reader = f, !.stage = e] BY <3>1
    <3>5. f \in {"nil", "full"} BY <2>2
    <3> HIDE DEF i, f
    <3>6. /\ s \in HttpRequests(x, y)
          /\ s.content = p.content /\ s.reader = f /\ s.inUrl = p.inUrl /\ s.method = p.method
          /\ s.params = p.params /\ s.sent = p.sent /\ s.own = p.own /\ s.answers = p.answers
          /\ s.resp = p.resp /\ s.keep = p.keep
      BY <2>1, <3>3, <3>4, <3>5 DEF HttpRequests
    <3> QED BY <2>1, <3>2, <3>6 DEF f
  <2> HIDE DEF s, p
  <2>4. \E u, v : s \in HttpRequests(u, v) BY <2>3
  <2>5. /\ q.sent # 0 /\ (q.sent = 1 => q.inUrl = IF q.method = "GET" /\ q.params THEN 1 ELSE 0)
        /\ ~q.own => q.answers <= 1 /\ (q.answers = 1 => q.resp) /\ q.keep /\ ~q.resp
    BY <1>1 DEF RequestOk
  <2>6. RequestOk(s) BY <2>2, <2>3, <2>4, <2>5 DEF RequestOk
  <2> QED BY <2>6 DEF s, p
<1>8. hreq' = [p \in Reqs |-> hreq'[p]] /\ \A p \in Reqs : RequestOk(hreq'[p])
  <2>1. CASE how = "ok"
    <3> DEFINE o == q.resp \/ q.keep
               c == q.closed /\ ~q.keep
               i == q.answers + 1
               s == [q EXCEPT !.stage = "idle", !.reader = read, !.answers = i, !.resp = o, !.closed = c]
    <3>1. o \in BOOLEAN /\ c \in BOOLEAN /\ (o <=> q.resp \/ q.keep) OBVIOUS
    <3>4. i \in Nat /\ i = q.answers + 1 BY <1>2 DEF HttpRequests
    <3>2. hreq' = [hreq EXCEPT ![r] = s] BY <1>3, <2>1
    <3> HIDE DEF o, c, i
    <3>3. RequestOk(s) BY <1>6, <3>1, <3>4
    <3> HIDE DEF s
    <3> QED BY <3>2, <3>3, OneRequest
  <2>2. CASE how # "ok"
    <3> DEFINE c == IF how = "broken" THEN read ELSE q.reader
    <3>1. c \in {"nil", "full", "used"} BY <1>2, <1>5 DEF HttpRequests
    <3>2. hreq' = [hreq EXCEPT ![r] = Http!Again([q EXCEPT !.reader = c])] BY <1>3, <2>2
    <3> HIDE DEF c
    <3> QED BY <1>7, <3>1, <3>2, OneRequest
  <2> QED BY <2>1, <2>2
<1>9. Http!BodyWhole' /\ Http!ParamsOnce'
  <2>1. CASE how = "refused" BY <1>3, <2>1 DEF ClientInv, Http!BodyWhole, Http!ParamsOnce
  <2>2. CASE how # "refused"
    <3>1. /\ received'.content = q.content /\ received'.reader = q.reader /\ received'.inUrl = q.inUrl
          /\ received'.sent = q.sent /\ received'.params = q.params /\ received'.method = q.method
      BY <1>3, <2>2
    <3>2. q.content = "data" => q.reader = "full" BY <1>1, <1>2, <1>4, <2>2 DEF RequestOk, HttpRequests
    <3> QED BY <1>1, <3>1, <3>2 DEF RequestOk, Http!BodyWhole, Http!ParamsOnce
  <2> QED BY <2>1, <2>2
<1> QED BY <1>8, <1>9 DEF ClientInv

LEMMA ClientBegins == Http!Init => ClientInv
<1> SUFFICES ASSUME Http!Init PROVE ClientInv
  OBVIOUS
<1> DEFINE q == [Http!NewRequest("GET", Http!Slice(1, 0)) EXCEPT !.live = FALSE]
<1>1. hreq = [r \in Reqs |-> q] /\ received = <<>> BY DEF Http!Init
<1>2. RequestOk(q)
  <2>1. q \in HttpRequests(Http!Slice(1, 0), {}) BY DEF HttpRequests, Http!NewRequest
  <2>2. q.content = "none" /\ q.sent = 0 /\ q.inUrl = 0 /\ q.stage = "idle" /\ q.answers = 0
    BY DEF Http!NewRequest
  <2> QED BY <2>1, <2>2 DEF RequestOk
<1> HIDE DEF q
<1> QED BY <1>1, <1>2 DEF ClientInv, Http!BodyWhole, Http!ParamsOnce

LEMMA ClientKeeps ==
  ASSUME ClientInv, [Http!Next]_Http!httpVars
  PROVE  ClientInv'
<1>1. CASE UNCHANGED <<hreq, received>>
  BY <1>1 DEF ClientInv, Http!BodyWhole, Http!ParamsOnce
<1>2. ASSUME NEW r \in Reqs, Http!New(r) \/ Http!CustomReq(r) PROVE ClientInv'
  <2>1. PICK a \in {"GET", "POST"}, x \in {defaults, client} :
          hreq' = [hreq EXCEPT ![r] = Http!NewRequest(a, x)]
    BY <1>2 DEF Http!New, Http!CustomReq
  <2>2. received' = received BY <1>2 DEF Http!New, Http!CustomReq
  <2> QED BY <2>1, <2>2, NewOk, OneRequest
<1>3. ASSUME NEW r \in Reqs, Http!AddFilters(r) \/ Http!SetFilters(r) PROVE ClientInv'
  <2>1. PICK x, y : hreq' = [hreq EXCEPT ![r] = [hreq[r] EXCEPT !.chain = x, !.mine = y]]
    <3> DEFINE f == adds + 1
               y == hreq[r].mine \cup {f}
    <3>1. \/ hreq' = [hreq EXCEPT ![r] = [hreq[r] EXCEPT !.chain = Http!Grown(hreq[r].chain, f), !.mine = y]]
          \/ hreq' = [hreq EXCEPT ![r] = [hreq[r] EXCEPT !.chain = Http!Slice(Len(arrays) + 1, 1), !.mine = y]]
      BY <1>3, ZenonT(30) DEF Http!AddFilters, Http!SetFilters
    <3> HIDE DEF y
    <3> QED BY <3>1
  <2>2. received' = received BY <1>3 DEF Http!AddFilters, Http!SetFilters, Http!Adding
  <2>3. RequestOk(hreq[r]) BY DEF ClientInv
  <2>4. RequestOk([hreq[r] EXCEPT !.chain = x, !.mine = y]) BY <2>3, FilledOk
  <2> QED BY <2>1, <2>2, <2>4, OneRequest
<1>4. ASSUME NEW r \in Reqs, Http!Body(r) \/ Http!Param(r) \/ Http!PostFile(r) PROVE ClientInv'
  <2>1. /\ hreq[r].sent = 0 /\ received' = received
        /\ \E q \in {Http!WithBody(hreq[r]), [hreq[r] EXCEPT !.params = TRUE], [hreq[r] EXCEPT !.files = TRUE]} :
             hreq' = [hreq EXCEPT ![r] = q]
    BY <1>4 DEF Http!Body, Http!Param, Http!PostFile, Http!Fill
  <2>2. RequestOk(hreq[r]) BY DEF ClientInv
  <2>3. \A q \in {Http!WithBody(hreq[r]), [hreq[r] EXCEPT !.params = TRUE], [hreq[r] EXCEPT !.files = TRUE]} :
          RequestOk(q)
    BY <2>1, <2>2, FilledOk
  <2> QED BY <2>1, <2>3, OneRequest
<1>5. ASSUME NEW r \in Reqs, Http!DoRequest(r) \/ Http!GetResponse(r) PROVE ClientInv'
  BY <1>5, SendKeeps DEF Http!DoRequest, Http!GetResponse
<1>6. ASSUME NEW r \in Reqs, Http!Bytes(r) \/ Http!HandleResponse(r) \/ Http!ToFile(r) PROVE ClientInv'
  <2>1. RequestOk(hreq[r]) BY DEF ClientInv
  <2>2. hreq[r].closed \in BOOLEAN /\ hreq[r].body \in {"none", "part", "whole"}
    BY <2>1 DEF RequestOk, HttpRequests
  <2>3. received' = received BY <1>6 DEF Http!Bytes, Http!HandleResponse, Http!ToFile
  <2>4. CASE Http!Bytes(r)
    <3>1. PICK x \in BOOLEAN, y \in {"part", "whole"} :
            hreq' = [hreq EXCEPT ![r] = [hreq[r] EXCEPT !.body = y, !.closed = x]]
      BY <2>2, <2>4 DEF Http!Bytes
    <3> QED BY <2>1, <2>3, <3>1, FilledOk, OneRequest
  <2>5. CASE Http!HandleResponse(r) \/ Http!ToFile(r)
    <3>1. PICK x \in BOOLEAN : hreq' = [hreq EXCEPT ![r] = [hreq[r] EXCEPT !.closed = x]]
      BY <2>5 DEF Http!HandleResponse, Http!ToFile
    <3> QED BY <2>1, <2>3, <3>1, FilledOk, OneRequest
  <2> QED BY <1>6, <2>4, <2>5
<1>7. CASE Http!AddDefaultFilter \/ Http!NewClient
  BY <1>1, <1>7 DEF Http!AddDefaultFilter, Http!NewClient, Http!Adding
<1>8. CASE UNCHANGED Http!httpVars BY <1>1, <1>8 DEF Http!httpVars
<1> QED BY <1>2, <1>3, <1>4, <1>5, <1>6, <1>7, <1>8, AttemptKeeps DEF Http!Next

\* Whatever goes wrong with an attempt, the next one sends the whole body and
\* the parameters once; reading the answer, in any way and again and again,
\* sends nothing more.
THEOREM ClientCorrect == Spec => []ClientSound
<1> DEFINE Inv == which = "http" => ClientInv
<1>1. Init => Inv BY ClientBegins DEF Init
<1>2. Inv /\ [Next]_vars => Inv'
  <2> SUFFICES ASSUME Inv, [Next]_vars, which' = "http" PROVE ClientInv' OBVIOUS
  <2>1. which = "http" BY DEF Next, vars
  <2>2. [Http!Next]_Http!httpVars BY <2>1 DEF Next, vars, httpVars, Http!httpVars
  <2> QED BY <2>1, <2>2, ClientKeeps
<1>3. Inv => ClientSound
  BY DEF ClientInv, RequestOk, ClientSound, Http!ClientSound, Http!SentOnce
<1> QED BY <1>1, <1>2, <1>3, PTL DEF Spec

-----------------------------------------------------------------------------
(* The request pipeline.                                                   *)

Contexts == [started : BOOLEAN, status : Nat, out : Nat, run : Nat, sess : Nat]
Panics == {"none", "stop", "named", "other"}
Answers == [c : Contexts, s : Nat, w : Nat, p : Panics]

\* While nothing was sent, the status that is wanted is the one that was set;
\* a panic with a page of its own has set its status.
AnswerOk(a) ==
  /\ a \in Answers
  /\ a.s = 0 => a.c.status = 0 /\ a.w = a.c.out
  /\ a.s # 0 => a.w \in {0, a.s}
  /\ a.p = "named" => a.c.out # 0

\* What was sent stays; the session and the steering are not the answer's; a
\* panic that is shown later has sent nothing itself.
Follows(a, b) ==
  /\ AnswerOk(b) /\ b.c.sess = a.c.sess
  /\ a.s # 0 => b.s = a.s
  /\ b.p \in {"named", "other"} => b.s = a.s

Quiet(a) == AnswerOk(a) /\ a.p = "none"

LEMMA WriteFollows ==
  ASSUME NEW a, Quiet(a)
  PROVE  /\ Follows(a, Pipe!Write(a)) /\ Pipe!Write(a).p = "none" /\ Pipe!Write(a).s # 0
         /\ Pipe!Write(a).c = [a.c EXCEPT !.started = TRUE]
         /\ a.s # 0 => Pipe!Write(a).s = a.s /\ Pipe!Write(a).w = a.w
         /\ a.s = 0 => Pipe!Write(a).s = 200 /\ Pipe!Write(a).w = 0
<1> DEFINE b == Pipe!Write(a)
           c == [a.c EXCEPT !.started = TRUE]
           s == IF a.s = 0 THEN 200 ELSE a.s
           w == IF a.s = 0 THEN 0 ELSE a.w
<1>1. a \in Answers /\ a.c \in Contexts /\ a.s \in Nat /\ a.w \in Nat BY DEF Quiet, AnswerOk, Answers
<1>2. /\ c \in Contexts /\ c.out = a.c.out /\ c.status = a.c.status /\ c.sess = a.c.sess
      /\ s \in Nat /\ s # 0 /\ w \in Nat
  <2>1. c \in Contexts /\ c.out = a.c.out /\ c.status = a.c.status /\ c.sess = a.c.sess
    BY <1>1 DEF Contexts
  <2>2. s \in Nat /\ s # 0 /\ w \in Nat
    <3> HIDE DEF c
    <3> QED BY <1>1
  <2> QED BY <2>1, <2>2
<1>3. b = [a EXCEPT !.c = c, !.s = s, !.w = w] BY <1>1 DEF Pipe!Write, Answers
<1>4. /\ a.s # 0 => s = a.s /\ w = a.w
      /\ a.s = 0 => s = 200 /\ w = 0
  OBVIOUS
<1> HIDE DEF c, s, w
<1>5. b \in Answers /\ b.c = c /\ b.s = s /\ b.w = w /\ b.p = a.p BY <1>1, <1>2, <1>3 DEF Answers
<1> HIDE DEF b
<1>6. AnswerOk(b) BY <1>2, <1>4, <1>5 DEF Quiet, AnswerOk
<1> QED BY <1>2, <1>4, <1>5, <1>6 DEF Follows, Quiet, b, c

LEMMA WriteHeaderFollows ==
  ASSUME NEW a, Quiet(a), NEW x \in Nat \ {0}, a.s = 0 => a.w \in {0, x}
  PROVE  LET b == Pipe!WriteHeader(a, x) IN
         /\ Follows(a, b) /\ b.p = "none" /\ b.s # 0 /\ b.c.out = a.c.out /\ b.w = a.w
         /\ (a.s = 0 => b.s = x)
<1> DEFINE b == Pipe!WriteHeader(a, x)
<1> SUFFICES /\ Follows(a, b) /\ b.p = "none" /\ b.s # 0 /\ b.c.out = a.c.out /\ b.w = a.w
             /\ (a.s = 0 => b.s = x)
  OBVIOUS
<1>1. a \in Answers /\ a.c \in Contexts /\ a.s \in Nat /\ a.w \in Nat /\ a.c.status \in Nat
  BY DEF Quiet, AnswerOk, Answers, Contexts
<1>2. CASE a.c.status > 0
  <2>1. b = a /\ a.s # 0 BY <1>1, <1>2 DEF Pipe!WriteHeader, Quiet, AnswerOk
  <2> QED BY <2>1 DEF Follows, Quiet
<1>3. CASE ~(a.c.status > 0)
  <2> DEFINE c == [a.c EXCEPT !.status = x, !.started = TRUE]
             s == IF a.s = 0 THEN x ELSE a.s
  <2>1. c \in Contexts /\ c.out = a.c.out /\ c.status = x /\ c.sess = a.c.sess /\ s \in Nat /\ s # 0
    BY <1>1 DEF Contexts
  <2>2. b = [a EXCEPT !.c = c, !.s = s] BY <1>1, <1>3 DEF Pipe!WriteHeader, Answers, Contexts
  <2>3. (a.s # 0 => s = a.s) /\ (a.s = 0 => s = x) OBVIOUS
  <2> HIDE DEF c, s
  <2>4. b \in Answers /\ b.c = c /\ b.s = s /\ b.w = a.w /\ b.p = a.p BY <1>1, <2>1, <2>2 DEF Answers
  <2> HIDE DEF b
  <2>5. AnswerOk(b) BY <2>1, <2>3, <2>4 DEF Quiet, AnswerOk
  <2> QED BY <2>1, <2>3, <2>4, <2>5 DEF Follows, Quiet
<1> QED BY <1>2, <1>3

\* A status that is set, or only wanted because it is sent next.
LEMMA SetStatusFollows ==
  ASSUME NEW a, Quiet(a), NEW x \in Nat \ {0}
  PROVE  LET b == Pipe!SetStatus(a, x) IN
         /\ Follows(a, b) /\ b.p = "none" /\ b.s = a.s /\ b.c.out = x
         /\ (a.s = 0 => b.w = x)
<1> DEFINE b == Pipe!SetStatus(a, x)
           c == [a.c EXCEPT !.out = x]
           w == IF a.s = 0 THEN x ELSE a.w
<1> SUFFICES Follows(a, b) /\ b.p = "none" /\ b.s = a.s /\ b.c.out = x /\ (a.s = 0 => b.w = x)
  OBVIOUS
<1>1. a \in Answers /\ a.c \in Contexts /\ a.s \in Nat /\ a.w \in Nat BY DEF Quiet, AnswerOk, Answers
<1>2. c \in Contexts /\ c.out = x /\ c.status = a.c.status /\ c.sess = a.c.sess /\ w \in Nat
  BY <1>1 DEF Contexts
<1>3. b = [a EXCEPT !.c = c, !.w = w] BY <1>1 DEF Pipe!SetStatus, Answers, Contexts
<1>4. (a.s # 0 => w = a.w) /\ (a.s = 0 => w = x) OBVIOUS
<1> HIDE DEF c, w
<1>5. c \in Contexts /\ w \in Nat BY <1>2
<1> HIDE DEF b
<1>6. b \in Answers /\ b.c = c /\ b.s = a.s /\ b.w = w /\ b.p = a.p BY <1>1, <1>3, <1>5 DEF Answers
<1>7. AnswerOk(b) BY <1>2, <1>4, <1>6 DEF Quiet, AnswerOk
<1> QED BY <1>2, <1>4, <1>6, <1>7 DEF Follows, Quiet

LEMMA FollowsTwice ==
  ASSUME NEW a, NEW b, NEW d, Follows(a, b), b.p = "none", Follows(b, d),
         b.s = a.s \/ d.p \in {"none", "stop"}
  PROVE  Follows(a, d)
BY DEF Follows

LEMMA BodyFollows ==
  ASSUME NEW a, Quiet(a)
  PROVE  /\ Follows(a, Pipe!Body(a)) /\ Pipe!Body(a).p = "none" /\ Pipe!Body(a).s # 0
         /\ a.s = 0 /\ a.c.out # 0 => Pipe!Body(a).s = a.c.out /\ Pipe!Body(a).w = a.w
<1>1. CASE a.c.out = 0 BY <1>1, WriteFollows DEF Pipe!Body
<1>2. CASE a.c.out # 0
  <2> DEFINE h == Pipe!WriteHeader(a, a.c.out)
             b == Pipe!Body(a)
             c == [h.c EXCEPT !.out = 0]
  <2>1. a.c.out \in Nat \ {0} /\ (a.s = 0 => a.w \in {0, a.c.out}) /\ a.s \in Nat
    BY <1>2 DEF Quiet, AnswerOk, Answers, Contexts
  <2>2. Follows(a, h) /\ h.p = "none" /\ h.s # 0 /\ h.w = a.w /\ (a.s = 0 => h.s = a.c.out)
    BY <2>1, WriteHeaderFollows
  <2>3. h \in Answers /\ h.c \in Contexts BY <2>2 DEF Follows, AnswerOk, Answers
  <2>4. b = [h EXCEPT !.c = c] BY <1>2, <2>3 DEF Pipe!Body, Answers, Contexts
  <2> HIDE DEF h, b
  <2>5. c \in Contexts /\ c.out = 0 /\ c.sess = h.c.sess BY <2>3 DEF Contexts
  <2> HIDE DEF c
  <2>6. b \in Answers /\ b.c = c /\ b.s = h.s /\ b.w = h.w /\ b.p = "none" BY <2>2, <2>3, <2>4, <2>5 DEF Answers
  <2>7. AnswerOk(b) BY <2>2, <2>5, <2>6 DEF Follows, AnswerOk
  <2>8. Follows(a, b) BY <2>2, <2>5, <2>6, <2>7 DEF Follows
  <2> QED BY <2>2, <2>6, <2>8 DEF b
<1> QED BY <1>1, <1>2

\* The status that is sent next is the one that is wanted.
LEMMA WantedFollows ==
  ASSUME NEW a, Quiet(a), NEW x \in Nat \ {0}
  PROVE  LET h == Pipe!WriteHeader(IF a.s = 0 THEN [a EXCEPT !.w = x] ELSE a, x) IN
         Follows(a, h) /\ h.p = "none" /\ h.s # 0 /\ (a.s = 0 => h.s = x /\ h.w = x)
<1> DEFINE d == IF a.s = 0 THEN [a EXCEPT !.w = x] ELSE a
           h == Pipe!WriteHeader(d, x)
<1> SUFFICES Follows(a, h) /\ h.p = "none" /\ h.s # 0 /\ (a.s = 0 => h.s = x /\ h.w = x)
  OBVIOUS
<1>1. CASE a.s # 0
  <2>1. d = a /\ (a.s = 0 => a.w \in {0, x}) BY <1>1
  <2> QED BY <1>1, <2>1, WriteHeaderFollows
<1>2. CASE a.s = 0
  <2>1. a \in Answers BY DEF Quiet, AnswerOk
  <2>2. d = [a EXCEPT !.w = x] BY <1>2
  <2> HIDE DEF d
  <2>3. d \in Answers /\ d.c = a.c /\ d.s = 0 /\ d.w = x /\ d.p = a.p BY <1>2, <2>1, <2>2 DEF Answers
  <2>5. a.c \in Contexts /\ a.c.status = 0 /\ a.p = "none"
    BY <1>2, <2>1 DEF Quiet, AnswerOk, Answers
  <2> DEFINE c == [a.c EXCEPT !.status = x, !.started = TRUE]
  <2>6. h = [d EXCEPT !.c = c, !.s = x]
    <3>1. ~(d.c.status > 0) /\ d.c = a.c BY <2>3, <2>5
    <3>2. h = [d EXCEPT !.c.status = x, !.c.started = TRUE, !.s = x]
      BY <2>3, <3>1 DEF Pipe!WriteHeader
    <3>3. [d EXCEPT !.c.status = x, !.c.started = TRUE, !.s = x] = [d EXCEPT !.c = c, !.s = x]
      <4> HIDE DEF h
      <4> QED BY <2>3, <2>5, <3>1 DEF Answers, Contexts
    <3> QED BY <3>2, <3>3
  <2>7. c \in Contexts /\ c.out = a.c.out /\ c.sess = a.c.sess BY <2>5 DEF Contexts
  <2> HIDE DEF c, h
  <2>8. h \in Answers /\ h.c = c /\ h.s = x /\ h.w = x /\ h.p = "none" BY <2>3, <2>5, <2>6, <2>7 DEF Answers
  <2>9. AnswerOk(h) BY <2>5, <2>7, <2>8 DEF AnswerOk
  <2> QED BY <1>2, <2>7, <2>8, <2>9 DEF Follows
<1> QED BY <1>1, <1>2

LEMMA DirectFollows ==
  ASSUME NEW a, Quiet(a), NEW x \in Nat \ {0}
  PROVE  Follows(a, Pipe!Direct(a, x)) /\ Pipe!Direct(a, x).p = "none"
<1> DEFINE h == Pipe!WriteHeader(IF a.s = 0 THEN [a EXCEPT !.w = x] ELSE a, x)
<1>1. Follows(a, h) /\ h.p = "none" BY WantedFollows
<1>2. Pipe!Direct(a, x) = Pipe!Write(h) BY DEF Pipe!Direct
<1> HIDE DEF h
<1>3. Quiet(h) BY <1>1 DEF Quiet, Follows
<1>4. Follows(h, Pipe!Write(h)) /\ Pipe!Write(h).p = "none" BY <1>3, WriteFollows
<1> QED BY <1>1, <1>2, <1>4, FollowsTwice

\* An error page: the status it is for is sent if none was, or its renderer
\* panics.
LEMMA ExceptionFollows ==
  ASSUME NEW a, Quiet(a), NEW x \in Nat \ {0}, NEW b \in Pipe!Exceptions(a, x)
  PROVE  Follows(a, b) /\ b.p \in {"none", "other"} /\ (b.p = "none" /\ a.s = 0 => b.s = x /\ b.w = x)
<1> DEFINE d == IF a.s = 0 THEN [a EXCEPT !.w = x] ELSE a
           h == Pipe!WriteHeader(d, x)
           c == Pipe!SetStatus(a, x)
<1>1. b \in {Pipe!Write(h), Pipe!Body(c), [c EXCEPT !.p = "other"]} BY DEF Pipe!Exceptions, Pipe!ErrorPage
<1>2. Follows(a, h) /\ h.p = "none" /\ h.s # 0 /\ (a.s = 0 => h.s = x /\ h.w = x) BY WantedFollows
<1>3. Follows(a, c) /\ c.p = "none" /\ c.s = a.s /\ c.c.out = x /\ (a.s = 0 => c.w = x) BY SetStatusFollows
<1> HIDE DEF h, c
<1>4. Quiet(h) /\ Quiet(c) BY <1>2, <1>3 DEF Quiet, Follows
<1>5. CASE b = Pipe!Write(h)
  <2>1. Follows(h, b) /\ b.p = "none" /\ b.s = h.s /\ b.w = h.w BY <1>2, <1>4, <1>5, WriteFollows
  <2>2. Follows(a, b) BY <1>2, <2>1, FollowsTwice
  <2> QED BY <1>2, <2>1, <2>2
<1>6. CASE b = Pipe!Body(c)
  <2>1. /\ Follows(c, b) /\ b.p = "none"
        /\ c.s = 0 /\ c.c.out # 0 => b.s = c.c.out /\ b.w = c.w
    BY <1>4, <1>6, BodyFollows
  <2>2. Follows(a, b) BY <1>3, <2>1, FollowsTwice
  <2> QED BY <1>3, <2>1, <2>2
<1>7. CASE b = [c EXCEPT !.p = "other"]
  <2>1. c \in Answers BY <1>3 DEF Follows, AnswerOk
  <2>2. b \in Answers /\ b.c = c.c /\ b.s = c.s /\ b.w = c.w /\ b.p = "other" BY <1>7, <2>1 DEF Answers, Panics
  <2>3. AnswerOk(b) BY <1>3, <2>2 DEF Follows, AnswerOk
  <2> QED BY <1>3, <2>2, <2>3 DEF Follows
<1> QED BY <1>1, <1>5, <1>6, <1>7

LEMMA SelfFollows == ASSUME NEW a, Quiet(a) PROVE Follows(a, a)
BY DEF Quiet, Follows

LEMMA PanicFollows ==
  ASSUME NEW a, Quiet(a), NEW x \in {"stop", "named", "other"}, x = "named" => a.c.out # 0
  PROVE  Follows(a, [a EXCEPT !.p = x])
<1> DEFINE b == [a EXCEPT !.p = x]
<1>1. a \in Answers BY DEF Quiet, AnswerOk
<1>2. b \in Answers /\ b.c = a.c /\ b.s = a.s /\ b.w = a.w /\ b.p = x BY <1>1 DEF Answers, Panics
<1> HIDE DEF b
<1>3. AnswerOk(b) BY <1>2 DEF Quiet, AnswerOk
<1> QED BY <1>2, <1>3 DEF Follows, b

\* An abort with a status of its own, and one that says all itself.
LEMMA AbortFollows ==
  ASSUME NEW a, Quiet(a), NEW d \in Pipe!Abort(a) \cup Pipe!CustomAbort(a)
  PROVE  Follows(a, d)
<1>1. PICK x \in {403, 200} : \/ d = [Pipe!SetStatus(a, x) EXCEPT !.p = "named"]
                              \/ d = [Pipe!Write(Pipe!WriteHeader(Pipe!SetStatus(a, x), x)) EXCEPT !.p = "stop"]
  BY DEF Pipe!Abort, Pipe!CustomAbort, Pipe!StopRun, Pipe!Statuses, Pipe!Named
<1> DEFINE b == Pipe!SetStatus(a, x)
           h == Pipe!WriteHeader(b, x)
           e == Pipe!Write(h)
<1>2. Follows(a, b) /\ b.p = "none" /\ b.s = a.s /\ b.c.out = x /\ x \in Nat \ {0} BY SetStatusFollows
<1>3. d = [b EXCEPT !.p = "named"] \/ d = [e EXCEPT !.p = "stop"] BY <1>1
<1> HIDE DEF b
<1>4. Quiet(b) /\ (b.s = 0 => b.w \in {0, x}) BY <1>2 DEF Quiet, Follows, AnswerOk
<1>5. CASE d = [b EXCEPT !.p = "named"]
  <2>1. Follows(b, d)
    <3>1. b.c.out # 0 BY <1>2
    <3> QED BY <1>4, <1>5, <3>1, PanicFollows
  <2> QED BY <1>2, <2>1, FollowsTwice
<1>6. CASE d = [e EXCEPT !.p = "stop"]
  <2>1. Follows(b, h) /\ h.p = "none" BY <1>2, <1>4, WriteHeaderFollows
  <2> HIDE DEF h
  <2>2. Quiet(h) BY <2>1 DEF Quiet, Follows
  <2>3. Follows(h, e) /\ e.p = "none" BY <2>2, WriteFollows
  <2> HIDE DEF e
  <2>4. Quiet(e) BY <2>3 DEF Quiet, Follows
  <2>5. Follows(e, d) BY <1>6, <2>4, PanicFollows
  <2>6. d.p = "stop"
    <3>1. e \in Answers BY <2>4 DEF Quiet, AnswerOk
    <3> QED BY <1>6, <3>1 DEF Answers
  <2>7. Follows(a, h) BY <1>2, <2>1, FollowsTwice
  <2>8. Follows(a, e) BY <2>1, <2>3, <2>7, FollowsTwice
  <2> QED BY <2>3, <2>5, <2>6, <2>8, FollowsTwice
<1> QED BY <1>3, <1>5, <1>6

\* Whatever user code does.
LEMMA UserCodeFollows ==
  ASSUME NEW a, Quiet(a), NEW b \in Pipe!UserCode(a)
  PROVE  Follows(a, b)
<1>1. \/ b \in {Pipe!Write(a), [a EXCEPT !.p = "other"], [a EXCEPT !.p = "stop"]}
      \/ b \in Pipe!Abort(a) \cup Pipe!CustomAbort(a)
      \/ b \in {a, Pipe!SetStatus(a, 200), Pipe!SetStatus(a, 201), Pipe!Body(Pipe!SetStatus(a, 500)), Pipe!Body(a)}
      \/ b \in {Pipe!Direct(a, 405), Pipe!Direct(a, 302), Pipe!Direct(a, 200), Pipe!Direct(a, 500)}
  BY DEF Pipe!UserCode, Pipe!MethodResult, Pipe!Formatted, Pipe!StopRun, Pipe!NotAllowed, Pipe!Redirect,
     Pipe!Download, Pipe!OwnStatuses
<1>2. CASE b \in {Pipe!Write(a), [a EXCEPT !.p = "other"], [a EXCEPT !.p = "stop"]}
  <2>1. Follows(a, Pipe!Write(a)) BY WriteFollows
  <2>2. Follows(a, [a EXCEPT !.p = "other"]) /\ Follows(a, [a EXCEPT !.p = "stop"]) BY PanicFollows
  <2> QED BY <1>2, <2>1, <2>2
<1>3. CASE b \in {a, Pipe!SetStatus(a, 200), Pipe!SetStatus(a, 201), Pipe!Body(Pipe!SetStatus(a, 500)), Pipe!Body(a)}
  <2> DEFINE c == Pipe!SetStatus(a, 500)
  <2>1. Follows(a, Pipe!SetStatus(a, 200)) /\ Follows(a, Pipe!SetStatus(a, 201)) BY SetStatusFollows
  <2>2. Follows(a, c) /\ c.p = "none" BY SetStatusFollows
  <2> HIDE DEF c
  <2>3. Quiet(c) BY <2>2 DEF Quiet, Follows
  <2>4. Follows(c, Pipe!Body(c)) /\ Pipe!Body(c).p = "none" BY <2>3, BodyFollows
  <2>5. Follows(a, Pipe!Body(c)) BY <2>2, <2>4, FollowsTwice
  <2>6. Follows(a, Pipe!Body(a)) BY BodyFollows
  <2>7. Follows(a, a) BY SelfFollows
  <2> QED BY <1>3, <2>1, <2>5, <2>6, <2>7 DEF c
<1>4. CASE b \in {Pipe!Direct(a, 405), Pipe!Direct(a, 302), Pipe!Direct(a, 200), Pipe!Direct(a, 500)}
  <2>1. \A x \in Nat \ {0} : Follows(a, Pipe!Direct(a, x)) BY DirectFollows
  <2> QED BY <1>4, <2>1
<1> QED BY <1>1, <1>2, <1>3, <1>4, AbortFollows

LEMMA RenderedFollows ==
  ASSUME NEW a, Quiet(a), NEW b, Follows(a, b), NEW d \in Pipe!Rendered(b)
  PROVE  Follows(a, d)
<1>1. CASE d = b BY <1>1
<1>2. CASE b.p = "none" /\ d = Pipe!Body(b)
  <2>1. Quiet(b) BY <1>2 DEF Quiet, Follows
  <2>2. Follows(b, d) /\ d.p = "none" BY <1>2, <2>1, BodyFollows
  <2> QED BY <1>2, <2>2, FollowsTwice
<1> QED BY <1>1, <1>2 DEF Pipe!Rendered

\* What the recover function answers: if nothing was sent yet the status that
\* is wanted.
LEMMA CrashedFollows ==
  ASSUME NEW a, Quiet(a), NEW b \in Pipe!Crashed(a)
  PROVE  Follows(a, b) /\ b.p = "none" /\ b.s # 0 /\ (a.s = 0 => b.w = b.s)
<1> DEFINE d == IF a.c.out = 0 /\ a.s = 0 THEN [a EXCEPT !.w = 500] ELSE a
           x == IF a.c.out # 0 THEN a.c.out ELSE 500
           h == Pipe!WriteHeader(d, x)
<1>1. b \in {h, Pipe!Write(h)} BY DEF Pipe!Crashed, Pipe!ShowErr
<1>2. a.c.out \in Nat /\ (a.s = 0 => a.w = a.c.out)
  BY DEF Quiet, AnswerOk, Answers, Contexts
<1>3. Follows(a, h) /\ h.p = "none" /\ h.s # 0 /\ (a.s = 0 => h.w = h.s)
  <2>1. CASE a.c.out = 0 /\ a.s = 0
    <3>1. h = Pipe!WriteHeader(IF a.s = 0 THEN [a EXCEPT !.w = 500] ELSE a, 500) BY <2>1
    <3> HIDE DEF h
    <3>2. Follows(a, h) /\ h.p = "none" /\ h.s # 0 /\ (a.s = 0 => h.s = 500 /\ h.w = 500) BY <3>1, WantedFollows
    <3> QED BY <3>2
  <2>2. CASE ~(a.c.out = 0 /\ a.s = 0)
    <3>1. h = Pipe!WriteHeader(a, x) BY <2>2
    <3>2. x \in Nat \ {0} /\ (a.s = 0 => a.w = x) BY <1>2, <2>2
    <3> HIDE DEF h, x
    <3>3. Follows(a, h) /\ h.p = "none" /\ h.s # 0 /\ h.w = a.w /\ (a.s = 0 => h.s = x)
      BY <3>1, <3>2, WriteHeaderFollows
    <3> QED BY <3>2, <3>3
  <2> QED BY <2>1, <2>2
<1> HIDE DEF h
<1>4. Quiet(h) BY <1>3 DEF Quiet, Follows
<1>5. Follows(h, Pipe!Write(h)) /\ Pipe!Write(h).p = "none" /\ Pipe!Write(h).s = h.s /\ Pipe!Write(h).w = h.w
  BY <1>3, <1>4, WriteFollows
<1>6. Follows(a, Pipe!Write(h)) BY <1>3, <1>5, FollowsTwice
<1> QED BY <1>1, <1>3, <1>5, <1>6

PipeTypes ==
  /\ ctx \in Contexts /\ sent \in Nat /\ wanted \in Nat /\ panicking \in Panics
  /\ n \in Nat /\ before \in Nat /\ cut \in BOOLEAN

\* Code of the handler runs: nothing panics.
Running == pc \notin {"idle", "unwind", "recover", "giveback"}
Current == [c |-> ctx, s |-> sent, w |-> wanted, p |-> panicking]

\* The answer while it is given, and what the deferred calls find.
AnswerInv ==
  /\ pc \notin {"idle", "giveback"} => AnswerOk(Current) /\ ~cut
  /\ Running => panicking = "none"
  /\ pc = "chain" => wanted = 0
  /\ pc \in {"unwind", "recover"} =>
       /\ panicking = "none" /\ sent = 0 => wanted = 0
       /\ panicking \in {"named", "other"} /\ before = 0 => sent = 0
  /\ pc \in {"giveback", "idle"} =>
       /\ wanted # 0 /\ panicking # "stop" /\ ~cut => sent = wanted
       /\ panicking \in {"named", "other"} /\ before = 0 /\ ~cut => wanted # 0

OwnInv ==
  /\ pc # "idle" => ctx.sess \in {0, n}
  /\ pc \in {"idle", "chain", "recover", "giveback"} => inner = 0
  /\ pc = "idle" => outer = 0

PipeInv == PipeTypes /\ AnswerInv /\ OwnInv

LEMMA NowQuiet ==
  ASSUME PipeInv, Running
  PROVE  Quiet(Pipe!Now) /\ Pipe!Now = Current /\ Pipe!Now.c = ctx /\ Pipe!Now.s = sent /\ Pipe!Now.w = wanted
BY DEF PipeInv, AnswerInv, Running, Current, Pipe!Now, Quiet

\* A stage that leaves an answer.
LEMMA ThenKeeps ==
  ASSUME PipeInv, Running, NEW a, Follows(Pipe!Now, a), NEW to, NEW kk, Pipe!Then(a, to, kk),
         to \notin {"idle", "recover", "giveback"},
         to = "chain" => a.w = 0 /\ inner = 0,
         to = "unwind" /\ a.p = "none" /\ a.s = 0 => a.w = 0
  PROVE  PipeInv'
<1>1. /\ a \in Answers /\ a.c \in Contexts /\ a.s \in Nat /\ a.w \in Nat /\ a.p \in Panics
      /\ a = [c |-> a.c, s |-> a.s, w |-> a.w, p |-> a.p] /\ AnswerOk(a)
  BY DEF Follows, AnswerOk, Answers
<1>2. /\ ctx' = a.c /\ sent' = a.s /\ wanted' = a.w /\ panicking' = a.p
      /\ pc' = IF a.p = "none" THEN to ELSE "unwind"
      /\ before' = IF a.p = "none" THEN before ELSE sent
      /\ UNCHANGED <<n, inner, outer, cut>>
  BY DEF Pipe!Then
<1>3. a.c.sess = ctx.sess /\ (a.p \in {"named", "other"} => a.s = sent)
  BY NowQuiet DEF Follows
<1>4. ~cut /\ panicking = "none" /\ pc \notin {"idle", "giveback"} /\ ctx.sess \in {0, n}
  BY DEF PipeInv, AnswerInv, OwnInv, Running
<1>5. PipeTypes' BY <1>1, <1>2 DEF PipeInv, PipeTypes
<1>6. Current' = a BY <1>1, <1>2 DEF Current
<1>7. pc' \notin {"idle", "recover", "giveback"} BY <1>2
<1>8. AnswerInv'
  <2>1. AnswerOk(Current') /\ ~cut' BY <1>1, <1>2, <1>4, <1>6
  <2>2. Running' => panicking' = "none" BY <1>2 DEF Running
  <2>3. pc' = "chain" => wanted' = 0 BY <1>2
  <2>4. pc' = "unwind" =>
          /\ panicking' = "none" /\ sent' = 0 => wanted' = 0
          /\ panicking' \in {"named", "other"} /\ before' = 0 => sent' = 0
    BY <1>2, <1>3
  <2>5. AnswerOk(Current)' BY <2>1 DEF AnswerOk, Answers, Contexts
  <2> QED BY <1>7, <2>1, <2>2, <2>3, <2>4, <2>5 DEF AnswerInv
<1>9. OwnInv' BY <1>2, <1>3, <1>4, <1>7 DEF OwnInv
<1> QED BY <1>5, <1>8, <1>9 DEF PipeInv

\* A stage that leaves no answer, and may start or destroy the session.
LEMMA GoKeeps ==
  ASSUME PipeInv, Running, NEW to, to \notin {"idle", "unwind", "recover", "giveback", "chain"},
         pc' = to, NEW x \in {0, n, ctx.sess}, ctx' = [ctx EXCEPT !.sess = x],
         UNCHANGED <<n, sent, panicking, wanted, before, cut>>
  PROVE  PipeInv'
<1>1. /\ ctx \in Contexts /\ ~cut /\ panicking = "none" /\ AnswerOk(Current) /\ ctx.sess \in {0, n}
      /\ x \in Nat
  BY DEF PipeInv, PipeTypes, AnswerInv, OwnInv, Running, Contexts
<1>2. /\ ctx' \in Contexts /\ ctx'.sess = x /\ ctx'.out = ctx.out /\ ctx'.status = ctx.status
  BY <1>1 DEF Contexts
<1>3. PipeTypes' BY <1>2 DEF PipeInv, PipeTypes
<1>4. AnswerOk(Current)'
  <2>1. Current \in Answers /\ Current' = [Current EXCEPT !.c = ctx'] BY <1>1 DEF AnswerOk, Current
  <2>2. Current' \in Answers BY <1>2, <2>1 DEF Answers
  <2>3. Current'.c = ctx' /\ Current'.s = sent /\ Current'.w = wanted /\ Current'.p = "none"
    BY <1>1 DEF Current
  <2>4. Current.c = ctx /\ Current.s = sent /\ Current.w = wanted BY DEF Current
  <2>5. /\ (sent = 0 => ctx.status = 0 /\ wanted = ctx.out)
        /\ (sent # 0 => wanted \in {0, sent})
    BY <1>1, <2>4 DEF AnswerOk
  <2> DEFINE b == Current'
  <2>6. AnswerOk(b)
    <3> HIDE DEF b
    <3>1. b \in Answers /\ b.c = ctx' /\ b.s = sent /\ b.w = wanted /\ b.p = "none" BY <2>2, <2>3 DEF b
    <3> QED BY <1>2, <2>5, <3>1 DEF AnswerOk
  <2> QED BY <2>6 DEF AnswerOk, Answers, Contexts
<1>5. AnswerInv' BY <1>1, <1>4 DEF AnswerInv, Running
<1>6. OwnInv' BY <1>1, <1>2 DEF OwnInv
<1> QED BY <1>3, <1>5, <1>6 DEF PipeInv

LEMMA OnKeeps ==
  ASSUME PipeInv, Running, NEW to, to \notin {"idle", "unwind", "recover", "giveback", "chain"}, Pipe!Go(to)
  PROVE  PipeInv'
<1>1. ctx' = [ctx EXCEPT !.sess = ctx.sess] /\ pc' = to /\ UNCHANGED <<n, sent, panicking, wanted, before, cut>>
  BY DEF Pipe!Go, PipeInv, PipeTypes, Contexts
<1>2. inner' = inner /\ outer' = outer BY DEF Pipe!Go
<1> QED BY <1>1, GoKeeps

LEMMA ExceptionKeeps ==
  ASSUME PipeInv, Running, NEW x \in Nat \ {0}, Pipe!Exception(x)
  PROVE  PipeInv'
<1>1. PICK a \in Pipe!Exceptions(Pipe!Now, x) : Pipe!Then(a, "admin", 0) BY DEF Pipe!Exception
<1>2. Follows(Pipe!Now, a) BY NowQuiet, ExceptionFollows
<1> QED BY <1>1, <1>2, ThenKeeps

LEMMA UserKeeps ==
  ASSUME PipeInv, Running, NEW a \in Pipe!UserCode(Pipe!Now), NEW to, NEW kk, Pipe!Then(a, to, kk),
         to \notin {"idle", "chain", "unwind", "recover", "giveback"}
  PROVE  PipeInv'
<1>1. Follows(Pipe!Now, a) BY NowQuiet, UserCodeFollows
<1> QED BY <1>1, ThenKeeps

LEMMA ContextKeeps ==
  ASSUME PipeInv, Pipe!Take
  PROVE  PipeInv'
<1>1. /\ pc = "idle" /\ n' = n + 1 /\ ctx' \in {Pipe!Reset(ctx), Pipe!Reset(Pipe!NewContext)}
      /\ pc' = "chain" /\ sent' = 0 /\ panicking' = "none" /\ inner' = 0 /\ outer' = 0
      /\ wanted' = 0 /\ before' = 0 /\ cut' = FALSE
  BY DEF Pipe!Take
<1>2. ctx' \in Contexts /\ ctx'.status = 0 /\ ctx'.out = 0 /\ ctx'.sess = 0
  <2>1. ctx \in Contexts /\ Pipe!NewContext \in Contexts
    BY DEF PipeInv, PipeTypes, Contexts, Pipe!NewContext
  <2>2. ASSUME NEW c \in Contexts
        PROVE  /\ Pipe!Reset(c) \in Contexts /\ Pipe!Reset(c).status = 0
               /\ Pipe!Reset(c).out = 0 /\ Pipe!Reset(c).sess = 0
    BY DEF Contexts, Pipe!Reset
  <2> QED BY <1>1, <2>1, <2>2
<1>3. PipeTypes'
  <2>1. n' \in Nat BY <1>1 DEF PipeInv, PipeTypes
  <2> QED BY <1>1, <1>2, <2>1 DEF PipeTypes, Panics
<1>4. AnswerOk(Current)'
  <2>1. Current' = [c |-> ctx', s |-> 0, w |-> 0, p |-> "none"] BY <1>1 DEF Current
  <2> QED BY <1>2, <2>1 DEF AnswerOk, Answers, Panics, Contexts, Current
<1>5. AnswerInv' BY <1>1, <1>4 DEF AnswerInv, Running
<1>6. OwnInv' BY <1>1, <1>2 DEF OwnInv
<1> QED BY <1>3, <1>5, <1>6 DEF PipeInv

\* The filters of the chain.
LEMMA ChainKeeps ==
  ASSUME PipeInv, Pipe!Chain \/ Pipe!ChainPanics \/ Pipe!SessionFilter
  PROVE  PipeInv'
<1>1. pc = "chain" /\ Running /\ wanted = 0 /\ inner = 0 /\ panicking = "none" /\ ctx.sess \in {0, n}
  BY DEF Pipe!Chain, Pipe!ChainPanics, Pipe!SessionFilter, Running, PipeInv, AnswerInv, OwnInv
<1>2. /\ Quiet(Pipe!Now) /\ Pipe!Now.w = 0 /\ Pipe!Now.c = ctx /\ AnswerOk(Current) /\ ~cut
      /\ ctx \in Contexts
  BY <1>1, NowQuiet DEF PipeInv, PipeTypes, AnswerInv
<1> DEFINE a == Pipe!Write(Pipe!Now)
<1>3. /\ Follows(Pipe!Now, a) /\ a.p = "none" /\ a.s # 0 /\ a.w = 0
      /\ Follows(Pipe!Now, Pipe!Now) /\ Pipe!Now.p = "none"
  BY <1>2, WriteFollows, SelfFollows DEF Quiet
<1> HIDE DEF a
<1>4. ASSUME pc' = "giveback", wanted' = 0, ctx'.sess \in {0, n}, PipeTypes', UNCHANGED <<n, panicking, inner>>
      PROVE  PipeInv'
  BY <1>1, <1>4 DEF PipeInv, AnswerInv, OwnInv, Running
<1>5. CASE Pipe!Chain
  <2>1. CASE Pipe!Go("method") BY <1>1, <2>1, OnKeeps
  <2>2. CASE \E d \in {Pipe!Now, a} : Pipe!Then(d, "chain", k + 1)
    <3>1. PICK d \in {Pipe!Now, a} : Pipe!Then(d, "chain", k + 1) BY <2>2
    <3>2. Follows(Pipe!Now, d) /\ d.w = 0 BY <1>2, <1>3
    <3> QED BY <1>1, <3>1, <3>2, ThenKeeps
  <2>3. CASE Pipe!Then(a, "giveback", 0)
    <3>1. /\ pc' = "giveback" /\ wanted' = 0 /\ ctx' = a.c /\ sent' = a.s /\ panicking' = a.p
          /\ before' = before /\ UNCHANGED <<n, inner, outer, cut>>
      BY <1>3, <2>3 DEF Pipe!Then
    <3>2. a.c \in Contexts /\ a.s \in Nat /\ a.c.sess = ctx.sess
      BY <1>2, <1>3 DEF Follows, AnswerOk, Answers
    <3>3. PipeTypes' BY <1>3, <3>1, <3>2 DEF PipeInv, PipeTypes, Panics
    <3> QED BY <1>1, <1>3, <1>4, <3>1, <3>2, <3>3
  <2> QED BY <1>5, <2>1, <2>2, <2>3 DEF Pipe!Chain, a
<1>6. CASE Pipe!ChainPanics
  <2>1. /\ pc' = "giveback" /\ cut' = TRUE /\ UNCHANGED <<n, ctx, sent, panicking, inner, outer, wanted, before>>
    BY <1>6 DEF Pipe!ChainPanics
  <2>2. PipeTypes' BY <2>1 DEF PipeInv, PipeTypes
  <2> QED BY <1>1, <1>4, <2>1, <2>2
<1>7. CASE Pipe!SessionFilter
  <2>1. CASE Pipe!Go("giveback")
    <3>1. pc' = "giveback" /\ UNCHANGED <<n, ctx, sent, panicking, inner, outer, wanted, before, cut>>
      BY <2>1 DEF Pipe!Go
    <3>2. PipeTypes' BY <3>1 DEF PipeInv, PipeTypes
    <3> QED BY <1>1, <1>4, <3>1, <3>2
  <2>2. CASE /\ \/ ctx' = [ctx EXCEPT !.sess = n] /\ outer' = outer + 1
                \/ ctx' = ctx /\ outer' = outer
             /\ UNCHANGED <<pc, n, sent, panicking, inner, wanted, before, cut>>
    <3>1. /\ ctx' \in Contexts /\ ctx'.sess \in {0, n} /\ ctx'.out = ctx.out /\ ctx'.status = ctx.status
      BY <1>1, <1>2, <2>2 DEF Contexts, PipeInv, PipeTypes
    <3>2. PipeTypes' BY <2>2, <3>1 DEF PipeInv, PipeTypes
    <3>3. AnswerOk(Current)'
      <4>1. Current' = [Current EXCEPT !.c = ctx'] /\ Current \in Answers
        BY <1>2, <2>2 DEF Current, AnswerOk
      <4>2. Current' \in Answers /\ Current'.c = ctx' /\ Current'.s = sent /\ Current'.w = 0 /\ Current'.p = "none"
        BY <1>1, <2>2, <3>1, <4>1 DEF Answers, Current
      <4>3. sent = 0 => ctx.status = 0 /\ ctx.out = 0 BY <1>1, <1>2 DEF AnswerOk, Current
      <4> DEFINE b == Current'
      <4>4. AnswerOk(b)
        <5> HIDE DEF b
        <5>1. b \in Answers /\ b.c = ctx' /\ b.s = sent /\ b.w = 0 /\ b.p = "none" BY <4>2 DEF b
        <5> QED BY <3>1, <4>3, <5>1 DEF AnswerOk
      <4> QED BY <4>4 DEF AnswerOk, Answers, Contexts
    <3>4. AnswerInv' BY <1>1, <1>2, <2>2, <3>3 DEF AnswerInv, Running
    <3>5. OwnInv' BY <1>1, <2>2, <3>1 DEF OwnInv
    <3> QED BY <3>2, <3>4, <3>5 DEF PipeInv
  <2> QED BY <1>7, <2>1, <2>2 DEF Pipe!SessionFilter
<1> QED BY <1>5, <1>6, <1>7

\* The stages of the handler.
LEMMA StageKeeps ==
  ASSUME PipeInv,
         \/ Pipe!KnownMethod \/ Pipe!ExecFilter \/ Pipe!Steer \/ Pipe!Static \/ Pipe!CopyBody
         \/ Pipe!SessionStart \/ Pipe!Route \/ Pipe!ExecPolicy \/ Pipe!Dispatch \/ Pipe!CheckXSRF
         \/ Pipe!Exec \/ Pipe!DestroySession \/ Pipe!Finish \/ Pipe!Admin
  PROVE  PipeInv'
<1> DEFINE a == Pipe!Now
           Later == {"static", "route", "policy", "FinishRouter", "admin", "BeforeStatic", "body", "session",
                     "BeforeRouter", "BeforeExec", "dispatch", "AfterExec", "xsrf", "exec", "finish"}
<1>1. Running
  BY DEF Pipe!KnownMethod, Pipe!ExecFilter, Pipe!Steer, Pipe!Static, Pipe!CopyBody, Pipe!SessionStart,
     Pipe!Route, Pipe!ExecPolicy, Pipe!Dispatch, Pipe!CheckXSRF, Pipe!Exec, Pipe!DestroySession,
     Pipe!Finish, Pipe!Admin, Pipe!Positions, Pipe!After, Running
<1>2. Quiet(a) /\ a \in Answers /\ a.c = ctx /\ a.s = sent /\ a.w = wanted /\ a.p = "none" /\ ctx \in Contexts
  BY <1>1, NowQuiet DEF Quiet, AnswerOk, PipeInv, PipeTypes
<1>3. ASSUME NEW to \in Later, Pipe!Go(to) PROVE PipeInv' BY <1>1, <1>3, OnKeeps
<1>4. ASSUME NEW x \in Nat \ {0}, Pipe!Exception(x) PROVE PipeInv' BY <1>1, <1>4, ExceptionKeeps
<1>5. ASSUME NEW b, Follows(a, b), NEW to \in Later, NEW kk, Pipe!Then(b, to, kk) PROVE PipeInv'
  BY <1>1, <1>5, ThenKeeps
<1> HIDE DEF a
<1>6. ASSUME NEW b \in Pipe!UserCode(a), NEW to \in Later, NEW kk, Pipe!Then(b, to, kk) PROVE PipeInv'
  <2>1. Follows(a, b) BY <1>2, UserCodeFollows
  <2> QED BY <1>5, <1>6, <2>1
<1>7. CASE Pipe!KnownMethod BY <1>3, <1>4, <1>7 DEF Pipe!KnownMethod
<1>8. CASE Pipe!ExecFilter
  <2>1. pc \in Later /\ Pipe!After[pc] \in Later BY <1>8 DEF Pipe!ExecFilter, Pipe!Positions, Pipe!After
  <2>2. \/ Pipe!Go(Pipe!After[pc])
        \/ Pipe!Go("admin")
        \/ \E b \in Pipe!UserCode(a), to \in {"admin", pc} : Pipe!Then(b, to, k + 1)
    BY <1>8 DEF Pipe!ExecFilter, a
  <2> QED BY <1>3, <1>6, <2>1, <2>2
<1>9. CASE Pipe!Steer
  <2> DEFINE c == [ctx EXCEPT !.run = n]
             b == [a EXCEPT !.c = c]
  <2>1. c \in Contexts /\ c.out = ctx.out /\ c.status = ctx.status /\ c.sess = ctx.sess
    BY <1>2 DEF Contexts, PipeInv, PipeTypes
  <2>2. pc \in Later /\ Pipe!Then([a EXCEPT !.c.run = n], pc, k + 1) BY <1>9 DEF Pipe!Steer, a
  <2>3. [a EXCEPT !.c.run = n] = b BY <1>2 DEF Answers
  <2> HIDE DEF c
  <2>4. b \in Answers /\ b.c = c /\ b.s = sent /\ b.w = wanted /\ b.p = "none" BY <1>2, <2>1 DEF Answers
  <2> HIDE DEF b
  <2>5. AnswerOk(b) BY <1>2, <2>1, <2>4 DEF Quiet, AnswerOk
  <2>6. Follows(a, b) BY <1>2, <2>1, <2>4, <2>5 DEF Follows
  <2> QED BY <1>5, <2>2, <2>3, <2>6
<1>10. CASE Pipe!Static
  <2>1. Follows(a, Pipe!Direct(a, 200)) BY <1>2, DirectFollows
  <2>2. Pipe!Named \in Nat \ {0} BY DEF Pipe!Named
  <2>3. \/ Pipe!Then(Pipe!Direct(a, 200), "admin", 0) \/ Pipe!Exception(Pipe!Named)
        \/ Pipe!Go("admin") \/ Pipe!Go("body")
    BY <1>10 DEF Pipe!Static, a
  <2> QED BY <1>3, <1>4, <1>5, <2>1, <2>2, <2>3
<1>11. CASE Pipe!CopyBody BY <1>3, <1>4, <1>11 DEF Pipe!CopyBody
<1>12. CASE Pipe!SessionStart
  <2>1. CASE /\ ctx' = [ctx EXCEPT !.sess = n] /\ pc' = "BeforeRouter"
             /\ UNCHANGED <<n, sent, panicking, wanted, before, cut>>
    BY <1>1, <2>1, GoKeeps
  <2> QED BY <1>3, <1>4, <1>12, <2>1 DEF Pipe!SessionStart
<1>13. CASE Pipe!Route BY <1>3, <1>4, <1>13 DEF Pipe!Route
<1>14. CASE Pipe!ExecPolicy
  <2>1. \/ Pipe!Go("dispatch")
        \/ \E b \in Pipe!UserCode(a), to \in {"admin", "policy"} : Pipe!Then(b, to, k + 1)
    BY <1>14 DEF Pipe!ExecPolicy, a
  <2> QED BY <1>3, <1>6, <2>1
<1>15. CASE Pipe!Dispatch
  <2>1. \/ Pipe!Exception(405)
        \/ \E b \in Pipe!UserCode(a), to \in {"AfterExec", "xsrf"} : Pipe!Then(b, to, 0)
    BY <1>15 DEF Pipe!Dispatch, a
  <2> QED BY <1>4, <1>6, <2>1
<1>16. CASE Pipe!CheckXSRF
  <2> DEFINE b == Pipe!SetStatus(a, 422)
  <2>1. Pipe!Go("exec") \/ Pipe!Then([b EXCEPT !.p = "named"], "exec", 0) BY <1>16 DEF Pipe!CheckXSRF, a
  <2>2. Follows(a, b) /\ b.p = "none" /\ b.s = a.s /\ b.c.out = 422 BY <1>2, SetStatusFollows
  <2> HIDE DEF b
  <2>3. Quiet(b) BY <2>2 DEF Quiet, Follows
  <2>4. b.c.out # 0 BY <2>2
  <2>5. Follows(b, [b EXCEPT !.p = "named"]) BY <2>3, <2>4, PanicFollows
  <2>6. Follows(a, [b EXCEPT !.p = "named"]) BY <2>2, <2>5, FollowsTwice
  <2> QED BY <1>3, <1>5, <2>1, <2>6
<1>17. CASE Pipe!Exec
  <2>1. \/ Pipe!Go("finish")
        \/ \E b \in Pipe!UserCode(a) : \E d \in Pipe!Rendered(b) : Pipe!Then(d, "finish", 0)
    BY <1>17 DEF Pipe!Exec, a
  <2>2. ASSUME NEW b \in Pipe!UserCode(a), NEW d \in Pipe!Rendered(b) PROVE Follows(a, d)
    <3>1. Follows(a, b) BY <1>2, UserCodeFollows
    <3> QED BY <1>2, <3>1, RenderedFollows
  <2> QED BY <1>3, <1>5, <2>1, <2>2
<1>18. CASE Pipe!DestroySession
  <2>1. /\ ctx' = [ctx EXCEPT !.sess = 0] /\ pc' = "exec" /\ UNCHANGED <<n, sent, panicking, wanted, before, cut>>
    BY <1>18 DEF Pipe!DestroySession
  <2> QED BY <1>1, <2>1, GoKeeps
<1>19. CASE Pipe!Finish
  <2>1. \E b \in Pipe!UserCode(a) : Pipe!Then(b, "AfterExec", 0) BY <1>19 DEF Pipe!Finish, a
  <2> QED BY <1>6, <2>1
<1>20. CASE Pipe!Admin
  <2> DEFINE b == IF ctx.out # 0 THEN Pipe!WriteHeader(a, ctx.out) ELSE a
  <2>1. Pipe!Then(b, "unwind", 0) BY <1>20 DEF Pipe!Admin, a
  <2>2. Follows(a, b) /\ (b.s = 0 => b.w = 0)
    <3>1. CASE ctx.out # 0
      <4>1. ctx.out \in Nat \ {0} /\ (a.s = 0 => a.w \in {0, ctx.out}) BY <1>2, <3>1 DEF Quiet, AnswerOk, Contexts
      <4>2. Follows(a, Pipe!WriteHeader(a, ctx.out)) /\ Pipe!WriteHeader(a, ctx.out).s # 0
        BY <1>2, <4>1, WriteHeaderFollows
      <4> QED BY <3>1, <4>2
    <3>2. CASE ctx.out = 0
      <4>1. a.s = 0 => a.w = 0 BY <1>2, <3>2 DEF Quiet, AnswerOk
      <4> QED BY <1>2, <3>2, <4>1, SelfFollows
    <3> QED BY <3>1, <3>2
  <2> HIDE DEF b
  <2> QED BY <1>1, <2>1, <2>2, ThenKeeps DEF a
<1> QED BY <1>7, <1>8, <1>9, <1>10, <1>11, <1>12, <1>13, <1>14, <1>15, <1>16, <1>17, <1>18, <1>19, <1>20

\* The deferred calls, and net/http.
LEMMA DeferredKeeps ==
  ASSUME PipeInv, Pipe!Release \/ Pipe!RecoverPanic \/ Pipe!GiveBackContext
  PROVE  PipeInv'
<1>1. CASE Pipe!Release
  <2>1. /\ pc = "unwind" /\ inner' = 0 /\ pc' = "recover"
        /\ UNCHANGED <<n, ctx, sent, panicking, outer, wanted, before, cut>>
    BY <1>1 DEF Pipe!Release
  <2>2. PipeTypes' BY <2>1 DEF PipeInv, PipeTypes
  <2>3. AnswerInv' BY <2>1 DEF PipeInv, AnswerInv, Running, Current, AnswerOk, Answers, Contexts
  <2>4. OwnInv' BY <2>1 DEF PipeInv, OwnInv
  <2> QED BY <2>2, <2>3, <2>4 DEF PipeInv
<1>2. CASE Pipe!RecoverPanic
  <2> DEFINE d == Pipe!Now
  <2>1. /\ pc = "recover" /\ pc' = "giveback" /\ UNCHANGED <<n, panicking, inner, outer, before>>
    BY <1>2 DEF Pipe!RecoverPanic
  <2>2. PICK a \in Pipe!Recovered : ctx' = a.c /\ sent' = a.s /\ wanted' = a.w /\ cut' = (a.p # "none")
    BY <1>2 DEF Pipe!RecoverPanic
  <2>3. /\ AnswerOk(Current) /\ ~cut /\ ctx \in Contexts /\ sent \in Nat /\ wanted \in Nat /\ panicking \in Panics
        /\ ctx.sess \in {0, n} /\ inner = 0
        /\ panicking = "none" /\ sent = 0 => wanted = 0
        /\ panicking \in {"named", "other"} /\ before = 0 => sent = 0
    BY <2>1 DEF PipeInv, PipeTypes, AnswerInv, OwnInv
  <2>4. d = [c |-> ctx, s |-> sent, w |-> wanted, p |-> "none"] BY DEF Pipe!Now
  <2>5. Quiet(d)
    <3>1. d \in Answers BY <2>3, <2>4 DEF Answers, Panics
    <3>2. Current.c = ctx /\ Current.s = sent /\ Current.w = wanted BY DEF Current
    <3>3. d.c = ctx /\ d.s = sent /\ d.w = wanted /\ d.p = "none" BY <2>4
    <3> HIDE DEF d
    <3> QED BY <2>3, <3>1, <3>2, <3>3 DEF Quiet, AnswerOk
  <2>6. d.c = ctx /\ d.s = sent /\ d.w = wanted /\ d.p = "none" BY <2>4
  <2>0. \/ panicking \in {"none", "stop"} /\ a = d
        \/ a = [d EXCEPT !.p = "other"]
        \/ panicking = "named" /\ (a \in Pipe!Exceptions(d, ctx.out))
        \/ panicking \in {"named", "other"} /\ (a \in Pipe!Crashed(d))
    <3>1. CASE panicking \in {"none", "stop"} BY <2>2, <3>1 DEF Pipe!Recovered
    <3>2. CASE panicking \notin {"none", "stop"}
      <4>1. panicking \in {"named", "other"} BY <2>3, <3>2 DEF Panics
      <4>2. CASE ~options.RecoverPanic BY <2>2, <3>2, <4>2, Zenon DEF Pipe!Recovered
      <4>3. CASE options.RecoverPanic /\ (options.EnableErrorsShow /\ panicking = "named")
        BY <2>2, <3>2, <4>3, Zenon DEF Pipe!Recovered
      <4>4. CASE options.RecoverPanic /\ ~(options.EnableErrorsShow /\ panicking = "named")
        BY <2>2, <3>2, <4>1, <4>4, Zenon DEF Pipe!Recovered
      <4> QED BY <4>2, <4>3, <4>4
    <3> QED BY <3>1, <3>2
  <2> HIDE DEF d
  <2>7. /\ Follows(d, a)
        /\ panicking # "stop" /\ a.s = 0 => a.p # "none" \/ a.w = 0
        /\ panicking \in {"named", "other"} /\ before = 0 => a.p # "none" \/ a.w # 0
    <3>1. CASE panicking \in {"none", "stop"} /\ a = d BY <2>3, <2>5, <2>6, <3>1, SelfFollows
    <3>2. CASE a = [d EXCEPT !.p = "other"]
      <4>1. Follows(d, a) BY <2>5, <3>2, PanicFollows
      <4>2. d \in Answers BY <2>5 DEF Quiet, AnswerOk
      <4>3. a.p = "other" BY <3>2, <4>2 DEF Answers
      <4> QED BY <4>1, <4>3
    <3>3. CASE panicking = "named" /\ (a \in Pipe!Exceptions(d, ctx.out))
      <4>1. ctx.out \in Nat \ {0} BY <2>3, <3>3 DEF AnswerOk, Current, Contexts
      <4>2. Follows(d, a) /\ (a.p = "none" /\ d.s = 0 => a.s = ctx.out /\ a.w = ctx.out)
        BY <2>5, <3>3, <4>1, ExceptionFollows
      <4>3. d.s # 0 => a.s = d.s BY <4>2 DEF Follows
      <4> QED BY <2>3, <2>6, <3>3, <4>1, <4>2, <4>3
    <3>4. CASE panicking \in {"named", "other"} /\ (a \in Pipe!Crashed(d))
      <4>1. Follows(d, a) /\ a.p = "none" /\ a.s # 0 /\ (d.s = 0 => a.w = a.s) BY <2>5, <3>4, CrashedFollows
      <4> QED BY <2>3, <2>6, <3>4, <4>1
    <3> QED BY <2>0, <3>1, <3>2, <3>3, <3>4
  <2>8. a \in Answers /\ (a.s = 0 \/ a.w \in {0, a.s}) /\ a.c.sess = ctx.sess
    BY <2>6, <2>7 DEF Follows, AnswerOk
  <2>9. PipeTypes' BY <2>1, <2>2, <2>3, <2>8 DEF PipeInv, PipeTypes, Answers
  <2>10. AnswerInv' BY <2>1, <2>2, <2>3, <2>7, <2>8 DEF AnswerInv, Running
  <2>11. OwnInv' BY <2>1, <2>2, <2>3, <2>8 DEF OwnInv
  <2> QED BY <2>9, <2>10, <2>11 DEF PipeInv
<1>3. CASE Pipe!GiveBackContext
  <2>1. /\ pc = "giveback" /\ pc' = "idle" /\ outer' = 0
        /\ sent' = IF sent = 0 /\ ~cut THEN 200 ELSE sent
        /\ UNCHANGED <<n, ctx, panicking, inner, wanted, before, cut>>
    BY <1>3 DEF Pipe!GiveBackContext
  <2>2. PipeTypes' BY <2>1 DEF PipeInv, PipeTypes
  <2>3. AnswerInv' BY <2>1 DEF PipeInv, AnswerInv, Running
  <2>4. OwnInv' BY <2>1 DEF PipeInv, OwnInv
  <2> QED BY <2>2, <2>3, <2>4 DEF PipeInv
<1> QED BY <1>1, <1>2, <1>3

LEMMA PipeBegins == Pipe!Init => PipeInv
<1> SUFFICES ASSUME Pipe!Init PROVE PipeInv
  OBVIOUS
<1> USE DEF Pipe!Init
<1>1. PipeTypes BY DEF PipeTypes, Contexts, Panics, Pipe!NewContext
<1>2. AnswerInv BY DEF AnswerInv, Running
<1>3. OwnInv BY DEF OwnInv
<1> QED BY <1>1, <1>2, <1>3 DEF PipeInv

LEMMA PipeKeeps ==
  ASSUME PipeInv, [Pipe!Next]_pipeVars
  PROVE  PipeInv'
<1>1. CASE UNCHANGED pipeVars
  <2>1. UNCHANGED <<pc, k, n, ctx, sent, panicking, inner, outer, wanted, before, cut>> BY <1>1 DEF pipeVars
  <2>2. PipeTypes' BY <2>1 DEF PipeInv, PipeTypes
  <2>3. AnswerInv' BY <2>1 DEF PipeInv, AnswerInv, Running, Current, AnswerOk, Answers, Contexts
  <2>4. OwnInv' BY <2>1 DEF PipeInv, OwnInv
  <2> QED BY <2>2, <2>3, <2>4 DEF PipeInv
<1> QED BY <1>1, ContextKeeps, ChainKeeps, StageKeeps, DeferredKeeps DEF Pipe!Next, Pipe!Step

\* However filters, handlers, aborts and panics end a request: it sees no
\* session but its own, its sessions are released, and its client gets the
\* status that was asked for, and after a crash no 200 nobody asked for.
THEOREM PipelineCorrect == Spec => []PipelineSound
<1> DEFINE Inv == which = "pipe" => PipeInv
<1>1. Init => Inv BY PipeBegins DEF Init
<1>2. Inv /\ [Next]_vars => Inv'
  <2> SUFFICES ASSUME Inv, [Next]_vars, which' = "pipe" PROVE PipeInv' OBVIOUS
  <2>1. which = "pipe" BY DEF Next, vars
  <2>2. [Pipe!Next]_pipeVars BY <2>1 DEF Next, vars, pipeVars
  <2> QED BY <2>1, <2>2, PipeKeeps
<1>3. Inv => PipelineSound
  BY DEF PipeInv, AnswerInv, OwnInv, PipelineSound, Pipe!PipelineSound, Pipe!SessionIsOwn,
     Pipe!SessionsReleased, Pipe!StatusDelivered, Pipe!PanicShows
<1> QED BY <1>1, <1>2, <1>3, PTL DEF Spec

-----------------------------------------------------------------------------
(* The file log.                                                           *)

Handles == [open : BOOLEAN, day : FileLogs!Days, lines : Nat, files : Nat]
Jobs == [step : {"idle", "check", "rotate", "write"}, day : FileLogs!Days]
Kept(m) == m.lines \in Nat /\ m.at \in Nat

FileTypes ==
  /\ conf \in [maxLines : {0, 1}, rotate : BOOLEAN] /\ today \in FileLogs!Days
  /\ fs = [m \in DOMAIN fs |-> fs[m]] /\ \A m \in DOMAIN fs : Kept(fs[m])
  /\ writer \in Handles /\ job \in [Writers -> Jobs] /\ timers \in [FileLogs!Days -> Nat]
  /\ wrong \in BOOLEAN /\ orphans \in Nat

\* As long as no rotation failed, the log has the lines its writer counts, was
\* written since the last midnight but one, and somebody waits for the next.
OpenInv ==
  ~wrong =>
    /\ writer.open /\ timers[writer.day] > 0 /\ orphans = 0
    /\ FileLogs!Log \in DOMAIN fs /\ fs[FileLogs!Log].at >= writer.day
    /\ conf.maxLines > 0 => fs[FileLogs!Log].lines = writer.lines
    /\ writer.day <= today /\ today <= writer.day + 1

\* Writers that found room and have not written yet.
Writing == {v \in Writers : job[v].step = "write"}
Most == conf.maxLines + Cardinality(Writers) - 1

\* Each of them has its line in the bound already.
RoomInv ==
  conf.rotate /\ conf.maxLines > 0 /\ ~wrong =>
    /\ \A m \in DOMAIN fs : fs[m].lines <= Most
    /\ writer.lines + Cardinality(Writing) <= Most

FileInv == FileTypes /\ OpenInv /\ RoomInv

\* The log is opened; what is there of other files was there before.
LEMMA OpenedAnew ==
  ASSUME FileTypes, NEW ts \in [FileLogs!Days -> Nat], NEW f, FileLogs!InitFd(f, ts),
         \A m \in DOMAIN f : \E q \in DOMAIN fs : f[m] = fs[q]
  PROVE  /\ fs' = [m \in DOMAIN fs' |-> fs'[m]] /\ \A m \in DOMAIN fs' : Kept(fs'[m])
         /\ writer' \in Handles /\ timers' \in [FileLogs!Days -> Nat]
         /\ FileLogs!Log \notin DOMAIN f =>
              /\ writer'.open /\ writer'.day = today /\ writer'.lines = 0 /\ timers'[today] > 0
              /\ FileLogs!Log \in DOMAIN fs' /\ fs'[FileLogs!Log].at = today
              /\ fs'[FileLogs!Log].lines = 0
              /\ \A m \in DOMAIN fs' : fs'[m].lines = 0 \/ \E q \in DOMAIN fs : fs'[m] = fs[q]
<1>1. /\ fs' = [m \in DOMAIN f \cup {FileLogs!Log} |-> IF m \in DOMAIN f THEN f[m] ELSE [lines |-> 0, at |-> today]]
      /\ writer' = [open |-> TRUE, day |-> today, files |-> FileLogs!Count,
                    lines |-> IF FileLogs!Log \in DOMAIN f /\ conf.maxLines > 0 THEN f[FileLogs!Log].lines ELSE 0]
      /\ timers' = [ts EXCEPT ![today] = @ + 1]
  BY DEF FileLogs!InitFd, FileLogs!File
<1>2. today \in FileLogs!Days /\ today \in Nat /\ FileLogs!Count \in Nat
  BY FilesAssumption DEF FileLogs!FileLogAssumption, FileTypes, FileLogs!Days, FileLogs!Count, Handles
<1>3. \A m \in DOMAIN f : Kept(f[m]) BY DEF FileTypes
<1>4. fs' = [m \in DOMAIN fs' |-> fs'[m]] /\ \A m \in DOMAIN fs' : Kept(fs'[m])
  <2>1. DOMAIN fs' = DOMAIN f \cup {FileLogs!Log} /\ fs' = [m \in DOMAIN fs' |-> fs'[m]] BY <1>1
  <2>2. \A m \in DOMAIN fs' : fs'[m] = IF m \in DOMAIN f THEN f[m] ELSE [lines |-> 0, at |-> today]
    BY <1>1
  <2>3. Kept([lines |-> 0, at |-> today]) BY <1>2 DEF Kept
  <2> QED BY <1>3, <2>1, <2>2, <2>3
<1>5. writer' \in Handles
  <2> DEFINE x == IF FileLogs!Log \in DOMAIN f /\ conf.maxLines > 0 THEN f[FileLogs!Log].lines ELSE 0
             y == FileLogs!Count
  <2>1. x \in Nat BY <1>3 DEF Kept
  <2>2. writer' = [open |-> TRUE, day |-> today, files |-> y, lines |-> x] BY <1>1
  <2>3. y \in Nat BY <1>2
  <2> HIDE DEF x, y
  <2> QED BY <1>2, <2>1, <2>2, <2>3 DEF Handles
<1>6. timers' \in [FileLogs!Days -> Nat] /\ timers'[today] > 0
  <2>1. ts[today] \in Nat BY <1>2
  <2> HIDE DEF FileTypes
  <2> QED BY <1>1, <1>2, <2>1
<1>7. ASSUME FileLogs!Log \notin DOMAIN f
      PROVE  /\ writer'.open /\ writer'.day = today /\ writer'.lines = 0
             /\ FileLogs!Log \in DOMAIN fs' /\ fs'[FileLogs!Log].at = today /\ fs'[FileLogs!Log].lines = 0
             /\ \A m \in DOMAIN fs' : fs'[m].lines = 0 \/ \E q \in DOMAIN fs : fs'[m] = fs[q]
  BY <1>1, <1>7
<1> QED BY <1>4, <1>5, <1>6, <1>7

\* A rotation keeps the types; one that does not fail leaves an empty log and
\* the files there were.
LEMMA Rotated ==
  ASSUME FileTypes, NEW ts \in [FileLogs!Days -> Nat], NEW day, FileLogs!DoRotate(day, ts)
  PROVE  /\ fs' = [m \in DOMAIN fs' |-> fs'[m]] /\ \A m \in DOMAIN fs' : Kept(fs'[m])
         /\ writer' \in Handles /\ timers' \in [FileLogs!Days -> Nat] /\ wrong' \in BOOLEAN
         /\ ~wrong' =>
              /\ ~wrong
              /\ writer'.open /\ writer'.day = today /\ writer'.lines = 0 /\ timers'[today] > 0
              /\ FileLogs!Log \in DOMAIN fs' /\ fs'[FileLogs!Log].at = today
              /\ fs'[FileLogs!Log].lines = 0
              /\ \A m \in DOMAIN fs' : fs'[m].lines = 0 \/ \E q \in DOMAIN fs : fs'[m] = fs[q]
<1> DEFINE name == FileLogs!FreeName(day)
           gone == FileLogs!Log \notin DOMAIN fs
           i == FileLogs!Count
<1>0. FileLogs!Count \in Nat BY DEF FileTypes, FileLogs!Count, Handles
<1>1. CASE ~gone /\ name = {}
  <2>1. wrong' = TRUE /\ writer' = [writer EXCEPT !.files = FileLogs!Count] /\ timers' = ts /\ fs' = fs
    BY <1>1 DEF FileLogs!DoRotate
  <2>2. writer' \in Handles
    <3>1. writer' = [writer EXCEPT !.files = i] /\ i \in Nat BY <1>0, <2>1
    <3> HIDE DEF i
    <3> QED BY <3>1 DEF FileTypes, Handles
  <2> QED BY <2>1, <2>2 DEF FileTypes
<1>2. CASE ~(~gone /\ name = {})
  <2>1. PICK renameFails \in BOOLEAN \cap {FALSE, ~gone}, openFails \in BOOLEAN :
          LET f == IF gone \/ renameFails THEN fs ELSE FileLogs!Renamed(CHOOSE m \in name : TRUE) IN
          /\ wrong' = (wrong \/ renameFails \/ openFails)
          /\ IF openFails THEN fs' = f /\ writer' = [writer EXCEPT !.open = FALSE, !.files = FileLogs!Count]
                               /\ timers' = ts
             ELSE FileLogs!InitFd(f, ts)
    BY <1>2 DEF FileLogs!DoRotate
  <2> DEFINE z == CHOOSE m \in name : TRUE
             f == IF gone \/ renameFails THEN fs ELSE FileLogs!Renamed(z)
  <2>2. /\ wrong' = (wrong \/ renameFails \/ openFails)
        /\ openFails => fs' = f /\ writer' = [writer EXCEPT !.open = FALSE, !.files = i] /\ timers' = ts
        /\ ~openFails => FileLogs!InitFd(f, ts)
    BY <2>1
  <2> HIDE DEF z, name, i
  <2>3. /\ f = [m \in DOMAIN f |-> f[m]]
        /\ \A m \in DOMAIN f : \E q \in DOMAIN fs : f[m] = fs[q]
        /\ ~renameFails => FileLogs!Log \notin DOMAIN f
    <3>1. CASE gone \/ renameFails BY <3>1 DEF FileTypes
    <3>2. CASE ~gone /\ ~renameFails
      <4>1. f = FileLogs!Renamed(z) BY <3>2
      <4>2. /\ DOMAIN f = (DOMAIN fs \cup {z}) \ {FileLogs!Log} /\ f = [m \in DOMAIN f |-> f[m]]
            /\ \A m \in DOMAIN f : f[m] = IF m = z THEN fs[FileLogs!Log] ELSE fs[m]
        BY <4>1 DEF FileLogs!Renamed
      <4> HIDE DEF f
      <4> QED BY <3>2, <4>2
    <3> QED BY <3>1, <3>2
  <2> HIDE DEF f
  <2>4. wrong' \in BOOLEAN BY <2>2 DEF FileTypes
  <2>5. CASE openFails
    <3>1. writer' \in Handles BY <1>0, <2>2, <2>5 DEF FileTypes, Handles, i
    <3>2. fs' = f /\ timers' = ts /\ wrong' BY <2>2, <2>5
    <3>3. \A m \in DOMAIN f : Kept(f[m]) BY <2>3 DEF FileTypes
    <3> QED BY <2>3, <2>4, <3>1, <3>2, <3>3
  <2>6. CASE ~openFails
    <3>1. FileLogs!InitFd(f, ts) BY <2>2, <2>6
    <3>2. /\ fs' = [m \in DOMAIN fs' |-> fs'[m]] /\ \A m \in DOMAIN fs' : Kept(fs'[m])
          /\ writer' \in Handles /\ timers' \in [FileLogs!Days -> Nat]
          /\ FileLogs!Log \notin DOMAIN f =>
               /\ writer'.open /\ writer'.day = today /\ writer'.lines = 0 /\ timers'[today] > 0
               /\ FileLogs!Log \in DOMAIN fs' /\ fs'[FileLogs!Log].at = today
               /\ fs'[FileLogs!Log].lines = 0
               /\ \A m \in DOMAIN fs' : fs'[m].lines = 0 \/ \E q \in DOMAIN fs : fs'[m] = fs[q]
      BY <2>3, <3>1, OpenedAnew
    <3>3. ~wrong' => ~wrong /\ FileLogs!Log \notin DOMAIN f BY <2>2, <2>3 DEF FileTypes
    <3> QED BY <2>4, <3>2, <3>3
  <2> QED BY <2>5, <2>6
<1> QED BY <1>1, <1>2

LEMMA WritersCounted ==
  /\ IsFiniteSet(Writers) /\ Cardinality(Writers) \in Nat
  /\ \A S : FileLogs!Cardinality(S) = Cardinality(S)
<1>1. IsFiniteSet(Writers)
  BY FilesAssumption DEF FileLogs!FileLogAssumption, FileLogs!IsFiniteSet, IsFiniteSet
<1> QED BY <1>1, FS_CardinalityType DEF FileLogs!Cardinality, Cardinality

LEMMA WritingFew ==
  ASSUME NEW S \in SUBSET Writers
  PROVE  IsFiniteSet(S) /\ Cardinality(S) \in Nat /\ Cardinality(S) <= Cardinality(Writers)
BY WritersCounted, FS_Subset, FS_CardinalityType

\* A writer that finds room may write; so may one that has just rotated.
LEMMA EnterKeeps ==
  ASSUME FileTypes, RoomInv, NEW v \in Writers, NEW x \in Jobs, job' = [job EXCEPT ![v] = x], conf' = conf,
         conf.rotate /\ conf.maxLines > 0 /\ ~wrong' =>
           /\ ~wrong /\ \A m \in DOMAIN fs' : fs'[m].lines = 0 \/ \E q \in DOMAIN fs : fs'[m] = fs[q]
           /\ \/ writer'.lines \in Nat /\ writer'.lines < conf.maxLines
              \/ writer'.lines = writer.lines /\ x.step # "write"
  PROVE  RoomInv'
<1> SUFFICES ASSUME conf.rotate, conf.maxLines > 0, ~wrong'
    PROVE (/\ \A m \in DOMAIN fs : fs[m].lines <= Most
           /\ writer.lines + Cardinality(Writing) <= Most)'
  BY DEF RoomInv
<1>1. /\ conf.maxLines \in Nat /\ Cardinality(Writers) \in Nat /\ writer.lines \in Nat
      /\ Most' = Most /\ Most = conf.maxLines + Cardinality(Writers) - 1 /\ 0 <= Most
  BY WritersCounted DEF FileTypes, Handles, Most
<1>2. (\A m \in DOMAIN fs : fs[m].lines <= Most) /\ writer.lines + Cardinality(Writing) <= Most
  BY DEF RoomInv
<1>3. \A m \in DOMAIN fs' : fs'[m].lines <= Most
  <2> HIDE DEF Most
  <2> QED BY <1>1, <1>2
<1>4. Writing' \in SUBSET Writers /\ Writing \in SUBSET Writers BY DEF Writing
<1>5. /\ Cardinality(Writing') \in Nat /\ Cardinality(Writing') <= Cardinality(Writers)
      /\ Cardinality(Writing) \in Nat /\ IsFiniteSet(Writing)
  BY <1>4, WritingFew
<1>6. CASE writer'.lines \in Nat /\ writer'.lines < conf.maxLines BY <1>1, <1>3, <1>5, <1>6
<1>7. CASE writer'.lines = writer.lines /\ x.step # "write"
  <2>1. Writing' \in SUBSET Writing BY <1>7 DEF Writing, FileTypes
  <2>2. Cardinality(Writing') <= Cardinality(Writing) BY <1>5, <2>1, FS_Subset
  <2>3. writer.lines + Cardinality(Writing') <= Most
    <3> DEFINE y == Cardinality(Writing)
               z == Cardinality(Writing')
    <3>1. y \in Nat /\ z \in Nat /\ z <= y /\ writer.lines + y <= Most /\ Most \in Int
      BY <1>1, <1>2, <1>5, <2>2
    <3> HIDE DEF y, z, Most
    <3>2. writer.lines + z <= Most BY <1>1, <3>1
    <3> QED BY <3>2 DEF z
  <2> QED BY <1>1, <1>3, <1>7, <2>3
<1> QED BY <1>6, <1>7

LEMMA BeginKeeps ==
  ASSUME FileInv, NEW v \in Writers, FileLogs!Begin(v) \/ FileLogs!Check(v)
  PROVE  FileInv'
<1> USE DEF FileInv
<1>1. /\ UNCHANGED <<conf, today, fs, writer, timers, wrong, orphans>>
      /\ \E x \in Jobs : /\ job' = [job EXCEPT ![v] = x]
                         /\ conf.rotate => x.step # "write" \/ ~FileLogs!NeedRotate(job[v].day)
  <2>1. CASE FileLogs!Begin(v)
    <3> DEFINE x == [step |-> IF conf.rotate THEN "check" ELSE "write", day |-> today]
    <3>1. x \in Jobs /\ (conf.rotate => x.step # "write") BY DEF Jobs, FileTypes
    <3>2. job' = [job EXCEPT ![v] = x] /\ UNCHANGED <<conf, today, fs, writer, timers, wrong, orphans>>
      BY <2>1 DEF FileLogs!Begin
    <3> QED BY <3>1, <3>2
  <2>2. CASE FileLogs!Check(v)
    <3> DEFINE x == [job[v] EXCEPT !.step = IF FileLogs!NeedRotate(job[v].day) THEN "rotate" ELSE "write"]
    <3>1. x \in Jobs /\ (x.step # "write" \/ ~FileLogs!NeedRotate(job[v].day)) BY DEF Jobs, FileTypes
    <3>2. job' = [job EXCEPT ![v] = x] /\ UNCHANGED <<conf, today, fs, writer, timers, wrong, orphans>>
      BY <2>2 DEF FileLogs!Check
    <3> QED BY <3>1, <3>2
  <2> QED BY <2>1, <2>2
<1>2. PICK x \in Jobs : /\ job' = [job EXCEPT ![v] = x]
                        /\ conf.rotate => x.step # "write" \/ ~FileLogs!NeedRotate(job[v].day)
  BY <1>1
<1>3. FileTypes' BY <1>1, <1>2 DEF FileTypes
<1>4. OpenInv' BY <1>1 DEF OpenInv
<1>5. RoomInv'
  <2>1. conf.rotate /\ conf.maxLines > 0 /\ x.step = "write" => writer.lines < conf.maxLines
    BY <1>2 DEF FileLogs!NeedRotate, FileTypes, Handles
  <2>2. writer.lines \in Nat BY DEF FileTypes, Handles
  <2> QED BY <1>1, <1>2, <2>1, <2>2, EnterKeeps
<1> QED BY <1>3, <1>4, <1>5

LEMMA RotateKeeps ==
  ASSUME FileInv, NEW v \in Writers, FileLogs!Rotate(v)
  PROVE  FileInv'
<1> USE DEF FileInv
<1> DEFINE x == [job[v] EXCEPT !.step = "write"]
<1>1. x \in Jobs /\ job' = [job EXCEPT ![v] = x] /\ UNCHANGED <<conf, today, orphans>>
  BY DEF FileLogs!Rotate, Jobs, FileTypes
<1> HIDE DEF x
<1>2. /\ today \in FileLogs!Days /\ today \in Nat /\ writer.lines \in Nat /\ conf.maxLines \in Nat
  BY FilesAssumption DEF FileLogs!FileLogAssumption, FileTypes, FileLogs!Days, Handles
<1>3. CASE FileLogs!NeedRotate(job[v].day)
  <2>1. FileLogs!DoRotate(job[v].day, timers) BY <1>3 DEF FileLogs!Rotate
  <2>2. timers \in [FileLogs!Days -> Nat] /\ FileTypes BY DEF FileTypes
  <2>3. /\ fs' = [m \in DOMAIN fs' |-> fs'[m]] /\ \A m \in DOMAIN fs' : Kept(fs'[m])
        /\ writer' \in Handles /\ timers' \in [FileLogs!Days -> Nat] /\ wrong' \in BOOLEAN
        /\ ~wrong' =>
             /\ ~wrong
             /\ writer'.open /\ writer'.day = today /\ writer'.lines = 0 /\ timers'[today] > 0
             /\ FileLogs!Log \in DOMAIN fs' /\ fs'[FileLogs!Log].at = today
             /\ fs'[FileLogs!Log].lines = 0
             /\ \A m \in DOMAIN fs' : fs'[m].lines = 0 \/ \E q \in DOMAIN fs : fs'[m] = fs[q]
    BY <2>1, <2>2, Rotated
  <2>4. FileTypes' BY <1>1, <2>3 DEF FileTypes
  <2>5. OpenInv' BY <1>1, <1>2, <2>3 DEF OpenInv
  <2>6. conf.maxLines > 0 => 0 < conf.maxLines BY <1>2
  <2>7. conf.rotate /\ conf.maxLines > 0 /\ ~wrong' =>
           /\ ~wrong /\ \A m \in DOMAIN fs' : fs'[m].lines = 0 \/ \E q \in DOMAIN fs : fs'[m] = fs[q]
           /\ writer'.lines \in Nat /\ writer'.lines < conf.maxLines
    BY <2>3, <2>6
  <2>8. RoomInv' BY <1>1, <2>2, <2>7, EnterKeeps
  <2> QED BY <2>4, <2>5, <2>8
<1>4. CASE ~FileLogs!NeedRotate(job[v].day)
  <2>1. UNCHANGED <<fs, writer, timers, wrong>> BY <1>4 DEF FileLogs!Rotate, FileLogs!NoRotation
  <2>2. FileTypes' BY <1>1, <2>1 DEF FileTypes
  <2>3. OpenInv' BY <1>1, <2>1 DEF OpenInv
  <2>4. conf.maxLines > 0 => writer.lines < conf.maxLines BY <1>2, <1>4 DEF FileLogs!NeedRotate
  <2>5. RoomInv' BY <1>1, <1>2, <2>1, <2>4, EnterKeeps
  <2> QED BY <2>2, <2>3, <2>5
<1> QED BY <1>3, <1>4

LEMMA WriteKeeps ==
  ASSUME FileInv, NEW v \in Writers, FileLogs!Write(v)
  PROVE  FileInv'
<1> USE DEF FileInv
<1> DEFINE x == [job[v] EXCEPT !.step = "idle"]
<1>1. /\ job[v].step = "write" /\ x \in Jobs /\ x.step = "idle" /\ job' = [job EXCEPT ![v] = x]
      /\ UNCHANGED <<conf, today, timers, wrong>>
  BY DEF FileLogs!Write, Jobs, FileTypes
<1> HIDE DEF x
<1>2. /\ writer.lines \in Nat /\ conf.maxLines \in Nat /\ today \in Nat /\ orphans \in Nat
  BY FilesAssumption DEF FileLogs!FileLogAssumption, FileTypes, FileLogs!Days, Handles
<1>3. /\ Writing' = Writing \ {v} /\ v \in Writing /\ Writing \in SUBSET Writers
  BY <1>1 DEF Writing, FileTypes
<1>4. Cardinality(Writing') + 1 = Cardinality(Writing) /\ Cardinality(Writing') \in Nat
  <2>1. IsFiniteSet(Writing) /\ Cardinality(Writing) \in Nat BY <1>3, WritingFew
  <2>2. Cardinality(Writing \ {v}) = Cardinality(Writing) - 1 BY <1>3, <2>1, FS_RemoveElement
  <2>3. Writing' \in SUBSET Writers BY <1>3
  <2>4. Cardinality(Writing') \in Nat BY <2>3, WritingFew
  <2> QED BY <1>3, <2>1, <2>2, <2>4
<1>5. CASE writer.open
  <2>1. writer' = [writer EXCEPT !.lines = @ + 1] BY <1>5 DEF FileLogs!Write
  <2>2. /\ writer' \in Handles /\ writer'.lines = writer.lines + 1 /\ writer'.open /\ writer'.day = writer.day
    BY <1>2, <1>5, <2>1 DEF FileTypes, Handles
  <2>3. CASE FileLogs!Log \in DOMAIN fs
    <3> DEFINE f == [lines |-> fs[FileLogs!Log].lines + 1, at |-> today]
    <3>1. fs' = [fs EXCEPT ![FileLogs!Log] = f] /\ orphans' = orphans
      BY <1>5, <2>3 DEF FileLogs!Write, FileLogs!File
    <3>2. fs[FileLogs!Log].lines \in Nat BY <2>3 DEF FileTypes, Kept
    <3>3. Kept(f) /\ f.lines = fs[FileLogs!Log].lines + 1 /\ f.at = today BY <1>2, <3>2 DEF Kept
    <3> HIDE DEF f
    <3>4. /\ fs' = [m \in DOMAIN fs' |-> fs'[m]] /\ DOMAIN fs' = DOMAIN fs
          /\ \A m \in DOMAIN fs' : fs'[m] = IF m = FileLogs!Log THEN f ELSE fs[m]
      BY <3>1 DEF FileTypes
    <3>5. FileTypes' BY <1>1, <2>2, <3>1, <3>3, <3>4 DEF FileTypes
    <3>6. OpenInv' BY <1>1, <1>2, <2>2, <2>3, <3>1, <3>3, <3>4 DEF OpenInv
    <3>7. RoomInv'
      <4> SUFFICES ASSUME conf.rotate, conf.maxLines > 0, ~wrong
          PROVE (/\ \A m \in DOMAIN fs : fs[m].lines <= Most
                 /\ writer.lines + Cardinality(Writing) <= Most)'
        BY <1>1 DEF RoomInv
      <4>1. /\ Most' = Most /\ Most \in Int /\ (\A m \in DOMAIN fs : fs[m].lines <= Most)
            /\ writer.lines + Cardinality(Writing) <= Most
        BY <1>1, <1>2, WritersCounted DEF RoomInv, Most
      <4>2. fs[FileLogs!Log].lines = writer.lines BY DEF OpenInv
      <4> HIDE DEF Most
      <4>3. writer'.lines + Cardinality(Writing') <= Most BY <1>2, <1>4, <2>2, <4>1
      <4>4. f.lines <= Most BY <1>2, <1>4, <3>3, <4>1, <4>2
      <4> QED BY <3>4, <4>1, <4>3, <4>4
    <3> QED BY <3>5, <3>6, <3>7
  <2>4. CASE FileLogs!Log \notin DOMAIN fs
    <3>1. fs' = fs /\ orphans' = orphans + 1 BY <1>5, <2>4 DEF FileLogs!Write
    <3>2. wrong BY <2>4 DEF OpenInv
    <3>3. orphans' \in Nat BY <1>2, <3>1
    <3>4. FileTypes' BY <1>1, <2>2, <3>1, <3>3 DEF FileTypes
    <3> QED BY <1>1, <3>2, <3>4 DEF OpenInv, RoomInv
  <2> QED BY <2>3, <2>4
<1>6. CASE ~writer.open
  <2>1. UNCHANGED <<fs, writer, orphans>> BY <1>6 DEF FileLogs!Write
  <2>2. wrong BY <1>6 DEF OpenInv
  <2>3. FileTypes' BY <1>1, <2>1 DEF FileTypes
  <2> QED BY <1>1, <2>2, <2>3 DEF OpenInv, RoomInv
<1> QED BY <1>5, <1>6

\* Midnight comes when everybody who waits for the last one has woken up.
LEMMA FileTickKeeps ==
  ASSUME FileInv, FileLogs!Tick
  PROVE  FileInv'
<1> USE DEF FileInv
<1>1. /\ today < LastDay /\ (\A d \in FileLogs!Days : d < today => timers[d] = 0) /\ today' = today + 1
      /\ UNCHANGED <<conf, fs, writer, job, timers, wrong, orphans>>
  BY DEF FileLogs!Tick
<1>2. /\ today \in 1 .. LastDay /\ LastDay \in Nat /\ writer.day \in 1 .. LastDay
      /\ writer.day \in FileLogs!Days
  BY FilesAssumption DEF FileLogs!FileLogAssumption, FileTypes, FileLogs!Days, Handles
<1>3. today' \in FileLogs!Days BY <1>1, <1>2 DEF FileLogs!Days
<1>4. FileTypes' BY <1>1, <1>3 DEF FileTypes
<1>5. OpenInv'
  <2>1. ~wrong => writer.day = today BY <1>1, <1>2 DEF OpenInv
  <2> QED BY <1>1, <1>2, <2>1 DEF OpenInv
<1>6. RoomInv' BY <1>1 DEF RoomInv, Writing, Most
<1> QED BY <1>4, <1>5, <1>6

LEMMA DailyKeeps ==
  ASSUME FileInv, FileLogs!DailyRotate
  PROVE  FileInv'
<1> USE DEF FileInv
<1>1. PICK d \in FileLogs!Days :
        /\ d < today /\ timers[d] > 0
        /\ IF FileLogs!NeedRotate(today) THEN FileLogs!DoRotate(today, [timers EXCEPT ![d] = @ - 1])
           ELSE timers' = [timers EXCEPT ![d] = @ - 1] /\ UNCHANGED <<fs, writer, cleaners, faults, wrong>>
        /\ UNCHANGED <<conf, today, job, msgs, written, removed, orphans>>
  BY DEF FileLogs!DailyRotate
<1> DEFINE ts == [timers EXCEPT ![d] = @ - 1]
<1>2. ts \in [FileLogs!Days -> Nat] /\ \A e \in FileLogs!Days : e # d => ts[e] = timers[e]
  <2>1. timers \in [FileLogs!Days -> Nat] BY DEF FileTypes
  <2>2. timers[d] - 1 \in Nat BY <1>1, <2>1
  <2> QED BY <2>1, <2>2
<1> HIDE DEF ts
<1>3. /\ today \in FileLogs!Days /\ today \in Nat /\ writer.lines \in Nat /\ conf.maxLines \in Nat
      /\ writer.day \in FileLogs!Days
  BY FilesAssumption DEF FileLogs!FileLogAssumption, FileTypes, FileLogs!Days, Handles
<1>4. CASE FileLogs!NeedRotate(today)
  <2>1. FileLogs!DoRotate(today, ts) BY <1>1, <1>4 DEF ts
  <2>2. FileTypes OBVIOUS
  <2>3. /\ fs' = [m \in DOMAIN fs' |-> fs'[m]] /\ \A m \in DOMAIN fs' : Kept(fs'[m])
        /\ writer' \in Handles /\ timers' \in [FileLogs!Days -> Nat] /\ wrong' \in BOOLEAN
        /\ ~wrong' =>
             /\ ~wrong
             /\ writer'.open /\ writer'.day = today /\ writer'.lines = 0 /\ timers'[today] > 0
             /\ FileLogs!Log \in DOMAIN fs' /\ fs'[FileLogs!Log].at = today
             /\ fs'[FileLogs!Log].lines = 0
             /\ \A m \in DOMAIN fs' : fs'[m].lines = 0 \/ \E q \in DOMAIN fs : fs'[m] = fs[q]
    BY <1>2, <2>1, <2>2, Rotated
  <2>4. FileTypes' BY <1>1, <2>3 DEF FileTypes
  <2>5. OpenInv' BY <1>1, <1>3, <2>3 DEF OpenInv
  <2>6. RoomInv'
    <3> SUFFICES ASSUME conf.rotate, conf.maxLines > 0, ~wrong'
        PROVE (/\ \A m \in DOMAIN fs : fs[m].lines <= Most
               /\ writer.lines + Cardinality(Writing) <= Most)'
      BY <1>1 DEF RoomInv
    <3>1. /\ Most' = Most /\ Most \in Int /\ (\A m \in DOMAIN fs : fs[m].lines <= Most)
          /\ writer.lines + Cardinality(Writing) <= Most /\ Writing' = Writing
      BY <1>1, <1>3, <2>3, WritersCounted DEF RoomInv, Most, Writing
    <3>2. Cardinality(Writing) \in Nat
      <4>1. Writing \in SUBSET Writers BY DEF Writing
      <4> QED BY <4>1, WritingFew
    <3>3. 0 <= Most /\ Cardinality(Writing) <= Most
      <4> HIDE DEF Most
      <4> QED BY <1>3, <3>1, <3>2
    <3> HIDE DEF Most
    <3>4. \A m \in DOMAIN fs' : fs'[m].lines <= Most BY <2>3, <3>1, <3>3
    <3> QED BY <2>3, <3>1, <3>2, <3>3, <3>4
  <2> QED BY <2>4, <2>5, <2>6
<1>5. CASE ~FileLogs!NeedRotate(today)
  <2>1. timers' = ts /\ UNCHANGED <<conf, today, fs, writer, job, wrong, orphans>> BY <1>1, <1>5 DEF ts
  <2>2. writer.day = today BY <1>5 DEF FileLogs!NeedRotate
  <2>3. FileTypes' BY <1>2, <2>1 DEF FileTypes
  <2>4. writer.day # d BY <1>1, <1>3, <2>2
  <2>5. OpenInv' BY <1>2, <1>3, <2>1, <2>4 DEF OpenInv
  <2>6. RoomInv' BY <2>1 DEF RoomInv, Writing, Most
  <2> QED BY <2>3, <2>5, <2>6
<1> QED BY <1>4, <1>5

\* The log is too young to be deleted.
LEMMA DeleteKeeps ==
  ASSUME FileInv, FileLogs!DeleteOldLog
  PROVE  FileInv'
<1> USE DEF FileInv
<1> DEFINE old == {m \in DOMAIN fs : fs[m].at + MaxDays < today}
<1>1. /\ fs' = [m \in DOMAIN fs \ old |-> fs[m]]
      /\ UNCHANGED <<conf, today, writer, job, timers, wrong, orphans>>
  BY DEF FileLogs!DeleteOldLog
<1>2. ~wrong => FileLogs!Log \notin old
  <2>1. /\ today \in Nat /\ writer.day \in Nat /\ MaxDays \in Nat \ {0}
    BY FilesAssumption DEF FileLogs!FileLogAssumption, FileTypes, FileLogs!Days, Handles
  <2>2. FileLogs!Log \in DOMAIN fs => fs[FileLogs!Log].at \in Nat BY DEF FileTypes, Kept
  <2> QED BY <2>1, <2>2 DEF OpenInv
<1> HIDE DEF old
<1>3. /\ fs' = [m \in DOMAIN fs' |-> fs'[m]] /\ DOMAIN fs' = DOMAIN fs \ old
      /\ \A m \in DOMAIN fs' : fs'[m] = fs[m]
  BY <1>1
<1>4. FileTypes' BY <1>1, <1>3 DEF FileTypes
<1>5. OpenInv' BY <1>1, <1>2, <1>3 DEF OpenInv
<1>6. RoomInv' BY <1>1, <1>3 DEF RoomInv, Writing, Most
<1> QED BY <1>4, <1>5, <1>6

LEMMA FileBegins == FileLogs!Init => FileInv
<1> SUFFICES ASSUME FileLogs!Init PROVE FileInv
  OBVIOUS
<1> USE DEF FileLogs!Init
<1>1. LastDay \in Nat \ {0} /\ 1 \in FileLogs!Days
  BY FilesAssumption DEF FileLogs!FileLogAssumption, FileLogs!Days
<1>2. /\ DOMAIN fs = {FileLogs!Log} /\ fs[FileLogs!Log] = [lines |-> 0, at |-> 1]
      /\ fs = [m \in DOMAIN fs |-> fs[m]]
  OBVIOUS
<1>3. FileTypes
  <2>1. timers \in [FileLogs!Days -> Nat] OBVIOUS
  <2>2. writer \in Handles /\ job \in [Writers -> Jobs] BY <1>1 DEF Handles, Jobs
  <2> QED BY <1>1, <1>2, <2>1, <2>2 DEF FileTypes, Kept
<1>4. OpenInv BY <1>1, <1>2 DEF OpenInv
<1>5. RoomInv
  <2>1. Writing = {} BY DEF Writing
  <2>2. Cardinality(Writing) = 0 BY <2>1, FS_EmptySet
  <2>3. Cardinality(Writers) \in Nat /\ conf.maxLines \in Nat BY WritersCounted
  <2> QED BY <1>2, <2>2, <2>3 DEF RoomInv, Most
<1> QED BY <1>3, <1>4, <1>5 DEF FileInv

LEMMA FileKeeps ==
  ASSUME FileInv, [FileLogs!Next]_FileLogs!fileLogVars
  PROVE  FileInv'
<1>1. CASE UNCHANGED FileLogs!fileLogVars
  BY <1>1 DEF FileLogs!fileLogVars, FileInv, FileTypes, OpenInv, RoomInv, Writing, Most, Kept
<1> QED BY <1>1, BeginKeeps, RotateKeeps, WriteKeeps, FileTickKeeps, DailyKeeps, DeleteKeeps DEF FileLogs!Next

\* What holds of the file log whatever its writers, timers and cleaners do in
\* between, as long as no rotation failed: no file has more than one line too
\* many for each writer, somebody waits for the midnight after the log was
\* opened, and no line goes to a file that was deleted.
THEOREM FileLogKept ==
  Spec => [](which = "filelog" => /\ FileLogs!LinesBound /\ FileLogs!TimerPending
                                  /\ orphans > 0 => wrong)
<1> DEFINE Inv == which = "filelog" => FileInv
<1>1. Init => Inv BY FileBegins DEF Init
<1>2. Inv /\ [Next]_vars => Inv'
  <2> SUFFICES ASSUME Inv, [Next]_vars, which' = "filelog" PROVE FileInv' OBVIOUS
  <2>1. which = "filelog" BY DEF Next, vars
  <2>2. [FileLogs!Next]_FileLogs!fileLogVars BY <2>1 DEF Next, vars, filelogVars, FileLogs!fileLogVars
  <2> QED BY <2>1, <2>2, FileKeeps
<1>3. FileInv => FileLogs!LinesBound /\ FileLogs!TimerPending /\ (orphans > 0 => wrong)
  <2> SUFFICES ASSUME FileInv
               PROVE FileLogs!LinesBound /\ FileLogs!TimerPending /\ (orphans > 0 => wrong)
    OBVIOUS
  <2>1. \A S : FileLogs!Cardinality(S) = Cardinality(S) BY WritersCounted
  <2>2. FileLogs!LinesBound BY <2>1 DEF FileInv, RoomInv, Most, FileLogs!LinesBound
  <2>3. FileLogs!TimerPending BY DEF FileInv, OpenInv, FileLogs!TimerPending
  <2>4. orphans > 0 => wrong BY DEF FileInv, OpenInv
  <2> QED BY <2>2, <2>3, <2>4
<1>4. Inv => (which = "filelog" => /\ FileLogs!LinesBound /\ FileLogs!TimerPending
                                   /\ orphans > 0 => wrong)
  BY <1>3
<1> QED BY <1>1, <1>2, <1>4, PTL DEF Spec

-----------------------------------------------------------------------------
(* The cache adapters.                                                     *)

\* ClearAll has still to come to a key, or has it in hand.
Coming(x) ==
  CASE clear.step = "scan"   -> x > clear.cursor \/ (adapter = "redis" /\ x \in clear.found)
    [] clear.step = "delete" -> x \in clear.found \/ (adapter = "ssdb" /\ x > clear.cursor)
    [] clear.step = "done"   -> FALSE
    [] OTHER                 -> TRUE

Steps == {"idle", "scan", "delete", "done", "failed"}
KeptKeys == Adapters!AllKeys
Configs == [key : {<<"a">>, <<"?">>, <<>>}, skipEmptyPrefix : BOOLEAN]
CounterTypes == {"int", "int32", "uint", "uint32"}

AdapterTypes ==
  /\ adapter \in {"file", "redis", "memcache", "ssdb"} /\ redis \in Configs /\ ctype \in CounterTypes
  /\ kept \in [KeptKeys -> Int \cup {Nil}] /\ expired \subseteq Adapters!CacheKeys
  /\ incring = Adapters!Nobody \/ incring \in [key : Adapters!CacheKeys, val : Int]
  /\ clear \in [step : Steps, cursor : Nat, found : SUBSET KeptKeys]
  /\ todo \subseteq Adapters!CacheKeys
  /\ adapter # "file" => expired = {}
  /\ adapter = "file" => clear.step = "idle"
  /\ adapter = "memcache" => clear.step \in {"idle", "done"}

\* The pattern of ClearAll misses no key of the cache.
Covered == adapter = "redis" => redis.key # <<>> \/ ~redis.skipEmptyPrefix

\* What redis has in hand, and what it removed of other caches, matched.
FoundMatch == adapter = "redis" => \A x \in clear.found : Adapters!RedisMatch(x)
LostMatch == adapter = "redis" => \A o \in Adapters!Others : kept[o] = Nil => Adapters!RedisMatch(o)

AdapterInv ==
  /\ AdapterTypes /\ FoundMatch /\ LostMatch /\ Adapters!MultiAligned
  /\ Covered => \A x \in todo : kept[x] # Nil => Coming(x)

LEMMA AdapterConstants ==
  /\ NKeys \in Nat /\ Page \in Nat \ {0} /\ Nil \notin Int /\ Half \in Nat /\ Half >= 2
  /\ Adapters!CacheKeys \subseteq Nat /\ Adapters!Others \subseteq Nat /\ Adapters!CacheKeys \subseteq KeptKeys
  /\ KeptKeys = Adapters!CacheKeys \cup Adapters!Others /\ Adapters!CacheKeys \cap Adapters!Others = {}
  /\ \A x \in KeptKeys : 0 < x /\ x <= NKeys + 3
BY AdaptersAssumption DEF Adapters!AdapterAssumption, Adapters!CacheKeys, Adapters!Others, Adapters!AllKeys, KeptKeys

\* The pattern matches each key that has a prefix and a colon,
LEMMA OwnMatch ==
  ASSUME redis \in Configs, redis.key # <<>> \/ ~redis.skipEmptyPrefix, NEW x \in Adapters!CacheKeys
  PROVE  Adapters!RedisMatch(x)
<1>1. Adapters!Name(x) = redis.key \o <<":", "k">>
  <2>1. ~(redis.key = <<>> /\ redis.skipEmptyPrefix) OBVIOUS
  <2> QED BY <2>1 DEF Adapters!Name, Adapters!Associate
<1>2. CASE redis.key = <<>> BY <1>1, <1>2 DEF Adapters!RedisMatch, Adapters!Glob
<1>3. CASE redis.key = <<"a">> BY <1>1, <1>3 DEF Adapters!RedisMatch, Adapters!Glob
<1>4. CASE redis.key = <<"?">> BY <1>1, <1>4 DEF Adapters!RedisMatch, Adapters!Glob
<1> QED BY <1>2, <1>3, <1>4 DEF Configs

\* and of other caches those whose prefix goes on behind it and a colon.
LEMMA OtherMatch ==
  ASSUME redis \in Configs, redis.key # <<"?">>, NEW o \in Adapters!Others, Adapters!RedisMatch(o)
  PROVE  Adapters!Below(o)
<1>1. o - NKeys \in {1, 2, 3} /\ o \notin Adapters!CacheKeys BY AdapterConstants DEF Adapters!Others
<1>2. Adapters!Name(o) = Adapters!Prefixes[o - NKeys] \o <<":", "k">>
  <2>1. Adapters!Prefixes[o - NKeys] # <<>> BY <1>1 DEF Adapters!Prefixes
  <2> QED BY <1>1, <2>1 DEF Adapters!Name, Adapters!Associate
<1>3. CASE redis.key = <<"a">>
  <2>1. CASE o - NKeys = 1 BY <1>2, <1>3, <2>1 DEF Adapters!RedisMatch, Adapters!Glob, Adapters!Prefixes
  <2>2. CASE o - NKeys = 2
    <3>1. Adapters!Prefixes[o - NKeys] = <<"a", "b">> BY <2>2 DEF Adapters!Prefixes
    <3>2. Adapters!Name(o)[2] = "b" BY <1>2, <3>1
    <3>3. (redis.key \o <<":">>)[2] = ":" /\ 2 \in DOMAIN (redis.key \o <<":">>) BY <1>3
    <3> QED BY <3>2, <3>3 DEF Adapters!RedisMatch, Adapters!Glob
  <2>3. CASE o - NKeys = 3 BY <1>3, <2>3 DEF Adapters!Below, Adapters!Glob, Adapters!Prefixes
  <2> QED BY <1>1, <2>1, <2>2, <2>3
<1>4. CASE redis.key = <<>>
  <2> USE <1>2, <1>4 DEF Adapters!RedisMatch, Adapters!Glob, Adapters!Prefixes, Adapters!Below
  <2>1. CASE o - NKeys = 1 BY <2>1
  <2>2. CASE o - NKeys = 2 BY <2>2
  <2>3. CASE o - NKeys = 3 BY <2>3
  <2> QED BY <1>1, <2>1, <2>2, <2>3
<1> QED BY <1>3, <1>4 DEF Configs

\* The pattern changes only with the options.
LEMMA SameMatch ==
  ASSUME redis' = redis
  PROVE  \A x \in KeptKeys : Adapters!RedisMatch(x)' <=> Adapters!RedisMatch(x)
BY DEF Adapters!RedisMatch, Adapters!Glob, Adapters!Name, Adapters!Associate

-----------------------------------------------------------------------------
\* Counters of every type and size.
LEMMA CounterRight ==
  ASSUME NEW c \in CounterTypes, NEW v \in Adapters!MinOf(c) .. Adapters!MaxOf(c)
  PROVE  /\ Adapters!IncrVal(c, v) = IF v = Adapters!MaxOf(c) THEN Nil ELSE v + 1
         /\ Adapters!DecrVal(c, v) = IF v = Adapters!MinOf(c) THEN Nil ELSE v - 1
<1> USE AdapterConstants DEF Adapters!IncrVal, Adapters!DecrVal, Adapters!Wrap, Adapters!MinOf, Adapters!MaxOf
<1>1. CASE c = "int" BY <1>1
<1>2. CASE c = "int32" BY <1>2
<1>3. CASE c = "uint" BY <1>3
<1>4. CASE c = "uint32" BY <1>4
<1> QED BY <1>1, <1>2, <1>3, <1>4 DEF CounterTypes

\* What a counter is made of is a number.
LEMMA CounterType ==
  ASSUME NEW c \in CounterTypes, NEW v \in Int, NEW up \in BOOLEAN,
         NEW to, to = IF up THEN Adapters!IncrVal(c, v) ELSE Adapters!DecrVal(c, v), to # Nil
  PROVE  to \in Int
<1>1. ASSUME NEW w \in Int PROVE Adapters!Wrap(c, w) \in Int
  BY AdapterConstants DEF Adapters!Wrap
<1>2. Adapters!Wrap(c, v + 1) \in Int /\ Adapters!Wrap(c, v - 1) \in Int BY <1>1
<1>3. Adapters!IncrVal(c, v) \in {Nil, Adapters!Wrap(c, v + 1)} BY Zenon DEF Adapters!IncrVal
<1>4. Adapters!DecrVal(c, v) \in {Nil, Adapters!Wrap(c, v - 1)} BY Zenon DEF Adapters!DecrVal
<1> QED BY <1>2, <1>3, <1>4

LEMMA SameSize == \A S : Adapters!Cardinality(S) = Cardinality(S)
BY DEF Adapters!Cardinality, Cardinality

\* Every set of numbers has a smallest one, and a bounded one has a largest.
LEMMA Smallest ==
  ASSUME NEW S \in SUBSET Nat, S # {}
  PROVE  \E d \in S : \A e \in S : d <= e
<1> DEFINE R == OpToRel(<, Nat)
<1>1. IsWellFoundedOn(R, Nat) BY NatLessThanWellFounded, Zenon
<1>2. \A x, y \in Nat : y < x => <<y, x>> \in R BY DEF OpToRel
<1> HIDE DEF R
<1>3. PICK d \in S : \A y \in S : ~(<<y, d>> \in R) BY <1>1, WFMin
<1>4. \A e \in S : ~(e < d) BY <1>2, <1>3
<1> QED BY <1>4

LEMMA Largest ==
  ASSUME NEW S \in SUBSET Adapters!CacheKeys, S # {}
  PROVE  \E d \in S : \A e \in S : e <= d
<1> DEFINE T == {x \in Nat : NKeys - x \in S}
<1>1. ASSUME NEW e \in S PROVE NKeys - e \in T
  <2>1. e \in Nat /\ e <= NKeys /\ NKeys \in Nat BY AdapterConstants DEF Adapters!CacheKeys
  <2> QED BY <2>1
<1>2. T # {} /\ T \in SUBSET Nat BY <1>1
<1> HIDE DEF T
<1>3. PICK d \in T : \A e \in T : d <= e BY <1>2, Smallest
<1>4. NKeys - d \in S BY DEF T
<1>5. ASSUME NEW e \in S PROVE e <= NKeys - d
  <2>1. d <= NKeys - e BY <1>1, <1>3
  <2>2. e \in Nat /\ d \in Nat /\ NKeys \in Nat BY <1>2, AdapterConstants
  <2> QED BY <2>1, <2>2
<1> QED BY <1>4, <1>5

\* A page holds the first keys after the cursor, if there are any, and the
\* cursor moves to the last of them.
LEMMA ScanRight ==
  ASSUME NEW start \in Nat
  PROVE  LET page == Adapters!Scan(start)
             after == {x \in Adapters!CacheKeys : x > start /\ kept[x] # Nil}
         IN  /\ page \subseteq after
             /\ page = {} => after = {}
             /\ page # {} => Adapters!SsdbCursor(page) \in page
             /\ \A x \in after \ page : x > Adapters!SsdbCursor(page)
<1> DEFINE after == {x \in Adapters!CacheKeys : x > start /\ kept[x] # Nil}
           below(x) == {j \in after : j < x}
           page == Adapters!Scan(start)
<1>1. page = {x \in after : Cardinality(below(x)) < Page} BY SameSize DEF Adapters!Scan
<1>2. after \in SUBSET Nat /\ after \in SUBSET Adapters!CacheKeys BY AdapterConstants
<1>3. IsFiniteSet(after)
  <2>1. 1 \in Int /\ NKeys \in Int BY AdapterConstants
  <2>2. IsFiniteSet(1 .. NKeys) BY <2>1, FS_Interval
  <2>3. after \in SUBSET (1 .. NKeys) BY DEF Adapters!CacheKeys
  <2> HIDE DEF after
  <2> QED BY <2>2, <2>3, FS_Subset
<1>4. page \subseteq after BY <1>1
<1> HIDE DEF after, page
<1>5. page = {} => after = {}
  <2> SUFFICES ASSUME after # {} PROVE page # {} OBVIOUS
  <2>1. PICK d \in after : \A e \in after : d <= e BY <1>2, Smallest
  <2>2. \A e \in after : ~(e < d) BY <1>2, <2>1
  <2>3. below(d) = {} BY <2>2
  <2>4. Cardinality(below(d)) < Page BY <2>3, FS_EmptySet, AdapterConstants
  <2> QED BY <1>1, <2>4
<1>6. page # {} => Adapters!SsdbCursor(page) \in page /\ \A e \in page : e <= Adapters!SsdbCursor(page)
  <2> SUFFICES ASSUME page # {} PROVE Adapters!SsdbCursor(page) \in page /\ \A e \in page : e <= Adapters!SsdbCursor(page)
    OBVIOUS
  <2>1. \E d \in page : \A e \in page : e <= d BY <1>2, <1>4, Largest
  <2> QED BY <2>1 DEF Adapters!SsdbCursor
<1>7. ASSUME NEW x \in after, x \notin page, NEW j \in page PROVE x > j
  <2>1. x \in Nat /\ j \in Nat /\ j \in after BY <1>2, <1>4
  <2> SUFFICES ASSUME x <= j PROVE FALSE BY <2>1
  <2>2. below(x) \subseteq below(j)
    <3> SUFFICES ASSUME NEW i \in after, i < x PROVE i < j OBVIOUS
    <3> QED BY <1>2, <2>1
  <2>3. IsFiniteSet(below(j)) /\ IsFiniteSet(below(x)) BY <1>3, FS_Subset
  <2>4. Cardinality(below(x)) <= Cardinality(below(j)) BY <2>2, <2>3, FS_Subset
  <2>5. Cardinality(below(x)) \in Nat /\ Cardinality(below(j)) \in Nat BY <2>3, FS_CardinalityType
  <2>6. Cardinality(below(j)) < Page /\ ~(Cardinality(below(x)) < Page) BY <1>1, <1>7
  <2> QED BY <2>4, <2>5, <2>6, AdapterConstants
<1>8. \A x \in after \ page : x > Adapters!SsdbCursor(page) BY <1>5, <1>6, <1>7
<1> QED BY <1>4, <1>5, <1>6, <1>8 DEF after, page

\* The keys ssdb answers with can be put in order.
InOrder(has, s) ==
  /\ s \in [1 .. Adapters!Cardinality(has) -> has]
  /\ Adapters!Range(s) = has /\ \A i, j \in DOMAIN s : i < j => s[i] < s[j]

LEMMA Ordered ==
  ASSUME NEW a \in Nat, NEW b \in Nat, NEW has \in SUBSET {a, b}
  PROVE  Adapters!Cardinality(has) \in Nat /\ \E s : InOrder(has, s)
<1> DEFINE size == Adapters!Cardinality(has)
<1>0. size = Cardinality(has) BY SameSize
<1> HIDE DEF size
<1>1. ASSUME has = {} PROVE size \in Nat /\ \E s : InOrder(has, s)
  <2> DEFINE s == [i \in 1 .. 0 |-> i]
  <2>1. size = 0 BY <1>0, <1>1, FS_EmptySet
  <2>2. s \in [1 .. size -> has] /\ DOMAIN s = {} BY <1>1, <2>1
  <2> HIDE DEF s
  <2>3. InOrder(has, s) BY <1>1, <2>2 DEF Adapters!Range, InOrder, size
  <2> QED BY <2>1, <2>3
<1>2. ASSUME NEW x \in Nat, has = {x} PROVE size \in Nat /\ \E s : InOrder(has, s)
  <2> DEFINE s == [i \in 1 .. 1 |-> x]
  <2>1. size = 1 BY <1>0, <1>2, FS_Singleton
  <2>2. s \in [1 .. size -> has] /\ DOMAIN s = {1} /\ s[1] = x BY <1>2, <2>1
  <2> HIDE DEF s
  <2>3. Adapters!Range(s) = {s[1]} BY <2>2 DEF Adapters!Range
  <2>4. \A i, j \in DOMAIN s : ~(i < j) BY <2>2
  <2>5. InOrder(has, s) BY <1>2, <2>2, <2>3, <2>4 DEF InOrder, size
  <2> QED BY <2>1, <2>5
<1>3. ASSUME NEW x \in Nat, NEW y \in Nat, x < y, has = {x, y} PROVE size \in Nat /\ \E s : InOrder(has, s)
  <2> DEFINE s == [i \in 1 .. 2 |-> IF i = 1 THEN x ELSE y]
  <2>1. Cardinality({x}) = 1 /\ IsFiniteSet({x}) BY FS_Singleton
  <2>2. has = {x} \cup {y} /\ y \notin {x} BY <1>3
  <2>3. size = 2 BY <1>0, <2>1, <2>2, FS_AddElement
  <2>4. s \in [1 .. size -> has] /\ DOMAIN s = {1, 2} /\ s[1] = x /\ s[2] = y BY <1>3, <2>3
  <2> HIDE DEF s
  <2>5. Adapters!Range(s) = {s[1], s[2]} BY <2>4 DEF Adapters!Range
  <2>6. \A i, j \in DOMAIN s : i < j => i = 1 /\ j = 2 BY <2>4
  <2>7. InOrder(has, s) BY <1>3, <2>4, <2>5, <2>6 DEF InOrder, size
  <2> QED BY <2>3, <2>7
<1>4. has = {} \/ has = {a} \/ has = {b} \/ (a < b /\ has = {a, b}) \/ (b < a /\ has = {b, a})
  <2>1. a < b \/ b < a \/ a = b OBVIOUS
  <2> QED BY <2>1
<1> QED BY <1>1, <1>2, <1>3, <1>4 DEF size

\* A sequence of n elements of a set.
LEMMA Listed ==
  ASSUME NEW S, NEW m \in Nat, NEW s \in [1 .. m -> S]
  PROVE  Len(s) = m /\ DOMAIN s = 1 .. m
<1>1. s \in Seq(S) BY SeqDef
<1> QED BY <1>1, LenProperties

LEMMA Halves ==
  ASSUME NEW j \in Nat, j % 2 = 1
  PROVE  \E q \in Nat : j = 2 * q + 1
<1>1. j \div 2 \in Nat /\ j = 2 * (j \div 2) + 1 OBVIOUS
<1> QED BY <1>1

\* GetMulti of ssdb: each key gets its own value.
LEMMA SsdbRight ==
  ASSUME NEW ks \in [1 .. 2 -> Adapters!CacheKeys]
  PROVE  \A x \in DOMAIN ks : Adapters!SsdbValues(ks)[x] = kept[ks[x]]
<1> DEFINE has == {k1 \in Adapters!Range(ks) : kept[k1] # Nil}
           m == Adapters!Cardinality(has)
           in == CHOOSE s \in [1 .. m -> has] : Adapters!Range(s) = has /\ \A i, j \in DOMAIN s : i < j => s[i] < s[j]
           res == Adapters!MultiGet(ks)
<1>1. ks[1] \in Nat /\ ks[2] \in Nat /\ DOMAIN ks = {1, 2}
  <2>1. ks[1] \in Adapters!CacheKeys /\ ks[2] \in Adapters!CacheKeys /\ DOMAIN ks = {1, 2} OBVIOUS
  <2> QED BY <2>1, AdapterConstants
<1>2. Adapters!Range(ks) = {ks[1], ks[2]} BY <1>1 DEF Adapters!Range
<1>3. has \in SUBSET {ks[1], ks[2]} BY <1>2
<1> HIDE DEF has
<1>4. m \in Nat /\ \E s : InOrder(has, s) BY <1>1, <1>3, Ordered
<1>5. in \in [1 .. m -> has] /\ Adapters!Range(in) = has BY <1>4 DEF InOrder
<1>6. res = [i \in 1 .. 2 * m |-> IF i % 2 = 1 THEN in[(i + 1) \div 2] ELSE kept[in[i \div 2]]]
  <2>1. Len(in) = m BY <1>4, <1>5, Listed
  <2>2. res = [i \in 1 .. 2 * Len(in) |-> IF i % 2 = 1 THEN in[(i + 1) \div 2] ELSE kept[in[i \div 2]]]
    BY Zenon DEF Adapters!MultiGet, has
  <2> QED BY <2>1, <2>2
<1> DEFINE at(k1) == {i \in DOMAIN res : i % 2 = 1 /\ res[i] = k1}
<1>7. Adapters!SsdbValues(ks) = [i \in DOMAIN ks |-> IF at(ks[i]) = {} THEN Nil ELSE res[(CHOOSE j \in at(ks[i]) : TRUE) + 1]]
  BY DEF Adapters!SsdbValues
<1> SUFFICES ASSUME NEW x \in DOMAIN ks PROVE Adapters!SsdbValues(ks)[x] = kept[ks[x]] OBVIOUS
<1> DEFINE k1 == ks[x]
<1>8. k1 \in has <=> kept[k1] # Nil BY DEF Adapters!Range, has
<1> HIDE DEF res, in, m, has
<1>9. DOMAIN in = 1 .. m /\ has = {in[i] : i \in 1 .. m} BY <1>5 DEF Adapters!Range
<1>10. ASSUME NEW j \in at(k1) PROVE in[(j + 1) \div 2] = k1 /\ (j + 1) \div 2 \in 1 .. m /\ res[j + 1] = kept[k1]
  <2>1. j \in 1 .. 2 * m /\ j % 2 = 1 /\ res[j] = k1 BY <1>6
  <2>2. /\ j + 1 \in 1 .. 2 * m /\ (j + 1) % 2 # 1
        /\ (j + 1) \div 2 \in 1 .. m
    <3>1. PICK q \in Nat : j = 2 * q + 1 BY <1>4, <2>1, Halves
    <3>2. (j + 1) \div 2 = q + 1 /\ (j + 1) % 2 = 0 BY <3>1
    <3>3. q + 1 <= m BY <1>4, <2>1, <3>1
    <3> QED BY <1>4, <2>1, <3>1, <3>2, <3>3
  <2>3. res[j] = in[(j + 1) \div 2] /\ res[j + 1] = kept[in[(j + 1) \div 2]] BY <1>6, <2>1, <2>2
  <2> QED BY <2>1, <2>2, <2>3
<1>11. ASSUME k1 \in has PROVE at(k1) # {}
  <2>1. PICK i \in 1 .. m : in[i] = k1 BY <1>9, <1>11
  <2>2. 2 * i - 1 \in 1 .. 2 * m /\ (2 * i - 1) % 2 = 1 /\ (2 * i - 1 + 1) \div 2 = i BY <1>4
  <2>3. res[2 * i - 1] = k1 BY <1>6, <2>1, <2>2
  <2>4. 2 * i - 1 \in at(k1) BY <1>6, <2>2, <2>3
  <2> QED BY <2>4
<1>12. CASE at(k1) = {}
  <2>1. kept[k1] = Nil BY <1>8, <1>11, <1>12
  <2> QED BY <1>7, <1>12, <2>1
<1>13. CASE at(k1) # {}
  <2>1. (CHOOSE j \in at(k1) : TRUE) \in at(k1) BY <1>13
  <2>2. res[(CHOOSE j \in at(k1) : TRUE) + 1] = kept[k1] BY <1>10, <2>1
  <2> HIDE DEF at
  <2> QED BY <1>7, <1>13, <2>2
<1> QED BY <1>12, <1>13

\* A call that writes a key takes it out of what ClearAll owes.
LEMMA CallKeeps ==
  ASSUME AdapterInv, AdapterTypes', clear' = clear, UNCHANGED <<adapter, redis>>, todo' \subseteq todo, asked' = <<>>,
         \A x \in todo' : kept'[x] # Nil => kept[x] # Nil, \A o \in Adapters!Others : kept'[o] = kept[o]
  PROVE  AdapterInv'
<1>1. Adapters!MultiAligned' BY DEF Adapters!MultiAligned
<1>2. FoundMatch' /\ LostMatch'
  <2>1. clear.found \subseteq KeptKeys /\ Adapters!Others \subseteq KeptKeys BY AdapterConstants DEF AdapterInv, AdapterTypes
  <2> QED BY <2>1, SameMatch DEF AdapterInv, FoundMatch, LostMatch
<1>3. Covered' => \A x \in todo' : kept'[x] # Nil => Coming(x)' BY DEF AdapterInv, Coming, Covered
<1> QED BY <1>1, <1>2, <1>3 DEF AdapterInv

\* One key is written or lost; the others stay.
LEMMA KeyKeeps ==
  ASSUME AdapterInv, NEW x \in Adapters!CacheKeys, NEW v \in Int \cup {Nil}, kept' = [kept EXCEPT ![x] = v],
         clear' = clear, UNCHANGED <<adapter, redis>>, ctype' = ctype, asked' = <<>>,
         (v = Nil /\ todo' = todo) \/ todo' = todo \ {x},
         expired' \subseteq Adapters!CacheKeys, adapter # "file" => expired' = {},
         incring' = incring \/ incring' = Adapters!Nobody
  PROVE  AdapterInv'
<1>1. kept' \in [KeptKeys -> Int \cup {Nil}] /\ (\A o \in Adapters!Others : kept'[o] = kept[o])
      /\ \A y \in KeptKeys \ {x} : kept'[y] = kept[y]
      /\ kept'[x] = v
  BY AdapterConstants DEF AdapterInv, AdapterTypes, KeptKeys
<1>2. AdapterTypes' BY <1>1 DEF AdapterInv, AdapterTypes
<1>3. todo' \subseteq todo /\ \A y \in todo' : kept'[y] # Nil => kept[y] # Nil
  BY <1>1 DEF AdapterInv, AdapterTypes, KeptKeys
<1> QED BY <1>1, <1>2, <1>3, CallKeeps

LEMMA PutKept ==
  ASSUME AdapterInv, Adapters!Put \/ Adapters!Delete \/ Adapters!Expire
  PROVE  AdapterInv'
<1>0. 0 \in Int \cup {Nil} /\ Nil \in Int \cup {Nil} OBVIOUS
<1>1. CASE Adapters!Put
  <2>1. PICK x \in Adapters!CacheKeys :
          /\ kept' = [kept EXCEPT ![x] = 0] /\ expired' = expired \ {x} /\ todo' = todo \ {x}
          /\ asked' = <<>> /\ UNCHANGED <<adapter, redis, ctype, incring, clear>>
    BY <1>1 DEF Adapters!Put, Adapters!Call
  <2>2. expired' \subseteq Adapters!CacheKeys /\ (adapter # "file" => expired' = {}) BY <2>1 DEF AdapterInv, AdapterTypes
  <2> QED BY <1>0, <2>1, <2>2, KeyKeeps
<1>2. CASE Adapters!Delete
  <2>1. PICK x \in Adapters!CacheKeys :
          /\ kept' = [kept EXCEPT ![x] = Nil] /\ expired' = expired \ {x} /\ todo' = todo
          /\ asked' = <<>> /\ UNCHANGED <<adapter, redis, ctype, incring, clear>>
    BY <1>2 DEF Adapters!Delete, Adapters!Call
  <2>2. expired' \subseteq Adapters!CacheKeys /\ (adapter # "file" => expired' = {}) BY <2>1 DEF AdapterInv, AdapterTypes
  <2> QED BY <1>0, <2>1, <2>2, KeyKeeps
<1>3. CASE Adapters!Expire
  <2>1. PICK x \in Adapters!CacheKeys :
          /\ IF adapter = "file" THEN expired' = expired \cup {x} /\ UNCHANGED kept
             ELSE kept' = [kept EXCEPT ![x] = Nil] /\ UNCHANGED expired
          /\ asked' = <<>> /\ UNCHANGED <<adapter, redis, ctype, incring, clear, todo>>
    BY <1>3 DEF Adapters!Expire, Adapters!Call
  <2>2. CASE adapter = "file"
    <3>1. AdapterTypes' BY <2>1, <2>2 DEF AdapterInv, AdapterTypes
    <3> QED BY <2>1, <2>2, <3>1, CallKeeps
  <2>3. CASE adapter # "file"
    <3>1. expired' \subseteq Adapters!CacheKeys /\ expired' = {} BY <2>1, <2>3 DEF AdapterInv, AdapterTypes
    <3> QED BY <1>0, <2>1, <2>3, <3>1, KeyKeeps
  <2> QED BY <2>2, <2>3
<1> QED BY <1>1, <1>2, <1>3

\* Incr and Decr, on a server at once and on a file in two steps.
LEMMA IncrKept ==
  ASSUME AdapterInv, Adapters!ServerIncr \/ Adapters!FileIncrGet \/ Adapters!FileIncrPut
  PROVE  AdapterInv'
<1>1. CASE Adapters!ServerIncr
  <2> DEFINE was(x) == IF kept[x] = Nil THEN 0 ELSE kept[x]
             to(x, d) == IF adapter = "memcache" /\ was(x) + d < 0 THEN 0 ELSE was(x) + d
  <2>1. PICK x \in Adapters!CacheKeys, d \in {1, -1} :
          /\ kept' = [kept EXCEPT ![x] = to(x, d)] /\ todo' = todo \ {x}
          /\ asked' = <<>> /\ UNCHANGED <<adapter, redis, ctype, expired, incring, clear>>
    BY <1>1 DEF Adapters!ServerIncr, Adapters!Call
  <2>2. kept[x] \in Int \cup {Nil} BY AdapterConstants DEF AdapterInv, AdapterTypes
  <2>3. was(x) \in Int BY <2>2
  <2>4. to(x, d) \in Int \cup {Nil} BY <2>3
  <2> HIDE DEF to
  <2>5. expired' \subseteq Adapters!CacheKeys /\ (adapter # "file" => expired' = {}) BY <2>1 DEF AdapterInv, AdapterTypes
  <2> QED BY <2>1, <2>4, <2>5, KeyKeeps
<1>2. CASE Adapters!FileIncrGet
  <2> DEFINE v(x, up) == IF up THEN Adapters!IncrVal(ctype, Adapters!Get(x)) ELSE Adapters!DecrVal(ctype, Adapters!Get(x))
  <2>1. PICK x \in Adapters!CacheKeys, up \in BOOLEAN :
          /\ Adapters!Get(x) # Nil
          /\ v(x, up) # Nil /\ incring' = [key |-> x, val |-> v(x, up)]
          /\ asked' = <<>> /\ UNCHANGED <<adapter, redis, ctype, kept, expired, clear, todo>>
    BY <1>2 DEF Adapters!FileIncrGet, Adapters!Call
  <2>2. Adapters!Get(x) \in Int BY <2>1, AdapterConstants DEF Adapters!Get, AdapterInv, AdapterTypes
  <2>3. v(x, up) \in Int BY <2>1, <2>2, CounterType DEF AdapterInv, AdapterTypes
  <2> HIDE DEF v
  <2>4. AdapterTypes' BY <2>1, <2>3 DEF AdapterInv, AdapterTypes
  <2> QED BY <2>1, <2>4, CallKeeps
<1>3. CASE Adapters!FileIncrPut
  <2>1. /\ incring # Adapters!Nobody /\ incring' = Adapters!Nobody
        /\ kept' = [kept EXCEPT ![incring.key] = incring.val] /\ expired' = expired \ {incring.key}
        /\ todo' = todo \ {incring.key} /\ asked' = <<>> /\ UNCHANGED <<adapter, redis, ctype, clear>>
    BY <1>3 DEF Adapters!FileIncrPut
  <2>2. incring.key \in Adapters!CacheKeys /\ incring.val \in Int \cup {Nil} BY <2>1 DEF AdapterInv, AdapterTypes
  <2>3. expired' \subseteq Adapters!CacheKeys /\ (adapter # "file" => expired' = {}) BY <2>1 DEF AdapterInv, AdapterTypes
  <2> QED BY <2>1, <2>2, <2>3, KeyKeeps
<1> QED BY <1>1, <1>2, <1>3

\* Reading, one key or several.
LEMMA AskKept ==
  ASSUME AdapterInv, Adapters!IsExist \/ Adapters!GetMulti
  PROVE  AdapterInv'
<1>1. UNCHANGED <<adapter, redis, ctype, kept, expired, incring, clear, todo>> BY DEF Adapters!IsExist, Adapters!GetMulti
<1>2. AdapterTypes' BY <1>1 DEF AdapterInv, AdapterTypes
<1>3. CASE asked' = <<>> BY <1>1, <1>2, <1>3, CallKeeps
<1>4. CASE Adapters!GetMulti
  <2>1. PICK ks \in [1 .. 2 -> Adapters!CacheKeys] :
          asked' = [keys |-> ks, vals |-> IF adapter = "ssdb" THEN Adapters!SsdbValues(ks) ELSE [i \in DOMAIN ks |-> Adapters!Get(ks[i])]]
    BY <1>4 DEF Adapters!GetMulti
  <2> DEFINE vals == IF adapter = "ssdb" THEN Adapters!SsdbValues(ks) ELSE [i \in DOMAIN ks |-> Adapters!Get(ks[i])]
  <2>2. ASSUME NEW i \in DOMAIN ks PROVE vals[i] = IF ks[i] \in expired THEN Nil ELSE kept[ks[i]]
    <3>1. CASE adapter = "ssdb"
      <4>1. expired = {} BY <3>1 DEF AdapterInv, AdapterTypes
      <4> QED BY <3>1, <4>1, SsdbRight
    <3>2. CASE adapter # "ssdb" BY <3>2 DEF Adapters!Get
    <3> QED BY <3>1, <3>2
  <2> HIDE DEF vals
  <2>3. asked'.keys = ks /\ asked'.vals = vals BY <2>1 DEF vals
  <2>4. Adapters!MultiAligned' BY <1>1, <2>2, <2>3 DEF Adapters!MultiAligned
  <2>5. Covered' => \A x \in todo' : kept'[x] # Nil => Coming(x)' BY <1>1 DEF AdapterInv, Coming, Covered
  <2>6. FoundMatch' /\ LostMatch'
    <3>1. clear.found \subseteq KeptKeys /\ Adapters!Others \subseteq KeptKeys BY AdapterConstants DEF AdapterInv, AdapterTypes
    <3> QED BY <1>1, <3>1, SameMatch DEF AdapterInv, FoundMatch, LostMatch
  <2> QED BY <1>2, <2>4, <2>5, <2>6 DEF AdapterInv
<1> QED BY <1>3, <1>4 DEF Adapters!IsExist

\* A step of ClearAll reads or removes keys and writes none.
LEMMA ClearStep ==
  ASSUME AdapterInv, UNCHANGED <<adapter, redis, ctype, expired, incring, todo>>, asked' = <<>>,
         kept' \in [KeptKeys -> Int \cup {Nil}],
         clear' \in [step : Steps, cursor : Nat, found : SUBSET KeptKeys],
         adapter = "redis" => /\ \A x \in clear'.found : Adapters!RedisMatch(x)
                              /\ \A o \in Adapters!Others : kept'[o] = Nil => Adapters!RedisMatch(o),
         adapter \in {"redis", "ssdb"},
         Covered => \A x \in todo : kept'[x] # Nil => kept[x] # Nil /\ Coming(x)'
  PROVE  AdapterInv'
<1>1. AdapterTypes' BY DEF AdapterInv, AdapterTypes
<1>2. Adapters!MultiAligned' BY DEF Adapters!MultiAligned
<1>3. FoundMatch' /\ LostMatch'
  <2>1. clear'.found \subseteq KeptKeys /\ Adapters!Others \subseteq KeptKeys BY AdapterConstants
  <2> QED BY <2>1, SameMatch DEF FoundMatch, LostMatch
<1>4. Covered' <=> Covered BY DEF Covered
<1> QED BY <1>1, <1>2, <1>3, <1>4 DEF AdapterInv

LEMMA ClearBegins ==
  ASSUME AdapterInv, Adapters!ClearAll
  PROVE  AdapterInv'
<1>1. /\ adapter # "file" /\ clear.step = "idle" /\ asked' = <<>> /\ UNCHANGED <<adapter, redis, ctype, expired, incring>>
      /\ todo' = {x \in Adapters!CacheKeys : kept[x] # Nil}
  BY DEF Adapters!ClearAll, Adapters!Call
<1>2. Adapters!MultiAligned' BY <1>1 DEF Adapters!MultiAligned
<1>3. CASE adapter = "memcache"
  <2>1. kept' = [x \in KeptKeys |-> Nil] /\ clear' = [step |-> "done", cursor |-> 0, found |-> {}]
    BY <1>3 DEF Adapters!ClearAll, Adapters!Idle, AdapterInv, AdapterTypes
  <2>2. AdapterTypes' BY <1>1, <1>3, <2>1 DEF AdapterInv, AdapterTypes, Steps
  <2>3. \A x \in todo' : kept'[x] = Nil BY <1>1, <2>1, AdapterConstants
  <2> QED BY <1>1, <1>2, <1>3, <2>2, <2>3 DEF AdapterInv, FoundMatch, LostMatch
<1>4. CASE adapter # "memcache"
  <2>1. kept' = kept /\ clear' = [step |-> "scan", cursor |-> 0, found |-> {}]
    BY <1>4 DEF Adapters!ClearAll, Adapters!Idle
  <2>2. AdapterTypes' BY <1>1, <1>4, <2>1 DEF AdapterInv, AdapterTypes, Steps
  <2>3. \A x \in todo' : Coming(x)' BY <1>1, <2>1, AdapterConstants DEF Coming
  <2>4. FoundMatch' /\ LostMatch'
    <3>1. Adapters!Others \subseteq KeptKeys BY AdapterConstants
    <3> QED BY <1>1, <2>1, <3>1, SameMatch DEF AdapterInv, FoundMatch, LostMatch
  <2> QED BY <1>1, <1>2, <2>1, <2>2, <2>3, <2>4 DEF AdapterInv
<1> QED BY <1>3, <1>4

\* redis collects the keys of the pages and removes them one at a time.
LEMMA RedisKept ==
  ASSUME AdapterInv, Adapters!RedisScan \/ Adapters!RedisDelete
  PROVE  AdapterInv'
<1>1. adapter = "redis" /\ asked' = <<>> /\ UNCHANGED <<adapter, redis, ctype, expired, incring, todo>>
  BY DEF Adapters!RedisScan, Adapters!RedisDelete, Adapters!Stay
<1>2. /\ kept \in [KeptKeys -> Int \cup {Nil}] /\ redis \in Configs
      /\ clear \in [step : Steps, cursor : Nat, found : SUBSET KeptKeys] /\ todo \subseteq Adapters!CacheKeys
  BY DEF AdapterInv, AdapterTypes
<1>3. /\ \A x \in clear.found : Adapters!RedisMatch(x)
      /\ \A o \in Adapters!Others : kept[o] = Nil => Adapters!RedisMatch(o)
  BY <1>1 DEF AdapterInv, FoundMatch, LostMatch
<1>4. CASE Adapters!RedisScan
  <2> DEFINE to == clear.cursor + Page
             page == {x \in clear.cursor + 1 .. to : x \in Adapters!AllKeys /\ kept[x] # Nil /\ Adapters!RedisMatch(x)}
             phase == IF to >= NKeys + 3 THEN "delete" ELSE "scan"
  <2>1. /\ clear.step = "scan" /\ kept' = kept
        /\ clear' = [step |-> phase, cursor |-> to, found |-> clear.found \cup page]
    BY <1>4 DEF Adapters!RedisScan
  <2>2. to \in Nat BY <1>2, AdapterConstants
  <2>3. page \subseteq KeptKeys /\ \A x \in page : Adapters!RedisMatch(x) BY DEF KeptKeys
  <2>4. clear' \in [step : Steps, cursor : Nat, found : SUBSET KeptKeys] BY <1>2, <2>1, <2>2, <2>3 DEF Steps
  <2>5. ASSUME Covered, NEW x \in todo, kept[x] # Nil PROVE Coming(x)'
    <3>1. x > clear.cursor \/ x \in clear.found BY <2>1, <2>5 DEF AdapterInv, Coming
    <3>2. x \in Nat /\ x \in KeptKeys /\ x <= NKeys + 3 /\ clear.cursor \in Nat BY <1>2, AdapterConstants
    <3>3. Adapters!RedisMatch(x) BY <1>1, <1>2, <2>5, OwnMatch DEF Covered
    <3>4. ASSUME x \notin clear.found, ~(x > to) PROVE x \in page
      <4>1. x > clear.cursor /\ x <= to BY <2>2, <3>1, <3>2, <3>4
      <4>2. x \in clear.cursor + 1 .. to BY <2>2, <3>2, <4>1
      <4> HIDE DEF to
      <4> QED BY <2>5, <3>2, <3>3, <4>2 DEF KeptKeys
    <3>5. to >= NKeys + 3 => ~(x > to) BY <2>2, <3>2, AdapterConstants
    <3> HIDE DEF to, page
    <3>6. x \in clear'.found \/ (clear'.step = "scan" /\ x > clear'.cursor) BY <2>1, <3>4, <3>5
    <3>7. clear'.step \in {"scan", "delete"} BY <2>1
    <3> QED BY <1>1, <3>6, <3>7 DEF Coming
  <2>6. \A x \in clear'.found : Adapters!RedisMatch(x)
    <3> HIDE DEF page
    <3> QED BY <1>3, <2>1, <2>3
  <2> QED BY <1>1, <1>2, <1>3, <2>1, <2>4, <2>5, <2>6, ClearStep
<1>5. CASE Adapters!RedisDelete
  <2>1. clear.step = "delete" BY <1>5 DEF Adapters!RedisDelete
  <2>2. Covered => \A x \in todo : kept[x] # Nil => x \in clear.found BY <1>1, <2>1 DEF AdapterInv, Coming
  <2>3. CASE clear.found = {}
    <3>1. kept' = kept /\ clear' = [clear EXCEPT !.step = "done"] BY <1>5, <2>3 DEF Adapters!RedisDelete
    <3>2. clear' \in [step : Steps, cursor : Nat, found : SUBSET KeptKeys] /\ clear'.found = {} BY <1>2, <2>3, <3>1 DEF Steps
    <3> QED BY <1>1, <1>2, <1>3, <2>2, <2>3, <3>1, <3>2, ClearStep
  <2>4. CASE clear.found # {}
    <3>1. PICK y \in clear.found : kept' = [kept EXCEPT ![y] = Nil] /\ clear' = [clear EXCEPT !.found = @ \ {y}]
      BY <1>5, <2>4 DEF Adapters!RedisDelete
    <3>2. clear' \in [step : Steps, cursor : Nat, found : SUBSET KeptKeys] BY <1>2, <3>1
    <3>3. y \in KeptKeys /\ Adapters!RedisMatch(y) BY <1>2, <1>3
    <3>4. kept' \in [KeptKeys -> Int \cup {Nil}] /\ kept'[y] = Nil /\ \A x \in KeptKeys \ {y} : kept'[x] = kept[x]
      BY <1>2, <3>1, <3>3
    <3>5. clear'.step = "delete" /\ clear'.found = clear.found \ {y} BY <1>2, <2>1, <3>1
    <3>6. /\ \A x \in clear'.found : Adapters!RedisMatch(x)
          /\ \A o \in Adapters!Others : kept'[o] = Nil => Adapters!RedisMatch(o)
      BY <1>3, <3>3, <3>4, <3>5, AdapterConstants
    <3>7. ASSUME Covered, NEW x \in todo, kept'[x] # Nil PROVE kept[x] # Nil /\ Coming(x)'
      <4>1. x # y /\ kept[x] # Nil BY <1>2, <3>4, <3>7, AdapterConstants
      <4>2. x \in clear'.found BY <2>2, <3>5, <3>7, <4>1
      <4> QED BY <3>5, <4>1, <4>2 DEF Coming
    <3> QED BY <1>1, <3>2, <3>4, <3>6, <3>7, ClearStep
  <2> QED BY <2>3, <2>4
<1> QED BY <1>4, <1>5

\* ssdb removes a page before it looks for the next one.
LEMMA SsdbKept ==
  ASSUME AdapterInv, Adapters!SsdbScan \/ Adapters!SsdbDelete
  PROVE  AdapterInv'
<1>1. adapter = "ssdb" /\ asked' = <<>> /\ UNCHANGED <<adapter, redis, ctype, expired, incring, todo>>
  BY DEF Adapters!SsdbScan, Adapters!SsdbDelete, Adapters!Stay
<1>2. /\ kept \in [KeptKeys -> Int \cup {Nil}]
      /\ clear \in [step : Steps, cursor : Nat, found : SUBSET KeptKeys] /\ todo \subseteq Adapters!CacheKeys
  BY DEF AdapterInv, AdapterTypes
<1>3. CASE Adapters!SsdbScan
  <2>1. clear.step = "scan" /\ kept' = kept BY <1>3 DEF Adapters!SsdbScan
  <2>2. \A x \in todo : kept[x] # Nil => x > clear.cursor BY <1>1, <2>1 DEF AdapterInv, Coming, Covered
  <2>3. PICK page : page = Adapters!Scan(clear.cursor) OBVIOUS
  <2>4. PICK after : after = {x \in Adapters!CacheKeys : x > clear.cursor /\ kept[x] # Nil} OBVIOUS
  <2>5. /\ page \subseteq after /\ (page = {} => after = {})
        /\ page # {} => Adapters!SsdbCursor(page) \in page
        /\ \A x \in after \ page : x > Adapters!SsdbCursor(page)
    BY <1>2, <2>3, <2>4, ScanRight
  <2>6. \A x \in todo : kept[x] # Nil => x \in after BY <1>2, <2>2, <2>4
  <2>7. CASE page = {}
    <3>1. clear' = [clear EXCEPT !.step = "done"] BY <1>3, <2>3, <2>7 DEF Adapters!SsdbScan
    <3>2. clear' \in [step : Steps, cursor : Nat, found : SUBSET KeptKeys] BY <1>2, <3>1 DEF Steps
    <3>3. \A x \in todo : kept'[x] = Nil BY <2>1, <2>5, <2>6, <2>7
    <3> QED BY <1>1, <1>2, <2>1, <3>2, <3>3, ClearStep
  <2>8. CASE page # {}
    <3>1. clear' = [step |-> "delete", cursor |-> Adapters!SsdbCursor(page), found |-> page]
      BY <1>3, <2>3, <2>8 DEF Adapters!SsdbScan
    <3>2. page \subseteq KeptKeys /\ Adapters!SsdbCursor(page) \in Nat BY <2>4, <2>5, <2>8, AdapterConstants
    <3>3. clear' \in [step : Steps, cursor : Nat, found : SUBSET KeptKeys] BY <3>1, <3>2 DEF Steps
    <3>4. ASSUME NEW x \in todo, kept'[x] # Nil PROVE kept[x] # Nil /\ Coming(x)'
      <4>1. kept[x] # Nil BY <2>1, <3>4
      <4>2. x \in page \/ x > Adapters!SsdbCursor(page) BY <2>5, <2>6, <4>1
      <4>3. clear'.step = "delete" /\ clear'.found = page /\ clear'.cursor = Adapters!SsdbCursor(page) BY <3>1
      <4> QED BY <1>1, <4>1, <4>2, <4>3 DEF Coming
    <3> QED BY <1>1, <1>2, <2>1, <3>3, <3>4, ClearStep
  <2> QED BY <2>7, <2>8
<1>4. CASE Adapters!SsdbDelete
  <2>1. /\ clear.step = "delete" /\ clear' = [clear EXCEPT !.step = "scan", !.found = {}]
        /\ kept' = [x \in KeptKeys |-> IF x \in clear.found THEN Nil ELSE kept[x]]
    BY <1>2, <1>4 DEF Adapters!SsdbDelete
  <2>2. clear' \in [step : Steps, cursor : Nat, found : SUBSET KeptKeys] /\ clear'.step = "scan" /\ clear'.cursor = clear.cursor
    BY <1>2, <2>1 DEF Steps
  <2>3. kept' \in [KeptKeys -> Int \cup {Nil}] BY <1>2, <2>1
  <2>4. ASSUME NEW x \in todo, kept'[x] # Nil PROVE kept[x] # Nil /\ Coming(x)'
    <3>1. x \notin clear.found /\ kept[x] # Nil BY <1>2, <2>1, <2>4, AdapterConstants
    <3>2. x > clear.cursor BY <1>1, <2>1, <3>1 DEF AdapterInv, Coming, Covered
    <3> QED BY <2>2, <3>1, <3>2 DEF Coming
  <2> QED BY <1>1, <2>2, <2>3, <2>4, ClearStep
<1> QED BY <1>3, <1>4

LEMMA FailKept ==
  ASSUME AdapterInv, Adapters!ClearFails
  PROVE  AdapterInv'
<1>1. /\ clear.step \in {"scan", "delete"} /\ kept' = kept /\ clear' = [clear EXCEPT !.step = "failed"]
      /\ asked' = <<>> /\ UNCHANGED <<adapter, redis, ctype, expired, incring, todo>>
  BY DEF Adapters!ClearFails, Adapters!Stay
<1>2. /\ adapter \in {"redis", "ssdb"}
      /\ adapter = "redis" => /\ \A x \in clear.found : Adapters!RedisMatch(x)
                              /\ \A o \in Adapters!Others : kept[o] = Nil => Adapters!RedisMatch(o)
  BY <1>1 DEF AdapterInv, AdapterTypes, FoundMatch, LostMatch
<1>3. clear' \in [step : Steps, cursor : Nat, found : SUBSET KeptKeys] /\ clear'.step = "failed"
      /\ clear'.found = clear.found
  BY <1>1 DEF AdapterInv, AdapterTypes, Steps
<1>4. \A x \in todo : Coming(x)' BY <1>3 DEF Coming
<1>5. kept' \in [KeptKeys -> Int \cup {Nil}] BY <1>1 DEF AdapterInv, AdapterTypes
<1>6. adapter = "redis" => /\ \A x \in clear'.found : Adapters!RedisMatch(x)
                          /\ \A o \in Adapters!Others : kept'[o] = Nil => Adapters!RedisMatch(o)
  BY <1>1, <1>2, <1>3
<1>7. Covered => \A x \in todo : kept'[x] # Nil => kept[x] # Nil /\ Coming(x)' BY <1>1, <1>4
<1>8. clear' \in [step : Steps, cursor : Nat, found : SUBSET KeptKeys] BY <1>3
<1> HIDE DEF AdapterInv
<1> QED BY <1>1, <1>2, <1>5, <1>6, <1>7, <1>8, ClearStep

-----------------------------------------------------------------------------
LEMMA AdapterBegins == Adapters!Init => AdapterInv
<1> SUFFICES ASSUME Adapters!Init PROVE AdapterInv OBVIOUS
<1> USE DEF Adapters!Init
<1>1. PICK s \in SUBSET Adapters!CacheKeys : kept = [x \in KeptKeys |-> IF x \in Adapters!Others \/ x \in s THEN 0 ELSE Nil]
  BY Zenon DEF KeptKeys
<1>2. kept \in [KeptKeys -> Int \cup {Nil}] /\ \A o \in Adapters!Others : kept[o] # Nil BY <1>1, AdapterConstants
<1>3. ctype \in CounterTypes BY DEF CounterTypes
<1>4. AdapterTypes BY <1>2, <1>3 DEF AdapterTypes, Adapters!Idle, Steps, Configs
<1> QED BY <1>2, <1>4 DEF AdapterInv, FoundMatch, LostMatch, Adapters!Idle, Adapters!MultiAligned

LEMMA AdapterKeeps ==
  ASSUME AdapterInv, [Adapters!Next]_Adapters!cacheAdapterVars
  PROVE  AdapterInv'
<1>1. CASE UNCHANGED Adapters!cacheAdapterVars
  <2> USE <1>1 DEF Adapters!cacheAdapterVars, AdapterInv
  <2>1. AdapterTypes' /\ Adapters!MultiAligned' BY DEF AdapterTypes, Adapters!MultiAligned
  <2>2. Covered' => \A x \in todo' : kept'[x] # Nil => Coming(x)' BY DEF Coming, Covered
  <2>3. clear.found \subseteq KeptKeys /\ Adapters!Others \subseteq KeptKeys BY AdapterConstants DEF AdapterTypes
  <2>4. FoundMatch' /\ LostMatch' BY <2>3, SameMatch DEF FoundMatch, LostMatch
  <2> QED BY <2>1, <2>2, <2>4
<1>2. CASE Adapters!Next
  BY <1>2, PutKept, IncrKept, AskKept, ClearBegins, RedisKept, SsdbKept, FailKept DEF Adapters!Next
<1> QED BY <1>1, <1>2

\* An adapter clears all its keys and no others, whatever is written meanwhile,
\* answers each key with its value, and counts without wrapping around, for any
\* number of keys, size of a page and width of a counter (client/cache).
THEOREM AdaptersCorrect == Spec => []AdaptersSound
<1> DEFINE Inv == which = "adapters" => AdapterInv
<1>1. Init => Inv BY AdapterBegins DEF Init
<1>2. Inv /\ [Next]_vars => Inv'
  <2> SUFFICES ASSUME Inv, [Next]_vars, which' = "adapters" PROVE AdapterInv' OBVIOUS
  <2>1. which = "adapters" BY DEF Next, vars
  <2>2. [Adapters!Next]_Adapters!cacheAdapterVars BY <2>1 DEF Next, vars, adaptersVars, Adapters!cacheAdapterVars
  <2> QED BY <2>1, <2>2, AdapterKeeps
<1>3. Inv => AdaptersSound
  <2> SUFFICES ASSUME AdapterInv PROVE Adapters!AdaptersSound BY DEF AdaptersSound
  <2>1. Adapters!ClearDone BY DEF AdapterInv, Coming, Covered, Adapters!ClearDone
  <2>3. Adapters!PrefixSafe
    BY OtherMatch DEF AdapterInv, AdapterTypes, LostMatch, Adapters!PrefixSafe
  <2>2. Adapters!CounterExact BY CounterRight DEF AdapterInv, AdapterTypes, Adapters!CounterExact
  <2> QED BY <2>1, <2>2, <2>3 DEF AdapterInv, Adapters!AdaptersSound
<1> QED BY <1>1, <1>2, <1>3, PTL DEF Spec

=============================================================================
