------------------------------ MODULE OrmProofs -------------------------------
(***************************************************************************)
(* Safety of the ORM: the statement cache, and the statements an operation *)
(* sends with the transactions they are sent in, each for every value of   *)
(* its constants.                                                          *)
(*                                                                         *)
(* NoUseAfterClose is not inductive: it needs to know that the WaitGroup   *)
(* counts exactly the users of a decorator (CountInv), that a client which *)
(* has found a decorator but not acquired it yet keeps it in the cache by  *)
(* holding the read lock (LockInv, HitInv), and that what is cached is not *)
(* being reaped (CacheInv).                                                *)
(*                                                                         *)
(* DatabaseSound is not inductive either: a delete removes the rows that   *)
(* are referred to last, so the database is right behind a statement only  *)
(* because the statements still to come cover what refers to what is gone  *)
(* (LiveInv).  For StatementsExact, what they may still take is what the   *)
(* delete was to take from the start (DoomInv).                            *)
(***************************************************************************)
EXTENDS StmtCache, OrmCrud, FiniteSetTheorems, SequenceTheorems, TLAPS

-----------------------------------------------------------------------------
(* The cache of prepared statements.                                       *)

\* The clients that have acquired a decorator and not released it.
Users(d) == {c \in Clients : held[c] = d /\ pc[c] \in {"prepared", "using"}}

\* The read-write lock: who is inside is decided by the program counters, and
\* a writer is alone.
LockInv ==
  \A c \in Clients :
    /\ pc[c] = "hit" <=> c \in readers
    /\ c \in writer => pc[c] \in {"locked", "prepared"}
    /\ pc[c] \in {"locked", "prepared"} => writer = {c} /\ readers = {}

\* What is cached is open, not given up and cached once.
CacheInv ==
  /\ \A q \in Queries : Cached(q) =>
       cached[q] \in Stmts /\ stmt[cached[q]] = "open" /\ reaper[cached[q]] = "none"
  /\ \A p, q \in Queries : Cached(p) /\ Cached(q) /\ p # q => cached[p] # cached[q]

\* A client past its lookup holds an open statement; until it acquires it the
\* statement stays cached, and until it is added it is the client's alone.
HitInv ==
  \A c \in Clients :
    /\ pc[c] \in {"hit", "prepared", "using"} =>
         held[c] \in Stmts /\ stmt[held[c]] = "open"
    /\ pc[c] = "hit" => Cached(query[c]) /\ cached[query[c]] = held[c]
    /\ pc[c] = "prepared" =>
         /\ ~Cached(query[c]) /\ reaper[held[c]] = "none"
         /\ \A q \in Queries : Cached(q) => cached[q] # held[c]

\* The WaitGroup counts the users, and its Wait has returned only without any.
CountInv == \A d \in Stmts : wg[d] = Cardinality(Users(d))

ReapInv ==
  \A d \in Stmts :
    /\ reaper[d] \in {"closing", "done"} => Users(d) = {}
    /\ reaper[d] \in {"none", "waiting", "closing"} => stmt[d] # "closed"
    /\ stmt[d] = "none" => reaper[d] = "none"

IInv == TypeOK /\ LockInv /\ CacheInv /\ HitInv /\ CountInv /\ ReapInv

-----------------------------------------------------------------------------
\* A client that acquires raises the number of users by one, a client that
\* releases lowers it, and the number is zero only without users.
LEMMA UserCount ==
  ASSUME StmtAssumption, NEW S \in SUBSET Clients
  PROVE  /\ Cardinality(S) \in Nat
         /\ Cardinality(S) = 0 <=> S = {}
         /\ \A c \in Clients : c \notin S => Cardinality(S \cup {c}) = Cardinality(S) + 1
         /\ \A c \in Clients : c \in S => Cardinality(S \ {c}) = Cardinality(S) - 1
<1>1. IsFiniteSet(S) BY FS_Subset DEF StmtAssumption
<1> QED BY <1>1, FS_CardinalityType, FS_EmptySet, FS_AddElement, FS_RemoveElement

\* Users are clients.
LEMMA UsersType == \A d \in Stmts : Users(d) \in SUBSET Clients
BY DEF Users

\* The initial states satisfy the inductive invariant: nobody uses anything.
LEMMA InitInv == Init => IInv
<1> SUFFICES ASSUME Init PROVE IInv OBVIOUS
<1> USE StmtAssumption DEF StmtAssumption
<1>1. TypeOK BY DEF Init, TypeOK, PC
<1>2. LockInv /\ CacheInv /\ HitInv BY DEF Init, LockInv, CacheInv, HitInv, Cached
<1>3. \A d \in Stmts : Users(d) = {} BY DEF Init, Users
<1>4. CountInv BY <1>3, FS_EmptySet DEF Init, CountInv
<1>5. ReapInv BY <1>3 DEF Init, ReapInv
<1> QED BY <1>1, <1>2, <1>4, <1>5 DEF IInv

\* A call only chooses its query.
LEMMA CallInv ==
  ASSUME IInv, NEW c \in Clients, Call(c)
  PROVE  IInv'
<1> USE StmtAssumption DEF StmtAssumption, Call, Goto, lruVars, stmtVars
<1>1. TypeOK' BY DEF IInv, TypeOK, PC
<1>2. LockInv' BY DEF IInv, TypeOK, LockInv
<1>3. CacheInv' BY DEF IInv, TypeOK, CacheInv, HitInv, Cached
<1>4. HitInv' BY DEF IInv, TypeOK, LockInv, CacheInv, HitInv, Cached
<1>5. \A x \in Stmts : Users(x)' = Users(x) BY DEF IInv, TypeOK, Users
<1>6. CountInv' BY <1>5 DEF IInv, CountInv
<1>7. ReapInv' BY <1>5 DEF IInv, TypeOK, ReapInv
<1> QED BY <1>1, <1>2, <1>3, <1>4, <1>6, <1>7 DEF IInv

\* A hit under the read lock finds an open statement that is not being reaped.
LEMMA ReadLookupInv ==
  ASSUME IInv, NEW c \in Clients, ReadLookup(c)
  PROVE  IInv'
<1> USE StmtAssumption DEF StmtAssumption, ReadLookup, Goto, lruVars, stmtVars
<1>1. TypeOK' BY DEF IInv, TypeOK, PC, HitInv, CacheInv, Touch, Cached
<1>2. LockInv' BY DEF IInv, TypeOK, LockInv
<1>3. CacheInv' BY DEF IInv, TypeOK, CacheInv, HitInv, Cached, Touch
<1>4. HitInv' BY DEF IInv, TypeOK, LockInv, CacheInv, HitInv, Cached, Touch
<1>5. \A x \in Stmts : Users(x)' = Users(x) BY DEF IInv, TypeOK, Users
<1>6. CountInv' BY <1>5 DEF IInv, CountInv
<1>7. ReapInv' BY <1>5 DEF IInv, TypeOK, ReapInv
<1> QED BY <1>1, <1>2, <1>3, <1>4, <1>6, <1>7 DEF IInv

\* acquire() under the read lock: one more user of a cached statement.
LEMMA AcquireHitInv ==
  ASSUME IInv, NEW c \in Clients, AcquireHit(c)
  PROVE  IInv'
<1> USE StmtAssumption DEF StmtAssumption, AcquireHit, Goto, lruVars, stmtVars
<1>1. TypeOK' BY DEF IInv, TypeOK, PC, HitInv
<1>2. LockInv' BY DEF IInv, TypeOK, LockInv
<1>3. CacheInv' BY DEF IInv, TypeOK, CacheInv, HitInv, Cached
<1>4. HitInv' BY DEF IInv, TypeOK, LockInv, CacheInv, HitInv, Cached
<1>5. \A x \in Stmts : Users(x)' = IF x = held[c] THEN Users(x) \cup {c} ELSE Users(x)
  BY DEF IInv, TypeOK, HitInv, CacheInv, Users, Cached
<1>6. held[c] \in Stmts /\ c \notin Users(held[c]) BY DEF IInv, TypeOK, HitInv, CacheInv, Users, Cached
<1>7. CountInv' BY <1>5, <1>6, UserCount, UsersType DEF IInv, TypeOK, CountInv
<1>8. ReapInv' BY <1>5, <1>6 DEF IInv, TypeOK, ReapInv, HitInv, CacheInv
<1> QED BY <1>1, <1>2, <1>3, <1>4, <1>7, <1>8 DEF IInv

\* The write lock is taken when nobody is inside.
LEMMA WriteLockInv ==
  ASSUME IInv, NEW c \in Clients, WriteLock(c)
  PROVE  IInv'
<1> USE StmtAssumption DEF StmtAssumption, WriteLock, Goto, lruVars, stmtVars
<1>1. TypeOK' BY DEF IInv, TypeOK, PC
<1>2. LockInv' BY DEF IInv, TypeOK, LockInv
<1>3. CacheInv' BY DEF IInv, TypeOK, CacheInv, HitInv, Cached
<1>4. HitInv' BY DEF IInv, TypeOK, LockInv, CacheInv, HitInv, Cached
<1>5. \A x \in Stmts : Users(x)' = Users(x) BY DEF IInv, TypeOK, Users
<1>6. CountInv' BY <1>5 DEF IInv, CountInv
<1>7. ReapInv' BY <1>5 DEF IInv, TypeOK, ReapInv
<1> QED BY <1>1, <1>2, <1>3, <1>4, <1>6, <1>7 DEF IInv

\* Only the client that holds the write lock gives it up.
LEMMA LockGiven ==
  ASSUME LockInv, pc \in [Clients -> PC], NEW c \in Clients, pc[c] \in {"locked", "prepared"},
         NEW to \in {"using", "idle"}, pc' = [pc EXCEPT ![c] = to], writer' = {}, readers' = readers
  PROVE  LockInv'
<1> SUFFICES ASSUME NEW x \in Clients
             PROVE  /\ pc'[x] = "hit" <=> x \in readers'
                    /\ x \in writer' => pc'[x] \in {"locked", "prepared"}
                    /\ pc'[x] \in {"locked", "prepared"} => writer' = {x} /\ readers' = {}
  BY DEF LockInv
<1>1. writer = {c} /\ readers = {} BY DEF LockInv
<1>2. CASE x = c BY <1>1, <1>2
<1>3. CASE x # c
  <2>1. pc'[x] = pc[x] BY <1>3
  <2>2. pc[x] # "hit" /\ pc[x] \notin {"locked", "prepared"} BY <1>1, <1>3 DEF LockInv
  <2> QED BY <1>1, <2>1, <2>2
<1> QED BY <1>2, <1>3

\* The second lookup acquires what another client has added meanwhile.
LEMMA WriteHitInv ==
  ASSUME IInv, NEW c \in Clients, WriteHit(c)
  PROVE  IInv'
<1> USE StmtAssumption DEF StmtAssumption, WriteHit, Goto, lruVars, stmtVars
<1>1. TypeOK' BY DEF IInv, TypeOK, PC, HitInv, CacheInv, Touch, Cached
<1>2. LockInv' BY LockGiven DEF IInv, TypeOK
<1>3. CacheInv' BY DEF IInv, TypeOK, CacheInv, HitInv, Cached, Touch
<1>4. HitInv' BY DEF IInv, TypeOK, LockInv, CacheInv, HitInv, Cached, Touch
<1>5. \A x \in Stmts : Users(x)' = IF x = cached[query[c]] THEN Users(x) \cup {c} ELSE Users(x)
  BY DEF IInv, TypeOK, HitInv, CacheInv, Users, Cached
<1>6. cached[query[c]] \in Stmts /\ c \notin Users(cached[query[c]]) BY DEF IInv, TypeOK, HitInv, CacheInv, Users, Cached
<1>7. CountInv' BY <1>5, <1>6, UserCount, UsersType DEF IInv, TypeOK, CountInv
<1>8. ReapInv' BY <1>5, <1>6 DEF IInv, TypeOK, ReapInv, HitInv, CacheInv
<1> QED BY <1>1, <1>2, <1>3, <1>4, <1>7, <1>8 DEF IInv

\* A prepared statement is new and belongs to its client.
LEMMA PrepareInv ==
  ASSUME IInv, NEW c \in Clients, Prepare(c)
  PROVE  IInv'
<1> USE StmtAssumption DEF StmtAssumption, Goto, lruVars, stmtVars
<1> PICK d \in Stmts : /\ stmt[d] = "none"
                     /\ stmt' = [stmt EXCEPT ![d] = "open"]
                     /\ wg'   = [wg EXCEPT ![d] = @ + 1]
                     /\ held' = [held EXCEPT ![c] = d]
  BY DEF Prepare
<1>a. pc[c] = "locked" /\ pc' = [pc EXCEPT ![c] = "prepared"] /\ ~Cached(query[c])
      /\ UNCHANGED <<query, readers, writer, rank, cached, reaper>>
  BY DEF Prepare
<1>1. TypeOK' BY <1>a DEF IInv, TypeOK, PC
<1>2. LockInv' BY <1>a DEF IInv, TypeOK, LockInv
<1>3. CacheInv' BY <1>a DEF IInv, TypeOK, CacheInv, Cached
<1>4. HitInv'
  <2>1. reaper[d] = "none" /\ (\A q \in Queries : Cached(q) => cached[q] # d)
    BY DEF IInv, CacheInv, ReapInv
  <2>2. \A x \in Clients : pc'[x] \in {"hit", "prepared"} => x = c
    BY <1>a DEF IInv, TypeOK, LockInv
  <2>3. \A x \in Clients : x # c /\ pc[x] = "using" => held'[x] = held[x] /\ held[x] # d
    BY <1>a DEF IInv, TypeOK, HitInv
  <2> QED BY <1>a, <2>1, <2>2, <2>3 DEF IInv, TypeOK, HitInv, Cached
<1>5. \A x \in Stmts : Users(x)' = IF x = d THEN Users(x) \cup {c} ELSE Users(x)
  BY <1>a DEF IInv, TypeOK, HitInv, CacheInv, Users, Cached
<1>6. d \in Stmts /\ c \notin Users(d) BY <1>a DEF IInv, TypeOK, HitInv, Users
<1>7. CountInv' BY <1>5, <1>6, UserCount, UsersType DEF IInv, TypeOK, CountInv
<1>8. ReapInv' BY <1>a, <1>5, <1>6 DEF IInv, TypeOK, ReapInv
<1> QED BY <1>1, <1>2, <1>3, <1>4, <1>7, <1>8 DEF IInv

\* A failed Prepare gives up the write lock and leaves nothing.
LEMMA PrepareFailsInv ==
  ASSUME IInv, NEW c \in Clients, PrepareFails(c)
  PROVE  IInv'
<1> USE StmtAssumption DEF StmtAssumption, PrepareFails, Goto, lruVars, stmtVars
<1>1. TypeOK' BY DEF IInv, TypeOK, PC
<1>2. LockInv' BY LockGiven DEF IInv, TypeOK
<1>3. CacheInv' BY DEF IInv, TypeOK, CacheInv, HitInv, Cached
<1>4. HitInv' BY DEF IInv, TypeOK, LockInv, CacheInv, HitInv, Cached
<1>5. \A x \in Stmts : Users(x)' = Users(x) BY DEF IInv, TypeOK, Users
<1>6. CountInv' BY <1>5 DEF IInv, CountInv
<1>7. ReapInv' BY <1>5 DEF IInv, TypeOK, ReapInv
<1> QED BY <1>1, <1>2, <1>3, <1>4, <1>6, <1>7 DEF IInv

\* Add evicts an entry that nobody is about to acquire, since nobody reads.
LEMMA AddToCacheInv ==
  ASSUME IInv, NEW c \in Clients, AddToCache(c)
  PROVE  IInv'
<1> USE StmtAssumption DEF StmtAssumption, AddToCache, Goto, lruVars, stmtVars
<1>1. TypeOK'
  <2>1. rank' \in [Queries -> 0 .. Limit]
    <3>1. ASSUME NEW p \in Queries PROVE PushFront(query[c])[p] \in 0 .. Limit
      <4>1. rank[p] \in 0 .. Limit /\ (p \notin Evicted(query[c]) => rank[p] # Limit) BY DEF IInv, TypeOK, Evicted
      <4>2. PushFront(query[c])[p] = IF p = query[c] THEN 1 ELSE IF rank[p] = 0 \/ p \in Evicted(query[c]) THEN 0 ELSE rank[p] + 1
        BY DEF PushFront
      <4> QED BY <4>1, <4>2
    <3> QED BY <3>1 DEF PushFront
  <2>2. reaper' \in [Stmts -> {"none", "waiting", "closing", "done"}] BY DEF IInv, TypeOK
  <2>3. cached' \in [Queries -> Stmts \cup {NoStmt}] BY DEF IInv, TypeOK
  <2> QED BY <2>1, <2>2, <2>3 DEF IInv, TypeOK, PC
<1>2. LockInv' BY LockGiven DEF IInv, TypeOK
<1>3. CacheInv' BY DEF IInv, TypeOK, CacheInv, HitInv, Cached, PushFront, Evicted
<1>4. HitInv'
  <2>1. \A x \in Clients : pc'[x] \in {"hit", "prepared"} => FALSE
    <3>1. pc \in [Clients -> PC] /\ pc' = [pc EXCEPT ![c] = "using"] BY DEF IInv, TypeOK
    <3>2. readers = {} /\ writer = {c} BY DEF IInv, LockInv
    <3>3. \A x \in Clients \ {c} : pc[x] \notin {"hit", "prepared"} BY <3>2 DEF IInv, LockInv
    <3> QED BY <3>1, <3>3
  <2> QED BY <2>1 DEF IInv, TypeOK, HitInv
<1>5. \A x \in Stmts : Users(x)' = Users(x) BY DEF IInv, TypeOK, Users
<1>6. CountInv' BY <1>5 DEF IInv, CountInv
<1>7. ReapInv'
  <2>1. \A p \in Evicted(query[c]) : stmt[cached[p]] = "open"
    BY DEF IInv, TypeOK, CacheInv, Evicted, Cached
  <2> QED BY <1>5, <2>1 DEF IInv, TypeOK, ReapInv
<1> QED BY <1>1, <1>2, <1>3, <1>4, <1>6, <1>7 DEF IInv

\* release(): one user less.
LEMMA ReleaseInv ==
  ASSUME IInv, NEW c \in Clients, Release(c)
  PROVE  IInv'
<1> USE StmtAssumption DEF StmtAssumption, Release, Goto, lruVars, stmtVars
<1>1. TypeOK'
  <2>1. held[c] \in Stmts /\ c \in Users(held[c]) BY DEF IInv, TypeOK, HitInv, Users
  <2>2. wg[held[c]] \in Nat /\ wg[held[c]] # 0
    BY <2>1, UserCount, UsersType DEF IInv, CountInv
  <2> QED BY <2>1, <2>2 DEF IInv, TypeOK, PC
<1>2. LockInv' BY DEF IInv, TypeOK, LockInv
<1>3. CacheInv' BY DEF IInv, TypeOK, CacheInv, HitInv, Cached
<1>4. HitInv' BY DEF IInv, TypeOK, LockInv, CacheInv, HitInv, Cached
<1>5. \A x \in Stmts : Users(x)' = IF x = held[c] THEN Users(x) \ {c} ELSE Users(x)
  BY DEF IInv, TypeOK, HitInv, CacheInv, Users, Cached
<1>6. held[c] \in Stmts /\ c \in Users(held[c]) BY DEF IInv, TypeOK, HitInv, CacheInv, Users, Cached
<1>7. CountInv' BY <1>5, <1>6, UserCount, UsersType DEF IInv, TypeOK, CountInv
<1>8. ReapInv' BY <1>5, <1>6 DEF IInv, TypeOK, ReapInv
<1> QED BY <1>1, <1>2, <1>3, <1>4, <1>7, <1>8 DEF IInv

\* Wait returns only without users, and nobody can become one.
LEMMA WaitReturnsInv ==
  ASSUME IInv, NEW d \in Stmts, WaitReturns(d)
  PROVE  IInv'
<1> USE StmtAssumption DEF StmtAssumption, WaitReturns, Goto, lruVars, stmtVars
<1>1. TypeOK' BY DEF IInv, TypeOK, PC
<1>2. LockInv' BY DEF IInv, TypeOK, LockInv
<1>3. CacheInv' BY DEF IInv, TypeOK, CacheInv, HitInv, Cached
<1>4. HitInv' BY DEF IInv, TypeOK, LockInv, CacheInv, HitInv, Cached
<1>5. \A x \in Stmts : Users(x)' = Users(x) BY DEF IInv, TypeOK, Users
<1>6. CountInv' BY <1>5 DEF IInv, CountInv
<1>7. ReapInv' BY <1>5, UserCount, UsersType DEF IInv, TypeOK, ReapInv, CountInv
<1> QED BY <1>1, <1>2, <1>3, <1>4, <1>6, <1>7 DEF IInv

\* What is closed is neither cached nor used.
LEMMA CloseStmtInv ==
  ASSUME IInv, NEW d \in Stmts, CloseStmt(d)
  PROVE  IInv'
<1> USE StmtAssumption DEF StmtAssumption, CloseStmt, Goto, lruVars, stmtVars
<1>1. TypeOK' BY DEF IInv, TypeOK, PC
<1>2. LockInv' BY DEF IInv, TypeOK, LockInv
<1>3. CacheInv' BY DEF IInv, TypeOK, CacheInv, HitInv, Cached
<1>4. HitInv'
  <2>1. \A x \in Clients : pc[x] \in {"hit", "prepared", "using"} => held[x] # d
    BY DEF IInv, TypeOK, HitInv, CacheInv, ReapInv, Users
  <2> QED BY <2>1 DEF IInv, TypeOK, HitInv, Cached
<1>5. \A x \in Stmts : Users(x)' = Users(x) BY DEF IInv, TypeOK, Users
<1>6. CountInv' BY <1>5 DEF IInv, CountInv
<1>7. ReapInv' BY <1>5 DEF IInv, TypeOK, ReapInv
<1> QED BY <1>1, <1>2, <1>3, <1>4, <1>6, <1>7 DEF IInv

\* A step that changes nothing.
LEMMA StutterInv == IInv /\ UNCHANGED vars => IInv'
<1> SUFFICES ASSUME IInv, UNCHANGED vars PROVE IInv' OBVIOUS
<1> USE DEF vars
<1>1. TypeOK' /\ LockInv' /\ CacheInv' /\ HitInv'
  BY DEF IInv, TypeOK, LockInv, CacheInv, HitInv, Cached
<1>2. \A d \in Stmts : Users(d)' = Users(d) BY DEF Users
<1>3. CountInv' /\ ReapInv' BY <1>2 DEF IInv, CountInv, ReapInv
<1> QED BY <1>1, <1>3 DEF IInv

\* The inductive invariant of the cache, for any clients, queries and limit.
THEOREM Invariance == Spec => []IInv
<1>1. IInv /\ [Next]_vars => IInv'
  <2> SUFFICES ASSUME IInv, [Next]_vars PROVE IInv' OBVIOUS
  <2>1. ASSUME NEW c \in Clients, Call(c) \/ Get(c) \/ Release(c) PROVE IInv'
    BY <2>1, CallInv, ReadLookupInv, AcquireHitInv, WriteLockInv, WriteHitInv,
       PrepareInv, PrepareFailsInv, AddToCacheInv, ReleaseInv DEF Get
  <2>2. ASSUME NEW d \in Stmts, WaitReturns(d) \/ CloseStmt(d) PROVE IInv'
    BY <2>2, WaitReturnsInv, CloseStmtInv
  <2> QED BY <2>1, <2>2, StutterInv DEF Next
<1> QED BY InitInv, <1>1, PTL DEF Spec

\* Type correctness; in particular no WaitGroup of a decorator goes negative.
THEOREM TypeCorrect == Spec => []TypeOK
BY Invariance, PTL DEF IInv

\* No statement is closed between the moment getStmtDecorator finds or
\* prepares it for a caller and the caller's release().
THEOREM UseSafety == Spec => []NoUseAfterClose
<1>1. IInv => NoUseAfterClose BY DEF IInv, HitInv, NoUseAfterClose
<1> QED BY <1>1, Invariance, PTL

\* Once destroy() waits for a decorator, no step acquires it: what a client
\* finds in the cache has no reaper, and stays there until it is acquired.
THEOREM EvictionIsFinal == Spec => NoAcquireAfterEviction
<1>1. ASSUME IInv, Next, NEW d \in Stmts, reaper[d] # "none" PROVE wg'[d] <= wg[d]
  <2> USE <1>1 DEF IInv, TypeOK
  <2>1. ASSUME NEW c \in Clients, AcquireHit(c) PROVE wg'[d] <= wg[d]
    BY <2>1 DEF AcquireHit, HitInv, CacheInv
  <2>2. ASSUME NEW c \in Clients, WriteHit(c) PROVE wg'[d] <= wg[d]
    BY <2>2 DEF WriteHit, CacheInv
  <2>3. ASSUME NEW c \in Clients, Prepare(c) PROVE wg'[d] <= wg[d]
    <3>1. PICK e \in Stmts : stmt[e] = "none" /\ wg' = [wg EXCEPT ![e] = @ + 1]
      BY <2>3 DEF Prepare
    <3> QED BY <3>1 DEF ReapInv
  <2>4. ASSUME NEW c \in Clients, Release(c) PROVE wg'[d] <= wg[d]
    BY <2>4 DEF Release, HitInv
  <2>5. ASSUME NEW c \in Clients,
               Call(c) \/ ReadLookup(c) \/ WriteLock(c) \/ PrepareFails(c) \/ AddToCache(c)
        PROVE  wg'[d] <= wg[d]
    BY <2>5 DEF Call, ReadLookup, WriteLock, PrepareFails, AddToCache, stmtVars
  <2>6. ASSUME NEW e \in Stmts, WaitReturns(e) \/ CloseStmt(e) PROVE wg'[d] <= wg[d]
    BY <2>6 DEF WaitReturns, CloseStmt
  <2> QED BY <2>1, <2>2, <2>3, <2>4, <2>5, <2>6 DEF Next, Get
<1>2. IInv /\ [Next]_vars =>
        [\A d \in Stmts : reaper[d] # "none" => wg'[d] <= wg[d]]_vars
  BY <1>1
<1> QED BY <1>2, Invariance, PTL DEF Spec, NoAcquireAfterEviction

\* Every open statement is in the cache, with its reaper, or with the client
\* that is about to add it, so that somebody closes it.
THEOREM NoLeak == Spec => []NoLeakedStmt
<1>1. Init => NoLeakedStmt BY DEF Init, NoLeakedStmt
<1>2. ASSUME IInv, NoLeakedStmt, [Next]_vars PROVE NoLeakedStmt'
  <2> USE <1>2 DEF IInv, TypeOK, NoLeakedStmt, Cached, Goto, lruVars, stmtVars
  <2>1. ASSUME NEW c \in Clients,
               Call(c) \/ WriteLock(c) \/ AcquireHit(c) \/ PrepareFails(c) \/ Release(c)
        PROVE  NoLeakedStmt'
    BY <2>1 DEF Call, WriteLock, AcquireHit, PrepareFails, Release
  <2>2. ASSUME NEW c \in Clients, ReadLookup(c) \/ WriteHit(c) PROVE NoLeakedStmt'
    <3>1. \A q \in Queries : rank[q] # 0 => rank'[q] # 0
      BY <2>2 DEF ReadLookup, WriteHit, Touch
    <3>2. \A x \in Clients : pc[x] = "prepared" => pc'[x] = "prepared" /\ held'[x] = held[x]
      BY <2>2 DEF ReadLookup, WriteHit
    <3>3. UNCHANGED <<cached, stmt, reaper>> BY <2>2 DEF ReadLookup, WriteHit
    <3> QED BY <3>1, <3>2, <3>3
  <2>3. ASSUME NEW c \in Clients, Prepare(c) PROVE NoLeakedStmt'
    <3>1. PICK e \in Stmts : stmt' = [stmt EXCEPT ![e] = "open"] /\ held' = [held EXCEPT ![c] = e]
      BY <2>3 DEF Prepare
    <3> QED BY <2>3, <3>1 DEF Prepare
  <2>4. ASSUME NEW c \in Clients, AddToCache(c) PROVE NoLeakedStmt'
    <3> SUFFICES ASSUME NEW d \in Stmts, stmt[d] = "open"
                 PROVE  \/ \E q \in Queries : rank'[q] # 0 /\ cached'[q] = d
                        \/ reaper'[d] \in {"waiting", "closing"}
      BY <2>4 DEF AddToCache
    <3>1. CASE \E x \in Clients : pc[x] = "prepared" /\ held[x] = d
      <4>1. PICK x \in Clients : pc[x] = "prepared" /\ held[x] = d BY <3>1
      <4>2. pc[c] = "prepared" BY <2>4 DEF AddToCache
      <4>3. writer = {c} /\ writer = {x} BY <4>1, <4>2 DEF LockInv
      <4>4. held[c] = d BY <4>1, <4>3
      <4> QED BY <2>4, <4>4 DEF AddToCache, PushFront
    <3>2. CASE reaper[d] \in {"waiting", "closing"}
      BY <2>4, <3>2 DEF AddToCache
    <3>3. ASSUME NEW q \in Queries, rank[q] # 0, cached[q] = d
          PROVE  \/ rank'[q] # 0 /\ cached'[q] = d
                 \/ reaper'[d] = "waiting"
      <4>1. q # query[c] BY <2>4, <3>3 DEF AddToCache, HitInv
      <4>2. CASE q \in Evicted(query[c]) BY <2>4, <3>3, <4>2 DEF AddToCache
      <4>3. CASE q \notin Evicted(query[c])
        BY <2>4, <3>3, <4>1, <4>3 DEF AddToCache, PushFront
      <4> QED BY <4>2, <4>3
    <3> QED BY <3>1, <3>2, <3>3
  <2>5. ASSUME NEW d \in Stmts, WaitReturns(d) \/ CloseStmt(d) PROVE NoLeakedStmt'
    BY <2>5 DEF WaitReturns, CloseStmt
  <2>6. CASE UNCHANGED vars BY <2>6 DEF vars
  <2> QED BY <2>1, <2>2, <2>3, <2>4, <2>5, <2>6 DEF Next, Get
<1> QED BY <1>1, <1>2, Invariance, PTL DEF Spec

-----------------------------------------------------------------------------
(* The recency list.                                                       *)

\* The places in the recency list are taken once each and without a gap.
RankInv ==
  /\ \A p, q \in Queries : Cached(p) /\ rank[p] = rank[q] => p = q
  /\ \A q \in Queries : \A i \in 1 .. rank[q] : \E p \in Queries : rank[p] = i

\* Get moves one key to the front and those before it back by one.
LEMMA TouchRanks ==
  ASSUME TypeOK, RankInv, NEW q \in Queries, Cached(q), rank' = Touch(q)
  PROVE  RankInv'
<1> USE DEF TypeOK, Cached
<1>1. \A p \in Queries : rank[p] \in Nat /\ rank'[p] = (IF p = q THEN 1
                                                        ELSE IF rank[p] # 0 /\ rank[p] < rank[q]
                                                        THEN rank[p] + 1 ELSE rank[p])
  BY StmtAssumption DEF Touch, StmtAssumption
<1>2. ASSUME NEW p \in Queries, NEW r \in Queries, rank'[p] # 0, rank'[p] = rank'[r] PROVE p = r
  BY <1>1, <1>2 DEF RankInv
<1>3. ASSUME NEW r \in Queries, NEW i \in 1 .. rank'[r] PROVE \E p \in Queries : rank'[p] = i
  <2>1. CASE i = 1 BY <1>1, <2>1
  <2>2. CASE i # 1 /\ i <= rank[q]
    <3>1. i - 1 \in 1 .. rank[q] BY <1>1, <2>2
    <3>2. PICK p \in Queries : rank[p] = i - 1 BY <3>1 DEF RankInv
    <3>3. rank'[p] = i BY <1>1, <2>2, <3>1, <3>2
    <3> QED BY <3>3
  <2>3. CASE i # 1 /\ i > rank[q]
    <3>1. i \in 1 .. rank[r] BY <1>1, <1>3, <2>3
    <3>2. PICK p \in Queries : rank[p] = i BY <3>1 DEF RankInv
    <3>3. rank'[p] = i BY <1>1, <2>3, <3>2
    <3> QED BY <3>3
  <2> QED BY <1>1, <2>1, <2>2, <2>3
<1> QED BY <1>2, <1>3 DEF RankInv

\* Add moves all keys back by one, and the one at the limit out.
LEMMA PushRanks ==
  ASSUME TypeOK, RankInv, NEW q \in Queries, ~Cached(q), rank' = PushFront(q)
  PROVE  RankInv'
<1> USE StmtAssumption DEF StmtAssumption, TypeOK, Cached
<1>1. \A p \in Queries : /\ rank[p] \in 0 .. Limit
                         /\ rank'[p] = (IF p = q THEN 1
                                        ELSE IF rank[p] = 0 \/ rank[p] = Limit THEN 0 ELSE rank[p] + 1)
  BY DEF PushFront, Evicted
<1>2. ASSUME NEW p \in Queries, NEW r \in Queries, rank'[p] # 0, rank'[p] = rank'[r] PROVE p = r
  BY <1>1, <1>2 DEF RankInv
<1>3. ASSUME NEW r \in Queries, NEW i \in 1 .. rank'[r] PROVE \E p \in Queries : rank'[p] = i
  <2>1. CASE i = 1 BY <1>1, <2>1
  <2>2. CASE i # 1
    <3>1. i - 1 \in 1 .. rank[r] /\ i - 1 < Limit BY <1>1, <1>3, <2>2
    <3>2. PICK p \in Queries : rank[p] = i - 1 BY <3>1 DEF RankInv
    <3>3. rank'[p] = i BY <1>1, <2>2, <3>1, <3>2
    <3> QED BY <3>3
  <2> QED BY <2>1, <2>2
<1> QED BY <1>2, <1>3 DEF RankInv

\* The cache keeps one open statement per query and the recency list has no
\* gaps and no place taken twice, so that it never exceeds its capacity.
THEOREM WellFormedness == Spec => []CacheWellFormed
<1>1. Init => RankInv BY DEF Init, RankInv, Cached
<1>2. ASSUME IInv, RankInv, [Next]_vars PROVE RankInv'
  <2>1. ASSUME NEW c \in Clients, ReadLookup(c) \/ WriteHit(c) PROVE RankInv'
    <3>1. CASE Cached(query[c]) /\ rank' = Touch(query[c])
      BY <1>2, <3>1, TouchRanks DEF IInv, TypeOK
    <3>2. CASE rank' = rank BY <1>2, <3>2 DEF RankInv, Cached
    <3> QED BY <2>1, <3>1, <3>2 DEF ReadLookup, WriteHit
  <2>2. ASSUME NEW c \in Clients, AddToCache(c) PROVE RankInv'
    <3>1. query[c] \in Queries /\ ~Cached(query[c]) /\ rank' = PushFront(query[c])
      BY <1>2, <2>2 DEF IInv, TypeOK, HitInv, AddToCache
    <3> QED BY <1>2, <3>1, PushRanks DEF IInv
  <2>3. ASSUME rank' = rank PROVE RankInv' BY <1>2, <2>3 DEF RankInv, Cached
  <2>4. ASSUME NEW c \in Clients,
               Call(c) \/ WriteLock(c) \/ AcquireHit(c) \/ Prepare(c) \/ PrepareFails(c) \/ Release(c)
        PROVE  RankInv'
    BY <2>3, <2>4 DEF Call, WriteLock, AcquireHit, Prepare, PrepareFails, Release, lruVars
  <2>5. ASSUME NEW d \in Stmts, WaitReturns(d) \/ CloseStmt(d) PROVE RankInv'
    BY <2>3, <2>5 DEF WaitReturns, CloseStmt, lruVars
  <2>6. CASE UNCHANGED vars BY <2>3, <2>6 DEF vars
  <2> QED BY <1>2, <2>1, <2>2, <2>4, <2>5, <2>6 DEF Next, Get
<1>3. IInv /\ RankInv => CacheWellFormed BY DEF IInv, CacheInv, RankInv, CacheWellFormed
<1> QED BY <1>1, <1>2, <1>3, Invariance, PTL DEF Spec

-----------------------------------------------------------------------------
(* The database, and what is stored in it.                                 *)

\* SetToSeq lists every element.
LEMMA SetToSeqList ==
  ASSUME NEW S, IsFiniteSet(S)
  PROVE  /\ SetToSeq(S) \in Seq(S)
         /\ \A x \in S : \E i \in DOMAIN SetToSeq(S) : SetToSeq(S)[i] = x
<1> DEFINE n == Cardinality(S)
<1>1. n \in Nat /\ ExistsBijection(1 .. n, S) BY FS_CardinalityType
<1>2. PICK f \in [1 .. n -> S] : IsInjective(f)
  BY <1>1 DEF ExistsBijection, Bijection, Injection, Surjection, IsInjective
<1>3. SetToSeq(S) \in [1 .. n -> S] /\ IsInjective(SetToSeq(S)) BY <1>2 DEF SetToSeq
<1>4. SetToSeq(S) \in Injection(1 .. n, S) BY <1>3 DEF Injection, IsInjective
<1>5. IsFiniteSet(1 .. n) /\ Cardinality(1 .. n) = n BY <1>1, FS_Interval
<1>6. SetToSeq(S) \in Surjection(1 .. n, S) BY <1>4, <1>5, FS_Injection
<1> HIDE DEF n
<1>7. SetToSeq(S) \in Seq(S) BY <1>1, <1>3
<1> QED BY <1>3, <1>6, <1>7 DEF Surjection

LEMMA DivBounds ==
  ASSUME NEW n \in Nat, NEW b \in Nat \ {0}
  PROVE  /\ n \div b \in Nat
         /\ (n \div b) * b <= n
         /\ n < (n \div b) * b + b
BY Z3

LEMMA Dist ==
  ASSUME NEW n \in Nat, NEW b \in Nat \ {0}
  PROVE  (n - 1) * b = n * b - b
OBVIOUS

LEMMA Mono ==
  ASSUME NEW n \in Nat, NEW m \in Nat, NEW b \in Nat \ {0}, m <= n
  PROVE  m * b <= n * b
OBVIOUS

\* What an operation may still have to send.
RowsOf(t) == Seq([pk : Pks[t] \cup {Null}, row : Row(t)])
Finding == [op : {"find", "clear"}, col : AllCols, args : SUBSET Nat]
Removing == [op : {"remove"}, on : Tables, args : SUBSET Nat]
Inserting == UNION {[op : {"insert"}, on : {t}, rows : RowsOf(t)] : t \in Tables}
Sql == Finding \cup Removing \cup Inserting \cup {[op |-> "errArgs"]}

\* An operation inserts, or it deletes; a column is cleared that is to be.
OneKind(s) ==
  \/ \A i \in DOMAIN s : s[i].op \in {"insert", "errArgs"}
  \/ \A i \in DOMAIN s : s[i].op \in {"find", "remove", "clear"}
ClearsRight(s) ==
  \A i \in DOMAIN s : s[i].op = "clear" => onDelete[s[i].col] \in {"set_null", "set_default"}
Sendable(s) == s \in Seq(Sql) /\ OneKind(s) /\ ClearsRight(s)

\* The statements InsertMulti has still to send hold the rows that are not
\* counted yet, b of them each, the last one what is left.
Remaining(s, r, b) ==
  /\ r \in Nat /\ r <= Len(s) * b /\ (Len(s) > 0 => (Len(s) - 1) * b < r)
  /\ \A i \in 1 .. Len(s) : Len(s[i].rows) = IF i < Len(s) THEN b ELSE r - (Len(s) - 1) * b
Counting(s, a, r) ==
  /\ a \in Nat
  /\ a > 0 => \A i \in DOMAIN s : s[i].op \in {"insert", "errArgs"}
  /\ a > 0 /\ s # <<>> => r[1] = "ok"
  /\ a > 0 /\ r[1] = "ok" /\ (\A i \in DOMAIN s : s[i].op = "insert") =>
       r[2] \in Nat /\ \E b \in Nat \ {0} : Remaining(s, a - r[2], b)

Stored ==
  /\ onDelete \in OnDeletes /\ \A k \in AllCols : onDelete[k] = "set_null" => k \in Nullable
  /\ Rows(db) /\ Rows(saved)
  /\ owner \in Ormers \cup {Free} /\ clean \in BOOLEAN /\ hurt \in BOOLEAN
Works ==
  /\ DOMAIN work = Ormers /\ DOMAIN result = Ormers /\ DOMAIN asked = Ormers
  /\ \A c \in Ormers : Sendable(work[c]) /\ Counting(work[c], asked[c], result[c])
CrudTypes == Stored /\ Works

LEMMA SqlFields ==
  ASSUME NEW w \in Sql
  PROVE  /\ w.op \in {"find", "clear", "remove", "insert", "errArgs"}
         /\ w.op \in {"find", "clear"} => w.col \in AllCols /\ w.args \in SUBSET Nat
         /\ w.op = "remove" => w.on \in Tables /\ w.args \in SUBSET Nat
         /\ w.op = "insert" => w.on \in Tables /\ w.rows \in RowsOf(w.on)
<1>1. CASE w \in Finding BY <1>1 DEF Finding
<1>2. CASE w \in Removing BY <1>2 DEF Removing
<1>3. CASE w \in Inserting
  <2>1. PICK t \in Tables : w \in [op : {"insert"}, on : {t}, rows : RowsOf(t)] BY <1>3 DEF Inserting
  <2> QED BY <2>1
<1>4. CASE w = [op |-> "errArgs"] BY <1>4
<1> QED BY <1>1, <1>2, <1>3, <1>4 DEF Sql

LEMMA SqlMade ==
  /\ \A k \in AllCols : \A args \in SUBSET Nat :
       /\ [op |-> "find", col |-> k, args |-> args] \in Sql
       /\ [op |-> "clear", col |-> k, args |-> args] \in Sql
  /\ \A t \in Tables : \A args \in SUBSET Nat : [op |-> "remove", on |-> t, args |-> args] \in Sql
  /\ \A t \in Tables : \A rs \in RowsOf(t) : [op |-> "insert", on |-> t, rows |-> rs] \in Sql
  /\ [op |-> "errArgs"] \in Sql
<1>1. ASSUME NEW k \in AllCols, NEW args \in SUBSET Nat
      PROVE  [op |-> "find", col |-> k, args |-> args] \in Finding /\ [op |-> "clear", col |-> k, args |-> args] \in Finding
  BY DEF Finding
<1>2. ASSUME NEW t \in Tables, NEW args \in SUBSET Nat PROVE [op |-> "remove", on |-> t, args |-> args] \in Removing
  BY DEF Removing
<1>3. ASSUME NEW t \in Tables, NEW rs \in RowsOf(t) PROVE [op |-> "insert", on |-> t, rows |-> rs] \in Inserting
  <2>1. [op |-> "insert", on |-> t, rows |-> rs] \in [op : {"insert"}, on : {t}, rows : RowsOf(t)] OBVIOUS
  <2> QED BY <2>1 DEF Inserting
<1> QED BY <1>1, <1>2, <1>3 DEF Sql

\* A column is in one table.
LEMMA HomeOf ==
  /\ \A k \in AllCols : Home(k) \in Tables /\ k \in Cols[Home(k)] /\ RefTo[k] \in Tables
  /\ \A t \in Tables : \A k \in Cols[t] : k \in AllCols /\ Home(k) = t
<1>1. ASSUME NEW k \in AllCols PROVE Home(k) \in Tables /\ k \in Cols[Home(k)]
  BY DEF AllCols, Home
<1>2. ASSUME NEW t \in Tables, NEW k \in Cols[t] PROVE k \in AllCols /\ Home(k) = t
  <2>1. k \in AllCols BY DEF AllCols
  <2> QED BY <2>1, <1>1, SchemaAssumption DEF SchemaAssumption
<1> QED BY <1>1, <1>2, SchemaAssumption DEF SchemaAssumption

LEMMA KeysAreNumbers ==
  ASSUME NEW d, Rows(d), NEW t \in Tables
  PROVE  DOMAIN d[t] \in SUBSET Nat /\ 0 \notin DOMAIN d[t] /\ Pks[t] \in SUBSET Nat
BY CrudAssumption DEF CrudAssumption, Rows, Null

\* The client of a step has new work, the others keep theirs.
LEMMA WorkStep ==
  ASSUME CrudTypes, NEW c \in Ormers, NEW s, Sendable(s), work' = [work EXCEPT ![c] = s], onDelete' = onDelete
  PROVE  /\ DOMAIN work' = Ormers /\ work'[c] = s
         /\ \A d \in Ormers : Sendable(work[d])' /\ (d # c => work'[d] = work[d])
BY DEF CrudTypes, Works, Sendable, ClearsRight, OneKind

\* A statement that is through leaves the others to be sent.
LEMMA TailSendable ==
  ASSUME NEW s, Sendable(s), s # <<>>
  PROVE  /\ Sendable(Tail(s)) /\ Head(s) \in Sql /\ Len(s) \in Nat \ {0}
         /\ Len(Tail(s)) = Len(s) - 1 /\ DOMAIN s = 1 .. Len(s) /\ DOMAIN Tail(s) = 1 .. Len(s) - 1
         /\ \A i \in 1 .. Len(s) - 1 : Tail(s)[i] = s[i + 1]
         /\ Head(s) = s[1]
<1>1. s \in Seq(Sql) BY DEF Sendable
<1>2. /\ Head(s) \in Sql /\ Len(s) \in Nat \ {0} /\ Tail(s) \in Seq(Sql) /\ Head(s) = s[1]
      /\ Len(Tail(s)) = Len(s) - 1 /\ DOMAIN s = 1 .. Len(s) /\ DOMAIN Tail(s) = 1 .. Len(s) - 1
  BY <1>1, HeadTailProperties, LenProperties, EmptySeq
<1>3. \A i \in 1 .. Len(s) - 1 : Tail(s)[i] = s[i + 1] /\ i + 1 \in DOMAIN s
  BY <1>1, <1>2, HeadTailProperties
<1>4. OneKind(Tail(s)) BY <1>2, <1>3 DEF OneKind, Sendable
<1>5. ClearsRight(Tail(s)) BY <1>2, <1>3 DEF ClearsRight, Sendable
<1> QED BY <1>2, <1>3, <1>4, <1>5 DEF Sendable

LEMMA EmptySendable == Sendable(<<>>) /\ Len(<<>>) = 0 /\ DOMAIN (<<>>) = {}
BY EmptySeq DEF Sendable, OneKind, ClearsRight

\* The statements deleteRels asks for.
RelsRight(t, args) ==
  /\ DeleteRels(t, args) \in Seq(Sql)
  /\ \A i \in DOMAIN DeleteRels(t, args) : LET w == DeleteRels(t, args)[i] IN
       /\ w.op \in {"find", "clear"} /\ (w.op = "clear" => onDelete[w.col] \in {"set_null", "set_default"})
       /\ w.op = "find" => w.col \in Fk(t, {"cascade"}) /\ w.args = args
  /\ \A k \in Fk(t, {"cascade"}) : \E i \in DOMAIN DeleteRels(t, args) :
       DeleteRels(t, args)[i] = [op |-> "find", col |-> k, args |-> args]
  /\ \A k \in Fk(t, {"set_null"}) : \E i \in DOMAIN DeleteRels(t, args) :
       DeleteRels(t, args)[i] = [op |-> "clear", col |-> k, args |-> args]

\* What deleteRels asks for.
LEMMA RelsSendable ==
  ASSUME CrudTypes, NEW t \in Tables, NEW args \in SUBSET Nat
  PROVE  RelsRight(t, args)
<1> DEFINE F == {[op |-> "find", col |-> k, args |-> args] : k \in Fk(t, {"cascade"})}
           C == {[op |-> "clear", col |-> k, args |-> args] : k \in Fk(t, {"set_null", "set_default"})}
           S == F \cup C
<1>1. IsFiniteSet(Fk(t, {"cascade"})) /\ IsFiniteSet(Fk(t, {"set_null", "set_default"}))
  BY FS_Subset, SchemaAssumption DEF SchemaAssumption, Fk
<1>2. IsFiniteSet(F)
  <2> DEFINE f == [k \in Fk(t, {"cascade"}) |-> [op |-> "find", col |-> k, args |-> args]]
  <2>1. f \in Surjection(Fk(t, {"cascade"}), F) BY DEF Surjection
  <2> QED BY <1>1, <2>1, FS_Surjection
<1>3. IsFiniteSet(C)
  <2> DEFINE f == [k \in Fk(t, {"set_null", "set_default"}) |-> [op |-> "clear", col |-> k, args |-> args]]
  <2>1. f \in Surjection(Fk(t, {"set_null", "set_default"}), C) BY DEF Surjection
  <2> QED BY <1>1, <2>1, FS_Surjection
<1>4. IsFiniteSet(S) BY <1>2, <1>3, FS_Union
<1>5. /\ DeleteRels(t, args) \in Seq(S)
      /\ \A x \in S : \E i \in DOMAIN DeleteRels(t, args) : DeleteRels(t, args)[i] = x
  BY <1>4, SetToSeqList DEF DeleteRels
<1>6. S \subseteq Sql BY SqlMade DEF Fk
<1>7. DeleteRels(t, args) \in Seq(Sql) BY <1>5, <1>6, SeqMonotonic
<1>8. \A i \in DOMAIN DeleteRels(t, args) : DeleteRels(t, args)[i] \in S BY <1>5, LenProperties, ElementOfSeq
<1>9. \A w \in S : /\ w.op \in {"find", "clear"} /\ (w.op = "clear" => onDelete[w.col] \in {"set_null", "set_default"})
                   /\ w.op = "find" => w.col \in Fk(t, {"cascade"}) /\ w.args = args
  BY DEF Fk
<1>10. \A k \in Fk(t, {"cascade"}) : [op |-> "find", col |-> k, args |-> args] \in S OBVIOUS
<1>11. \A k \in Fk(t, {"set_null"}) : [op |-> "clear", col |-> k, args |-> args] \in S BY DEF Fk
<1> HIDE DEF S, F, C
<1> QED BY <1>5, <1>7, <1>8, <1>9, <1>10, <1>11 DEF RelsRight

\* What an INSERT stores: the rows that were there and the new ones.
LEMMA Inserted ==
  ASSUME CrudTypes, NEW t \in Tables, NEW new \in RowsOf(t), InsertValue(t, new)
  PROVE  /\ Rows(db)'
         /\ \A u \in Tables \ {t} : db'[u] = db[u]
         /\ DOMAIN db[t] \subseteq DOMAIN db'[t]
         /\ \A p \in DOMAIN db'[t] : IF p \in DOMAIN db[t] THEN db'[t][p] = db[t][p]
                                     ELSE \E i \in DOMAIN new : db'[t][p] = new[i].row
<1>1. PICK keys \in [DOMAIN new -> Pks[t]] :
        /\ \A i \in DOMAIN new : CollectValues(t, new[i].row) /\ Conflicts(t, keys[i], new[i].row) = {}
        /\ db' = [db EXCEPT ![t] = [p \in Range(keys) \cup DOMAIN db[t] |->
                    IF p \in Range(keys) THEN new[CHOOSE i \in DOMAIN keys : keys[i] = p].row ELSE db[t][p]]]
  BY DEF InsertValue
<1> DEFINE rowOf(p) == new[CHOOSE i \in DOMAIN keys : keys[i] = p].row
           now == [p \in Range(keys) \cup DOMAIN db[t] |-> IF p \in Range(keys) THEN rowOf(p) ELSE db[t][p]]
<1>2. ASSUME NEW p \in Range(keys)
      PROVE  /\ p \in Pks[t] /\ p \notin DOMAIN db[t]
             /\ \E i \in DOMAIN new : rowOf(p) = new[i].row
             /\ Fitting(t, rowOf(p))
  <2> DEFINE j == CHOOSE i \in DOMAIN keys : keys[i] = p
  <2>1. j \in DOMAIN new /\ keys[j] = p BY DEF Range
  <2> HIDE DEF j
  <2>2. p \notin DOMAIN db[t] BY <1>1, <2>1 DEF Conflicts
  <2>3. new[j] \in [pk : Pks[t] \cup {Null}, row : Row(t)] BY <2>1, LenProperties, ElementOfSeq DEF RowsOf
  <2>4. Fitting(t, new[j].row) BY <1>1, <2>1, <2>3 DEF Fitting, CollectValues
  <2>5. rowOf(p) = new[j].row BY DEF j
  <2> QED BY <2>1, <2>2, <2>4, <2>5
<1>3. db' = [db EXCEPT ![t] = now] BY <1>1
<1>4. DOMAIN db = Tables /\ DOMAIN db' = Tables /\ \A u \in Tables \ {t} : db'[u] = db[u]
  BY <1>3 DEF CrudTypes, Stored, Rows
<1>5. db'[t] = now BY <1>3, <1>4
<1>6. /\ DOMAIN db'[t] = Range(keys) \cup DOMAIN db[t]
      /\ \A p \in DOMAIN db'[t] : db'[t][p] = IF p \in Range(keys) THEN rowOf(p) ELSE db[t][p]
  BY <1>5
<1> HIDE DEF rowOf, now
<1>7. Rows(db)' BY <1>2, <1>4, <1>6 DEF CrudTypes, Stored, Rows
<1> QED BY <1>2, <1>4, <1>6, <1>7

\* A step that loses no row and writes only references to rows there are.
Grows ==
  /\ \A u \in Tables : DOMAIN db[u] \subseteq DOMAIN db'[u]
  /\ \A u \in Tables : \A p \in DOMAIN db'[u] : \A k \in Cols[u] :
       \/ p \in DOMAIN db[u] /\ db'[u][p][k] = db[u][p][k]
       \/ db'[u][p][k] \in DOMAIN db[RefTo[k]] \cup {Null}

LEMMA InsertGrows ==
  ASSUME CrudTypes, NEW t \in Tables, NEW new \in RowsOf(t), InsertValue(t, new)
  PROVE  Rows(db)' /\ ((\A i \in DOMAIN new : \A k \in Cols[t] : new[i].row[k] \in DOMAIN db[RefTo[k]] \cup {Null}) => Grows)
BY Inserted DEF Grows

\* The keys Having finds are those of rows.
LEMMA HavingKeys ==
  ASSUME CrudTypes, NEW k \in AllCols, NEW vals
  PROVE  /\ Having(k, vals) \in SUBSET DOMAIN db[Home(k)] /\ Having(k, vals) \in SUBSET Nat
         /\ Having(k, vals) \in SUBSET Pks[Home(k)]
BY HomeOf, KeysAreNumbers DEF Having, CrudTypes, Stored, Rows

\* SET writes one column of some rows.
LEMMA SetShape ==
  ASSUME CrudTypes, NEW k \in AllCols, NEW vals, NEW v, SetWhere(k, vals, v)
  PROVE  /\ DOMAIN db' = Tables
         /\ \A u \in Tables : DOMAIN db'[u] = DOMAIN db[u]
         /\ \A u \in Tables : \A p \in DOMAIN db[u] : 
              IF u = Home(k) /\ p \in Having(k, vals) THEN db'[u][p] = [db[u][p] EXCEPT ![k] = v] ELSE db'[u][p] = db[u][p]
<1> DEFINE h == Home(k)
           f(p) == IF p \in Having(k, vals) THEN [db[h][p] EXCEPT ![k] = v] ELSE db[h][p]
<1>1. h \in Tables BY HomeOf
<1>2. DOMAIN db = Tables BY DEF CrudTypes, Stored, Rows
<1>3. db' = [db EXCEPT ![h] = [p \in DOMAIN db[h] |-> f(p)]] BY <1>1, <1>2 DEF SetWhere
<1>4. DOMAIN db' = Tables /\ db'[h] = [p \in DOMAIN db[h] |-> f(p)] /\ \A u \in Tables \ {h} : db'[u] = db[u]
  BY <1>1, <1>2, <1>3
<1> QED BY <1>4

LEMMA SetRows ==
  ASSUME CrudTypes, NEW k \in AllCols, NEW vals, NEW v, SetWhere(k, vals, v),
         v \in Pks[RefTo[k]] \/ (v = Null /\ k \in Nullable)
  PROVE  /\ Rows(db)'
         /\ \A u \in Tables : DOMAIN db'[u] = DOMAIN db[u]
         /\ \A u \in Tables : \A p \in DOMAIN db[u] : \A x \in Cols[u] :
              db'[u][p][x] = IF x = k /\ p \in Having(k, vals) THEN v ELSE db[u][p][x]
<1>1. ASSUME NEW u \in Tables, NEW p \in DOMAIN db[u]
      PROVE  /\ Fitting(u, db'[u][p])
             /\ \A x \in Cols[u] : db'[u][p][x] = IF x = k /\ p \in Having(k, vals) THEN v ELSE db[u][p][x]
  <2>1. db[u][p] \in Row(u) /\ \A x \in Cols[u] : db[u][p][x] = Null => x \in Nullable
    BY DEF CrudTypes, Stored, Rows, Fitting
  <2>2. CASE u = Home(k) /\ p \in Having(k, vals)
    <3>1. k \in Cols[u] BY <2>2, HomeOf
    <3>2. v \in {Null} \cup UNION {Pks[RefTo[x]] : x \in Cols[u]}
      <4>1. Pks[RefTo[k]] \in {Pks[RefTo[x]] : x \in Cols[u]} BY <3>1
      <4>2. Pks[RefTo[k]] \subseteq UNION {Pks[RefTo[x]] : x \in Cols[u]} BY <4>1, Zenon
      <4> QED BY <4>2, Zenon
    <3>3. db'[u][p] = [db[u][p] EXCEPT ![k] = v] BY <2>2, SetShape
    <3>4. db'[u][p] \in Row(u) BY <2>1, <3>1, <3>2, <3>3 DEF Row
    <3>5. \A x \in Cols[u] : db'[u][p][x] = IF x = k THEN v ELSE db[u][p][x] BY <2>1, <3>1, <3>3 DEF Row
    <3>6. v = Null => k \in Nullable BY HomeOf, CrudAssumption DEF CrudAssumption
    <3> QED BY <2>1, <2>2, <3>4, <3>5, <3>6 DEF Fitting
  <2>3. CASE ~(u = Home(k) /\ p \in Having(k, vals))
    <3>1. db'[u][p] = db[u][p]
      <4>1. IF u = Home(k) /\ p \in Having(k, vals) THEN db'[u][p] = [db[u][p] EXCEPT ![k] = v] ELSE db'[u][p] = db[u][p]
        BY SetShape
      <4> QED BY <2>3, <4>1
    <3>2. ASSUME NEW x \in Cols[u], x = k, p \in Having(k, vals) PROVE FALSE BY <2>3, <3>2, HomeOf
    <3> QED BY <2>1, <3>1, <3>2 DEF Fitting
  <2> QED BY <2>2, <2>3
<1>2. DOMAIN db' = Tables /\ \A u \in Tables : DOMAIN db'[u] = DOMAIN db[u] BY SetShape
<1>3. Rows(db)' BY <1>1, <1>2 DEF Rows, CrudTypes, Stored
<1> QED BY <1>1, <1>2, <1>3

\* DELETE takes rows and changes none.
Gone(t, pks) == db' = [db EXCEPT ![t] = Restrict(@, DOMAIN @ \ pks)]

LEMMA DeleteShape ==
  ASSUME CrudTypes, NEW t \in Tables, NEW pks, Gone(t, pks)
  PROVE  /\ Rows(db)'
         /\ \A u \in Tables : DOMAIN db'[u] = IF u = t THEN DOMAIN db[u] \ pks ELSE DOMAIN db[u]
         /\ \A u \in Tables : \A p \in DOMAIN db'[u] : db'[u][p] = db[u][p]
<1>1. DOMAIN db = Tables BY DEF CrudTypes, Stored, Rows
<1>2. DOMAIN db' = Tables /\ db'[t] = [p \in DOMAIN db[t] \ pks |-> db[t][p]] /\ \A u \in Tables \ {t} : db'[u] = db[u]
  BY <1>1 DEF Restrict, Gone
<1>3. /\ \A u \in Tables : DOMAIN db'[u] = IF u = t THEN DOMAIN db[u] \ pks ELSE DOMAIN db[u]
      /\ \A u \in Tables : \A p \in DOMAIN db'[u] : db'[u][p] = db[u][p]
  BY <1>2
<1>4. Rows(db)' BY <1>2, <1>3 DEF CrudTypes, Stored, Rows
<1> QED BY <1>3, <1>4

LEMMA ReturnWorks ==
  ASSUME CrudTypes, NEW c \in Ormers, NEW r, NEW n, Return(c, r, n), onDelete' = onDelete
  PROVE  Works' /\ work' = work
<1> USE DEF CrudTypes, Works, Return
<1>1. \A d \in Ormers : Sendable(work[d])' BY DEF Sendable, ClearsRight, OneKind
<1>2. \A d \in Ormers : Counting(work'[d], asked'[d], result'[d])
  <2>1. \A d \in Ormers : \/ result'[d] = result[d]
                          \/ asked'[d] = 0 /\ work'[d] = work[d]
    OBVIOUS
  <2> QED BY <2>1 DEF Counting
<1> QED BY <1>1, <1>2

LEMMA BeginsWorks ==
  ASSUME CrudTypes, NEW c \in Ormers, NEW s, Begins(c, s, 0), Sendable(s), onDelete' = onDelete
  PROVE  Works'
<1> USE DEF CrudTypes, Works, Begins
<1>1. /\ DOMAIN work' = Ormers /\ work'[c] = s
      /\ \A d \in Ormers : Sendable(work[d])' /\ (d # c => work'[d] = work[d])
  BY WorkStep
<1>2. \A d \in Ormers : Counting(work'[d], asked'[d], result'[d]) BY <1>1 DEF Counting
<1> QED BY <1>1, <1>2

\* A statement of a delete is followed by others.
LEMMA DeletingWorks ==
  ASSUME CrudTypes, NEW c \in Ormers, NEW s, work' = [work EXCEPT ![c] = s], Sendable(s), onDelete' = onDelete,
         \/ /\ asked' = asked /\ result' = result
            /\ \E i \in DOMAIN work[c] : work[c][i].op \notin {"insert", "errArgs"}
         \/ /\ asked' = [asked EXCEPT ![c] = 0] /\ \E r : result' = [result EXCEPT ![c] = r]
  PROVE  Works'
<1> USE DEF CrudTypes, Works
<1>1. /\ DOMAIN work' = Ormers /\ work'[c] = s
      /\ \A d \in Ormers : Sendable(work[d])' /\ (d # c => work'[d] = work[d])
  BY WorkStep
<1>2. ASSUME NEW d \in Ormers PROVE Counting(work'[d], asked'[d], result'[d])
  <2>1. d # c => asked'[d] = asked[d] /\ result'[d] = result[d] /\ work'[d] = work[d] BY <1>1
  <2>2. asked'[c] = 0 BY DEF Counting
  <2> QED BY <2>1, <2>2 DEF Counting
<1>3. DOMAIN asked' = Ormers /\ DOMAIN result' = Ormers OBVIOUS
<1> QED BY <1>1, <1>2, <1>3

\* A statement fails or is refused: nothing is left to do, and the error is
\* reported.
LEMMA FailedWorks ==
  ASSUME CrudTypes, NEW c \in Ormers, work' = [work EXCEPT ![c] = <<>>], onDelete' = onDelete, asked' = asked,
         NEW e, e # "ok", \E n : result' = [result EXCEPT ![c] = <<e, n>>]
  PROVE  Works'
<1> USE DEF CrudTypes, Works
<1>1. /\ DOMAIN work' = Ormers /\ work'[c] = <<>>
      /\ \A d \in Ormers : Sendable(work[d])' /\ (d # c => work'[d] = work[d])
  BY WorkStep, EmptySendable
<1>2. ASSUME NEW d \in Ormers PROVE Counting(work'[d], asked'[d], result'[d])
  <2>1. d # c => asked'[d] = asked[d] /\ result'[d] = result[d] /\ work'[d] = work[d] BY <1>1
  <2>2. asked'[c] = asked[c] /\ result'[c][1] # "ok" /\ DOMAIN work'[c] = {} BY <1>1, EmptySendable
  <2> QED BY <2>1, <2>2 DEF Counting
<1>3. DOMAIN asked' = Ormers /\ DOMAIN result' = Ormers OBVIOUS
<1> QED BY <1>1, <1>2, <1>3

\* A statement of InsertMulti is through: its rows are counted.
LEMMA CountedWorks ==
  ASSUME CrudTypes, NEW c \in Ormers, work[c] # <<>>, Head(work[c]).op = "insert", onDelete' = onDelete, asked' = asked,
         work' = [work EXCEPT ![c] = Tail(work[c])],
         result' = [result EXCEPT ![c] = <<"ok", result[c][2] + Len(Head(work[c]).rows)>>]
  PROVE  Works'
<1> USE DEF CrudTypes, Works
<1> DEFINE s == work[c]
<1>0. Sendable(s) OBVIOUS
<1>1. /\ Sendable(Tail(s)) /\ Head(s) \in Sql /\ Len(s) \in Nat \ {0}
      /\ Len(Tail(s)) = Len(s) - 1 /\ DOMAIN s = 1 .. Len(s) /\ DOMAIN Tail(s) = 1 .. Len(s) - 1
      /\ \A i \in 1 .. Len(s) - 1 : Tail(s)[i] = s[i + 1]
      /\ Head(s) = s[1]
  BY <1>0, TailSendable
<1>2. /\ DOMAIN work' = Ormers /\ work'[c] = Tail(s)
      /\ \A d \in Ormers : Sendable(work[d])' /\ (d # c => work'[d] = work[d])
  BY <1>1, WorkStep
<1>3. asked'[c] = asked[c] /\ result'[c] = <<"ok", result[c][2] + Len(s[1].rows)>> BY <1>1
<1> HIDE DEF s
<1>4. ASSUME asked[c] > 0 PROVE \A i \in DOMAIN Tail(s) : Tail(s)[i].op \in {"insert", "errArgs"}
  <2>1. \A i \in DOMAIN s : s[i].op \in {"insert", "errArgs"} BY <1>4 DEF Counting, s
  <2> QED BY <1>1, <2>1
<1>5. ASSUME asked[c] > 0, \A i \in DOMAIN Tail(s) : Tail(s)[i].op = "insert"
      PROVE  /\ result[c][2] + Len(s[1].rows) \in Nat
             /\ \E b \in Nat \ {0} : Remaining(Tail(s), asked[c] - (result[c][2] + Len(s[1].rows)), b)
  <2>1. \A i \in DOMAIN s : s[i].op = "insert"
    <3> TAKE i \in DOMAIN s
    <3>1. CASE i = 1 BY <3>1, <1>1 DEF s
    <3>2. CASE i # 1
      <4>1. i - 1 \in 1 .. Len(s) - 1 /\ i = (i - 1) + 1 BY <3>2, <1>1
      <4> QED BY <4>1, <1>1, <1>5
    <3> QED BY <3>1, <3>2
  <2>2. result[c][2] \in Nat /\ \E b \in Nat \ {0} : Remaining(s, asked[c] - result[c][2], b)
    BY <1>5, <2>1 DEF Counting, s
  <2>3. PICK b \in Nat \ {0} : Remaining(s, asked[c] - result[c][2], b) BY <2>2
  <2> DEFINE L == Len(s)  r == asked[c] - result[c][2]  m == Len(s[1].rows)
  <2>4. /\ r \in Nat /\ r <= L * b /\ (L - 1) * b < r /\ L \in Nat \ {0}
        /\ \A i \in 1 .. L : Len(s[i].rows) = IF i < L THEN b ELSE r - (L - 1) * b
    BY <2>3, <1>1 DEF Remaining
  <2>5. m = (IF 1 < L THEN b ELSE r - (L - 1) * b) /\ (L - 1) * b \in Nat
    <3>1. 1 \in 1 .. L /\ (L - 1) * b \in Nat BY <2>4
    <3> QED BY <2>4, <3>1
  <2>6. asked[c] \in Nat /\ asked[c] - (result[c][2] + m) = r - m
    <3>1. asked[c] \in Nat BY DEF Counting
    <3> HIDE DEF m, L
    <3>2. m \in Int BY <2>4, <2>5
    <3> QED BY <2>2, <3>1, <3>2
  <2>7. L = 1 => (L - 1) * b = 0 BY <2>4
  <2>8. L > 1 => (L - 1) * b = (L - 2) * b + b /\ (L - 2) * b \in Nat BY SMTT(30), <2>4
  <2>8a. L * b = (L - 1) * b + b BY <2>4
  <2>9. m \in Nat /\ r - m \in Nat /\ r - m <= (L - 1) * b /\ (L - 1 > 0 => (L - 2) * b < r - m)
    <3> HIDE DEF m, r, L
    <3>1. CASE L = 1 BY <2>4, <2>5, <2>7, <3>1
    <3>2. CASE L > 1 
      <4> DEFINE x == (L - 2) * b  y == (L - 1) * b  z == L * b
      <4>1. y = x + b /\ x \in Nat /\ z = y + b /\ m = b /\ r <= z /\ y < r BY <2>4, <2>5, <2>8, <2>8a, <3>2
      <4> HIDE DEF x, y, z
      <4>2. m \in Nat /\ r - m \in Nat /\ r - m <= y /\ x < r - m BY <4>1, <2>4
      <4> QED BY <4>2 DEF x, y
    <3> QED BY <3>1, <3>2, <2>4
  <2>10. \A i \in 1 .. L - 1 : Len(Tail(s)[i].rows) = IF i < L - 1 THEN b ELSE (r - m) - (L - 2) * b
    <3> TAKE i \in 1 .. L - 1
    <3>1. Tail(s)[i] = s[i + 1] /\ i + 1 \in 1 .. L BY <1>1
    <3>2. Len(s[i + 1].rows) = IF i + 1 < L THEN b ELSE r - (L - 1) * b BY <2>4, <3>1
    <3> HIDE DEF m, r, L
    <3>3. L > 1 /\ m = b BY <2>4, <2>5, <3>1
    <3> DEFINE x == (L - 2) * b  y == (L - 1) * b
    <3>4. y = x + b /\ x \in Nat BY <2>8, <3>3
    <3> HIDE DEF x, y
    <3>5. r - y = (r - m) - x BY <3>3, <3>4, <2>4
    <3>8. Len(Tail(s)[i].rows) = IF i + 1 < L THEN b ELSE r - y BY <3>1, <3>2 DEF y
    <3>9. i + 1 < L <=> i < L - 1 BY <3>1, <2>4
    <3>6. Len(Tail(s)[i].rows) = IF i < L - 1 THEN b ELSE r - y BY <3>8, <3>9
    <3>7. Len(Tail(s)[i].rows) = IF i < L - 1 THEN b ELSE (r - m) - x BY <3>5, <3>6
    <3> QED BY <3>7 DEF x
  <2>11. L - 1 = Len(Tail(s)) /\ L - 2 = Len(Tail(s)) - 1 BY <1>1
  <2>12. Remaining(Tail(s), r - m, b) BY <2>9, <2>10, <2>11 DEF Remaining
  <2>13. result[c][2] + m \in Nat BY <2>2, <2>9
  <2> HIDE DEF m, r
  <2> QED BY <2>6, <2>12, <2>13 DEF m
<1>6. Counting(work'[c], asked'[c], result'[c]) BY <1>2, <1>3, <1>4, <1>5 DEF Counting
<1>7. ASSUME NEW d \in Ormers, d # c PROVE Counting(work'[d], asked'[d], result'[d])
  <2>1. asked'[d] = asked[d] /\ result'[d] = result[d] /\ work'[d] = work[d] BY <1>2, <1>7
  <2> QED BY <2>1 DEF Counting
<1>8. DOMAIN asked' = Ormers /\ DOMAIN result' = Ormers OBVIOUS
<1> QED BY <1>2, <1>6, <1>7, <1>8

\* Every set of numbers has a smallest one.
LEMMA Smallest ==
  ASSUME NEW S \in SUBSET Nat, S # {}
  PROVE  \E d \in S : \A e \in S : d <= e
<1> DEFINE R == OpToRel(<, Nat)
<1>1. IsWellFoundedOn(R, Nat) BY NatLessThanWellFounded, Zenon
<1>2. \A x, y \in Nat : y < x => <<y, x>> \in R BY DEF OpToRel
<1> HIDE DEF R
<1>3. PICK d \in S : \A y \in S : ~(<<y, d>> \in R) BY <1>1, WFMin
<1>4. \A e \in S : ~(e < d) BY <1>2, <1>3
<1> QED BY <1>4

\* InsertMulti cuts its rows into statements of bulk rows, in order.
LEMMA ChunksRight ==
  ASSUME NEW t \in Tables, NEW new \in RowsOf(t), NEW b \in Nat \ {0}
  PROVE  LET s == Chunks(t, new, b) IN
         /\ s \in Seq(Sql)
         /\ \A i \in DOMAIN s :
              \/ s[i] = [op |-> "errArgs"]
              \/ /\ s[i].op = "insert" /\ s[i].on = t
                 /\ \A j \in DOMAIN s[i].rows : \E m \in DOMAIN new : s[i].rows[j] = new[m]
         /\ (\A i \in DOMAIN s : s[i].op = "insert") => Remaining(s, Len(new), b)
<1> DEFINE n == Len(new)
           bad == {i \in 1 .. n : b > 1 /\ (new[i].pk = Null) # (new[1].pk = Null)}
           first == CHOOSE i \in bad : \A j \in bad : i <= j
           full == IF bad = {} THEN (n + b - 1) \div b ELSE (first - 1) \div b
           part(i) == SubSeq(new, (i - 1) * b + 1, IF i * b < n THEN i * b ELSE n)
           stmt1(i) == [op |-> "insert", on |-> t, rows |-> part(i)]
           P == [i \in 1 .. full |-> stmt1(i)]
           R == IF bad = {} /\ n > 0 THEN <<>> ELSE <<[op |-> "errArgs"]>>
           s == P \o R
<1>1. n \in Nat /\ new \in Seq([pk : Pks[t] \cup {Null}, row : Row(t)]) /\ DOMAIN new = 1 .. n BY LenProperties DEF RowsOf
<1>2. Chunks(t, new, b) = s BY DEF Chunks
<1>3. bad \subseteq 1 .. n OBVIOUS
<1>4. bad # {} => first \in 1 .. n
  <2>1. bad \in SUBSET Nat BY <1>1
  <2> HIDE DEF bad
  <2>2. bad # {} => first \in bad BY <2>1, Smallest
  <2> QED BY <2>2, <1>3
<1> HIDE DEF first
<1>5. full \in Nat /\ \A i \in 1 .. full : (i - 1) * b < n
  <2> DEFINE num == IF bad = {} THEN n + b - 1 ELSE first - 1
  <2>1. num \in Nat /\ num <= n + b - 1 BY <1>1, <1>4
  <2>2. full = num \div b OBVIOUS
  <2> HIDE DEF num, full, bad
  <2>3. full \in Nat /\ full * b <= num BY <2>1, <2>2, DivBounds
  <2>4. ASSUME NEW i \in 1 .. full PROVE (i - 1) * b < n
    <3>1. i \in Nat /\ i <= full BY <2>3
    <3>2. i * b <= full * b BY <3>1, <2>3, Mono
    <3>3. (i - 1) * b = i * b - b BY <3>1, Dist
    <3>4. i * b \in Nat /\ full * b \in Nat BY <3>1, <2>3
    <3> DEFINE x == i * b  y == full * b
    <3>5. x \in Nat /\ y \in Nat /\ x <= y /\ y <= num BY <2>3, <3>2, <3>4
    <3> HIDE DEF x, y
    <3>6. x - b < n BY <3>5, <2>1, <1>1
    <3> QED BY <3>3, <3>6 DEF x
  <2> QED BY <2>3, <2>4
<1> HIDE DEF full
<1>6. ASSUME NEW i \in 1 .. full
      PROVE  /\ part(i) \in RowsOf(t)
             /\ \A j \in DOMAIN part(i) : \E m \in DOMAIN new : part(i)[j] = new[m]
             /\ Len(part(i)) = IF i * b < n THEN b ELSE n - (i - 1) * b
  <2> DEFINE lo == (i - 1) * b + 1  hi == IF i * b < n THEN i * b ELSE n
  <2>1. i \in Nat /\ (i - 1) * b \in Nat /\ i * b \in Nat /\ (i - 1) * b = i * b - b
    <3>1. i \in Nat /\ i - 1 \in Nat BY <1>5
    <3> QED BY <3>1, Dist
  <2>2. (i - 1) * b < n BY <1>5
  <2> DEFINE x == (i - 1) * b  y == i * b
  <2>3. x \in Nat /\ y \in Nat /\ x = y - b /\ x < n /\ lo = x + 1 /\ hi = IF y < n THEN y ELSE n BY <2>1, <2>2
  <2> HIDE DEF x, y, lo, hi
  <2>4. lo \in 1 .. n /\ hi \in 1 .. n /\ lo <= hi /\ hi - lo + 1 = IF y < n THEN b ELSE n - x
    <3> HIDE DEF n
    <3>1. n \in Nat BY <1>1
    <3>2. y = x + b BY <2>3
    <3>3. CASE y < n BY <2>3, <3>1, <3>2, <3>3
    <3>4. CASE ~(y < n) BY <2>3, <3>1, <3>2, <3>4
    <3> QED BY <3>3, <3>4
  <2> HIDE DEF n
  <2>5. lo \in 1 .. n + 1 /\ hi \in lo - 1 .. n BY <2>4, <1>1
  <2>6. /\ part(i) \in Seq([pk : Pks[t] \cup {Null}, row : Row(t)]) /\ Len(part(i)) = hi - lo + 1
        /\ \A j \in 1 .. hi - lo + 1 : part(i)[j] = new[lo + j - 1]
    <3>1. part(i) = SubSeq(new, lo, hi) BY DEF lo, hi
    <3> DEFINE E == [pk : Pks[t] \cup {Null}, row : Row(t)]
    <3>2. new \in Seq(E) /\ n = Len(new) BY <1>1 DEF n
    <3> HIDE DEF part, E
    <3>3. lo \in 1 .. Len(new) + 1 /\ hi \in lo - 1 .. Len(new) BY <2>5, <3>2
    <3>4. lo \in Int /\ hi \in Int /\ lo <= hi BY <2>4
    <3>5. \A k \in lo .. hi : new[k] \in E
      <4>1. \A k \in lo .. hi : k \in 1 .. Len(new) BY <2>4, <3>2
      <4> QED BY <4>1, <3>2, ElementOfSeq, LenProperties
    <3> QED BY <3>1, <3>4, <3>5, SubSeqProperties DEF E
  <2>7. DOMAIN part(i) = 1 .. hi - lo + 1 BY <2>6, LenProperties
  <2>8. \A j \in 1 .. hi - lo + 1 : lo + j - 1 \in 1 .. n BY <2>4, <1>1
  <2> HIDE DEF part
  <2>9. part(i) \in RowsOf(t) BY <2>6 DEF RowsOf
  <2>10. \A j \in DOMAIN part(i) : \E m \in DOMAIN new : part(i)[j] = new[m] BY <2>6, <2>7, <2>8, <1>1
  <2>11. Len(part(i)) = IF y < n THEN b ELSE n - x BY <2>4, <2>6
  <2> QED BY <2>9, <2>10, <2>11 DEF x, y
<1> HIDE DEF part
<1>7. \A i \in 1 .. full : stmt1(i) \in Sql BY <1>6, SqlMade
<1>8. P \in Seq(Sql) /\ Len(P) = full
  <2>1. P \in [1 .. full -> Sql] BY <1>7
  <2> QED BY <2>1, <1>5, LenProperties
<1>9. R \in Seq(Sql) /\ (R = <<>> \/ R = <<[op |-> "errArgs"]>>) BY SqlMade
<1>10. s \in Seq(Sql) /\ Len(s) = full + Len(R) /\ DOMAIN s = 1 .. full + Len(R)
       /\ \A i \in 1 .. full + Len(R) : s[i] = IF i <= full THEN P[i] ELSE R[i - full]
  BY <1>5, <1>8, <1>9, ConcatProperties, LenProperties
<1>11. Len(R) \in Nat /\ (R # <<>> => Len(R) = 1 /\ R[1] = [op |-> "errArgs"]) /\ (R = <<>> => Len(R) = 0)
  BY <1>9
<1> HIDE DEF R
<1>12. ASSUME NEW i \in DOMAIN s
       PROVE \/ s[i] = [op |-> "errArgs"]
             \/ /\ s[i].op = "insert" /\ s[i].on = t
                /\ \A j \in DOMAIN s[i].rows : \E m \in DOMAIN new : s[i].rows[j] = new[m]
  <2>1. CASE i <= full
    <3>1. i \in 1 .. full /\ s[i] = P[i] BY <2>1, <1>10, <1>5
    <3>2. P[i] = stmt1(i) BY <3>1
    <3>3. stmt1(i).op = "insert" /\ stmt1(i).on = t /\ stmt1(i).rows = part(i) OBVIOUS
    <3> HIDE DEF P, stmt1, s
    <3> QED BY <3>1, <3>2, <3>3, <1>6
  <2>2. CASE ~(i <= full)
    <3>1. i - full = 1 /\ s[i] = R[i - full] /\ R # <<>> BY <2>2, <1>5, <1>10, <1>11
    <3> QED BY <3>1, <1>11
  <2> QED BY <2>1, <2>2
<1>13. ASSUME \A i \in DOMAIN s : s[i].op = "insert" PROVE Remaining(s, n, b)
  <2>1. R = <<>>
    <3>1. SUFFICES ASSUME R # <<>> PROVE FALSE OBVIOUS
    <3>2. full + 1 \in DOMAIN s /\ s[full + 1] = R[1] BY <3>1, <1>5, <1>10, <1>11
    <3>3. s[full + 1].op = "insert" BY <3>2, <1>13
    <3> HIDE DEF s
    <3> QED BY <3>1, <3>2, <3>3, <1>11
  <2>2. bad = {} /\ n > 0 BY <2>1 DEF R
  <2> HIDE DEF bad
  <2>3. Len(s) = full BY <2>1, <1>5, <1>10, <1>11
  <2>4. full = (n + b - 1) \div b BY <2>2 DEF full
  <2>5. n + b - 1 < full * b + b BY <2>4, <1>1, DivBounds
  <2>6. n <= full * b
    <3> DEFINE y == full * b
    <3>1. y \in Nat /\ n + b - 1 < y + b BY <2>5, <1>5
    <3> HIDE DEF y
    <3>2. n <= y BY <3>1, <1>1
    <3> QED BY <3>2 DEF y
  <2>7. full > 0 => (full - 1) * b < n BY <1>5
  <2>8. ASSUME NEW i \in 1 .. full
        PROVE  Len(s[i].rows) = IF i < full THEN b ELSE n - (full - 1) * b
    <3>1. s[i] = stmt1(i) /\ stmt1(i).rows = part(i) BY <1>5, <1>10, <1>11
    <3> HIDE DEF s, stmt1
    <3>2. Len(s[i].rows) = IF i * b < n THEN b ELSE n - (i - 1) * b
      <4>1. Len(part(i)) = IF i * b < n THEN b ELSE n - (i - 1) * b BY <1>6
      <4>2. s[i].rows = part(i) BY <3>1
      <4> QED BY <4>1, <4>2, Zenon
    <3>3. CASE i < full
      <4>1. i + 1 \in 1 .. full /\ (i + 1) - 1 = i BY <3>3, <1>5
      <4>2. i * b < n BY <4>1, <1>5
      <4> QED BY <3>2, <3>3, <4>2
    <3>4. CASE i = full
      <4>1. ~(i * b < n) 
        <5> DEFINE y == full * b
        <5>1. y \in Nat /\ n <= y /\ i * b = y BY <3>4, <2>6, <1>5
        <5> HIDE DEF y
        <5> QED BY <5>1, <1>1
      <4>2. Len(s[i].rows) = n - (i - 1) * b BY <3>2, <4>1
      <4>3. ~(i < full) BY <3>4, <1>5
      <4> QED BY <3>4, <4>2, <4>3, Zenon
    <3> QED BY <3>3, <3>4, <1>5
  <2> HIDE DEF s
  <2> QED BY <2>3, <2>6, <2>7, <2>8, <1>1 DEF Remaining
<1> HIDE DEF s, n
<1> QED BY <1>2, <1>10, <1>12, <1>13 DEF n

\* What a delete sends: no INSERT, and a column is cleared that is to be.
Deleting(s) ==
  /\ s \in Seq(Sql)
  /\ \A i \in DOMAIN s : /\ s[i].op \in {"find", "remove", "clear"}
                         /\ s[i].op = "clear" => onDelete[s[i].col] \in {"set_null", "set_default"}

LEMMA DeletingSendable ==
  ASSUME NEW s, Deleting(s)
  PROVE  Sendable(s)
BY DEF Deleting, Sendable, OneKind, ClearsRight

\* A delete that sent a statement is one still.
LEMMA DeletingOnward ==
  ASSUME NEW s, Sendable(s), s # <<>>, Head(s).op \in {"find", "remove", "clear"}
  PROVE  Deleting(s) /\ Deleting(Tail(s)) /\ \E i \in DOMAIN s : s[i].op \notin {"insert", "errArgs"}
<1>1. /\ Sendable(Tail(s)) /\ Head(s) \in Sql /\ Len(s) \in Nat \ {0}
      /\ Len(Tail(s)) = Len(s) - 1 /\ DOMAIN s = 1 .. Len(s) /\ DOMAIN Tail(s) = 1 .. Len(s) - 1
      /\ \A i \in 1 .. Len(s) - 1 : Tail(s)[i] = s[i + 1]
      /\ Head(s) = s[1]
  BY TailSendable
<1>2. 1 \in DOMAIN s BY <1>1
<1>3. Deleting(s) BY <1>1, <1>2 DEF Deleting, Sendable, OneKind, ClearsRight
<1>4. \A i \in DOMAIN Tail(s) : \E j \in DOMAIN s : Tail(s)[i] = s[j] BY <1>1
<1>5. Deleting(Tail(s)) BY <1>1, <1>3, <1>4 DEF Deleting, Sendable
<1> QED BY <1>1, <1>2, <1>3, <1>5

\* The statements s are among the statements q.
Within(s, q) == \A i \in DOMAIN s : \E j \in DOMAIN q : q[j] = s[i]

LEMMA DeletingConcat ==
  ASSUME NEW s, NEW r, Deleting(s), Deleting(r)
  PROVE  Deleting(s \o r) /\ Within(s, s \o r) /\ Within(r, s \o r)
<1>1. /\ s \in Seq(Sql) /\ r \in Seq(Sql) /\ s \o r \in Seq(Sql)
      /\ Len(s) \in Nat /\ Len(r) \in Nat /\ Len(s \o r) = Len(s) + Len(r)
      /\ DOMAIN s = 1 .. Len(s) /\ DOMAIN r = 1 .. Len(r) /\ DOMAIN (s \o r) = 1 .. Len(s) + Len(r)
      /\ \A i \in 1 .. Len(s) + Len(r) : (s \o r)[i] = IF i <= Len(s) THEN s[i] ELSE r[i - Len(s)]
  BY ConcatProperties, LenProperties DEF Deleting
<1>2. \A i \in DOMAIN s : i \in DOMAIN (s \o r) /\ (s \o r)[i] = s[i] BY <1>1
<1>3. ASSUME NEW i \in DOMAIN r PROVE \E j \in DOMAIN (s \o r) : (s \o r)[j] = r[i]
  <2>1. i + Len(s) \in DOMAIN (s \o r) /\ (s \o r)[i + Len(s)] = r[i] BY <1>1
  <2> QED BY <2>1
<1>4. ASSUME NEW i \in DOMAIN (s \o r)
      PROVE (\E j \in DOMAIN s : (s \o r)[i] = s[j]) \/ (\E j \in DOMAIN r : (s \o r)[i] = r[j])
  <2>1. CASE i <= Len(s) BY <2>1, <1>1
  <2>2. CASE ~(i <= Len(s))
    <3>1. i - Len(s) \in DOMAIN r /\ (s \o r)[i] = r[i - Len(s)] BY <2>2, <1>1
    <3> QED BY <3>1
  <2> QED BY <2>1, <2>2
<1>5. Deleting(s \o r) BY <1>1, <1>4 DEF Deleting
<1>6. Within(s, s \o r) BY <1>2 DEF Within
<1>7. Within(r, s \o r) BY <1>3 DEF Within
<1> QED BY <1>5, <1>6, <1>7

LEMMA DeletingEmpty == Deleting(<<>>)
BY EmptySeq DEF Deleting

LEMMA DeletingOne ==
  ASSUME NEW w \in Sql, w.op \in {"find", "remove"}
  PROVE  Deleting(<<w>>) /\ DOMAIN (<<w>>) = {1} /\ (<<w>>)[1] = w
BY DEF Deleting

\* The statements deleteRels asks for are among the statements s.
RelsIn(s, t, args) ==
  /\ \A k \in Fk(t, {"cascade"}) : \E j \in DOMAIN s : s[j] = [op |-> "find", col |-> k, args |-> args]
  /\ \A k \in Fk(t, {"set_null"}) : \E j \in DOMAIN s : s[j] = [op |-> "clear", col |-> k, args |-> args]

\* A DELETE and what deleteRels asks for after it.
LEMMA DeleteRowsWorks ==
  ASSUME CrudTypes, NEW c \in Ormers, NEW t \in Tables, NEW pks, NEW args \in SUBSET Nat, NEW rest, Deleting(rest),
         DeleteRows(c, t, pks, args, rest)
  PROVE  /\ Rows(db)'
         /\ \E s : /\ work' = [work EXCEPT ![c] = s] /\ Deleting(s) /\ Within(rest, s)
                   /\ pks # {} => RelsIn(s, t, args)
<1> DEFINE a == IF pks = {} THEN <<>> ELSE DeleteRels(t, args)
<1>0. Gone(t, pks) BY Zenon DEF DeleteRows, Gone
<1>1. Rows(db)' BY <1>0, DeleteShape
<1>2. work' = [work EXCEPT ![c] = a \o rest] BY DEF DeleteRows
<1>r. RelsRight(t, args) BY RelsSendable
<1>3. /\ DeleteRels(t, args) \in Seq(Sql)
      /\ \A i \in DOMAIN DeleteRels(t, args) : LET w == DeleteRels(t, args)[i] IN
              /\ w.op \in {"find", "clear"} /\ (w.op = "clear" => onDelete[w.col] \in {"set_null", "set_default"})
              /\ w.op = "find" => w.col \in Fk(t, {"cascade"}) /\ w.args = args
      /\ \A k \in Fk(t, {"cascade"}) : \E i \in DOMAIN DeleteRels(t, args) :
              DeleteRels(t, args)[i] = [op |-> "find", col |-> k, args |-> args]
      /\ \A k \in Fk(t, {"set_null"}) : \E i \in DOMAIN DeleteRels(t, args) :
              DeleteRels(t, args)[i] = [op |-> "clear", col |-> k, args |-> args]
  BY <1>r DEF RelsRight
<1>4. Deleting(DeleteRels(t, args)) BY <1>3 DEF Deleting
<1>5. Deleting(a) BY <1>4, DeletingEmpty
<1>6. pks # {} => a = DeleteRels(t, args) OBVIOUS
<1> HIDE DEF a
<1> DEFINE s == a \o rest
<1>7. Deleting(s) /\ Within(a, s) /\ Within(rest, s) BY <1>5, DeletingConcat
<1> HIDE DEF s
<1>8. ASSUME pks # {}
      PROVE  RelsIn(s, t, args)
  <2>1. \A i \in DOMAIN DeleteRels(t, args) : \E j \in DOMAIN s : s[j] = DeleteRels(t, args)[i] BY <1>6, <1>7, <1>8 DEF Within
  <2>2. ASSUME NEW k \in Fk(t, {"cascade"}) PROVE \E j \in DOMAIN s : s[j] = [op |-> "find", col |-> k, args |-> args]
    BY <1>3, <2>1
  <2>3. ASSUME NEW k \in Fk(t, {"set_null"}) PROVE \E j \in DOMAIN s : s[j] = [op |-> "clear", col |-> k, args |-> args]
    BY <1>3, <2>1
  <2> QED BY <2>2, <2>3 DEF RelsIn
<1>9. work' = [work EXCEPT ![c] = s] BY <1>2 DEF s
<1> QED BY <1>1, <1>7, <1>8, <1>9

LEMMA DeleteByTypes ==
  ASSUME CrudTypes, NEW c \in Ormers, NEW t \in Tables, NEW pks, NEW args \in SUBSET Nat, DeleteBy(c, t, pks, args), onDelete' = onDelete
  PROVE  Rows(db)' /\ Works'
<1>1. DeleteRows(c, t, pks, args, <<>>) /\ asked' = [asked EXCEPT ![c] = 0] /\ \E r : result' = [result EXCEPT ![c] = r] BY DEF DeleteBy
<1>2. Rows(db)' /\ \E s : work' = [work EXCEPT ![c] = s] /\ Deleting(s) BY <1>1, DeletingEmpty, DeleteRowsWorks
<1>3. PICK s : work' = [work EXCEPT ![c] = s] /\ Deleting(s) BY <1>2
<1>4. Works' BY <1>1, <1>3, DeletingSendable, DeletingWorks
<1> QED BY <1>2, <1>4
-----------------------------------------------------------------------------
LEMMA UnwrittenStored ==
  ASSUME CrudTypes, Unwritten
  PROVE  Stored' /\ onDelete' = onDelete
BY DEF CrudTypes, Stored, Rows, Unwritten, txVars, Fitting, Row

LEMMA WrittenStored ==
  ASSUME CrudTypes, NEW c, Written(c), Rows(db)'
  PROVE  Stored' /\ onDelete' = onDelete
BY DEF CrudTypes, Stored, Written, txVars

LEMMA SameRows ==
  ASSUME CrudTypes, UNCHANGED db
  PROVE  Rows(db)'
BY DEF CrudTypes, Stored

\* What an application hands over are rows of the model.
LEMMA GivenRows ==
  ASSUME CrudTypes, NEW t \in Tables
  PROVE  /\ \A row \in Given(t) : \A x \in Pks[t] \cup {Null} : <<[pk |-> x, row |-> row]>> \in RowsOf(t)
         /\ \A a, b \in Given(t) : <<[pk |-> Null, row |-> a], [pk |-> Null, row |-> b]>> \in RowsOf(t)
         /\ \A row \in Given(t) : row \in Row(t) /\ \A k \in Cols[t] : row[k] \in DOMAIN db[RefTo[k]] \cup {Null}
BY DEF Given, RowsOf

LEMMA ReadTypes ==
  ASSUME CrudTypes, NEW c \in Ormers, NEW t \in Tables, Read(c, t)
  PROVE  CrudTypes'
<1>1. Unwritten /\ \E r, n : Return(c, r, n) BY DEF Read
<1> QED BY <1>1, UnwrittenStored, ReturnWorks DEF CrudTypes

LEMMA InserterTypes ==
  ASSUME CrudTypes, NEW c \in Ormers, InserterClosed(c) \/ InserterClose(c)
  PROVE  CrudTypes'
<1>1. (\E r, n : Return(c, r, n)) /\ UNCHANGED <<onDelete, db, txVars, clean, hurt>>
  BY DEF InserterClosed, InserterClose, Unwritten
<1>2. Stored' BY <1>1 DEF CrudTypes, Stored, txVars
<1>3. Works' BY <1>1, ReturnWorks
<1> QED BY <1>2, <1>3 DEF CrudTypes

LEMMA ReadOrCreateTypes ==
  ASSUME CrudTypes, NEW c \in Ormers, NEW k \in AllCols, ReadOrCreate(c, k)
  PROVE  CrudTypes'
<1>1. Unwritten BY DEF ReadOrCreate
<1>2. Stored' /\ onDelete' = onDelete BY <1>1, UnwrittenStored
<1>3. PICK row \in Given(Home(k)) :
         \/ \E r, n : Return(c, r, n)
         \/ Begins(c, <<[op |-> "insert", on |-> Home(k), rows |-> <<[pk |-> Null, row |-> row]>>]>>, 0)
  BY DEF ReadOrCreate
<1> DEFINE w == [op |-> "insert", on |-> Home(k), rows |-> <<[pk |-> Null, row |-> row]>>]
<1>4. w \in Sql BY HomeOf, GivenRows, SqlMade
<1>5. w.op = "insert" OBVIOUS
<1>6. Begins(c, <<w>>, 0) \/ \E r, n : Return(c, r, n) BY <1>3
<1> HIDE DEF w
<1>7. Sendable(<<w>>) BY <1>4, <1>5 DEF Sendable, OneKind, ClearsRight
<1>8. Works' BY <1>2, <1>6, <1>7, ReturnWorks, BeginsWorks
<1> QED BY <1>2, <1>8 DEF CrudTypes

LEMMA InsertMultiTypes ==
  ASSUME CrudTypes, NEW c \in Ormers, InsertMulti(c)
  PROVE  CrudTypes'
<1>1. Unwritten BY DEF InsertMulti
<1>2. Stored' /\ onDelete' = onDelete BY <1>1, UnwrittenStored
<1>3. PICK b \in Batches : Begins(c, Chunks(b.on, b.rows, b.bulk), Len(b.rows)) BY DEF InsertMulti
<1>4. b.on \in Tables /\ b.bulk \in Nat \ {0} /\ b.rows \in RowsOf(b.on) BY InputAssumption DEF InputAssumption, RowsOf
<1> DEFINE s == Chunks(b.on, b.rows, b.bulk)  n == Len(b.rows)
<1>5. /\ s \in Seq(Sql)
      /\ \A i \in DOMAIN s : s[i] = [op |-> "errArgs"] \/ s[i].op = "insert"
      /\ (\A i \in DOMAIN s : s[i].op = "insert") => Remaining(s, n, b.bulk)
  BY <1>4, ChunksRight
<1>6. n \in Nat BY <1>4, LenProperties DEF RowsOf
<1>7. Begins(c, s, n) BY <1>3
<1> HIDE DEF s, n
<1>8. \A i \in DOMAIN s : s[i].op \in {"insert", "errArgs"} BY <1>5
<1>9. Sendable(s) BY <1>5, <1>8 DEF Sendable, OneKind, ClearsRight
<1>10. /\ DOMAIN work' = Ormers /\ work'[c] = s
       /\ \A d \in Ormers : Sendable(work[d])' /\ (d # c => work'[d] = work[d])
  BY <1>2, <1>7, <1>9, WorkStep DEF Begins
<1>11. DOMAIN asked' = Ormers /\ DOMAIN result' = Ormers /\ asked'[c] = n /\ result'[c] = <<"ok", 0>>
       /\ \A d \in Ormers : d # c => asked'[d] = asked[d] /\ result'[d] = result[d]
  BY <1>7 DEF Begins, CrudTypes, Works
<1>12. Counting(s, n, <<"ok", 0>>)
  <2>1. n - 0 = n BY <1>6
  <2> QED BY <1>4, <1>5, <1>6, <1>8, <2>1 DEF Counting
<1>13. \A d \in Ormers : Counting(work'[d], asked'[d], result'[d]) BY <1>10, <1>11, <1>12 DEF CrudTypes, Works
<1>14. Works' BY <1>10, <1>11, <1>13 DEF Works
<1> QED BY <1>2, <1>14 DEF CrudTypes

\* UPDATE of one row.
Put(t, p, row) == db' = [db EXCEPT ![t][p] = row]

LEMMA PutShape ==
  ASSUME CrudTypes, NEW t \in Tables, NEW p \in DOMAIN db[t], NEW row, Fitting(t, row), Put(t, p, row)
  PROVE  /\ Rows(db)'
         /\ \A u \in Tables : DOMAIN db'[u] = DOMAIN db[u]
         /\ \A u \in Tables : \A q \in DOMAIN db[u] : db'[u][q] = IF u = t /\ q = p THEN row ELSE db[u][q]
<1>1. DOMAIN db = Tables BY DEF CrudTypes, Stored, Rows
<1>2. DOMAIN db' = Tables /\ db'[t] = [db[t] EXCEPT ![p] = row] /\ \A u \in Tables \ {t} : db'[u] = db[u] BY <1>1 DEF Put
<1>3. DOMAIN db'[t] = DOMAIN db[t] /\ \A q \in DOMAIN db[t] : db'[t][q] = IF q = p THEN row ELSE db[t][q] BY <1>2
<1>4. /\ \A u \in Tables : DOMAIN db'[u] = DOMAIN db[u]
      /\ \A u \in Tables : \A q \in DOMAIN db[u] : db'[u][q] = IF u = t /\ q = p THEN row ELSE db[u][q]
  BY <1>2, <1>3
<1>5. Rows(db)' BY <1>2, <1>4 DEF CrudTypes, Stored, Rows
<1> QED BY <1>4, <1>5

LEMMA SameGrows ==
  ASSUME CrudTypes, UNCHANGED db
  PROVE  Rows(db)' /\ Grows
BY DEF CrudTypes, Stored, Grows

LEMMA InsertWrites ==
  ASSUME CrudTypes, NEW c \in Ormers, NEW t \in Tables, Insert(c, t)
  PROVE  Written(c) /\ Rows(db)' /\ Grows /\ \E r, n : Return(c, r, n)
<1>1. Written(c) /\ (\E r, n : Return(c, r, n))
      /\ \/ UNCHANGED db
         \/ \E x \in Pks[t] \cup {Null}, row \in Given(t) : InsertValue(t, <<[pk |-> x, row |-> row]>>)
  BY DEF Insert
<1>2. ASSUME NEW x \in Pks[t] \cup {Null}, NEW row \in Given(t), InsertValue(t, <<[pk |-> x, row |-> row]>>)
      PROVE  Rows(db)' /\ Grows
  <2> DEFINE new == <<[pk |-> x, row |-> row]>>
  <2>1. new \in RowsOf(t) BY GivenRows
  <2>2. \A i \in DOMAIN new : \A k \in Cols[t] : new[i].row[k] \in DOMAIN db[RefTo[k]] \cup {Null} BY GivenRows
  <2>3. InsertValue(t, new) BY <1>2
  <2> HIDE DEF new
  <2> QED BY <2>1, <2>2, <2>3, InsertGrows
<1> QED BY <1>1, <1>2, SameGrows

LEMMA AddM2MWrites ==
  ASSUME CrudTypes, NEW c \in Ormers, NEW t \in Tables, AddM2M(c, t)
  PROVE  Written(c) /\ Rows(db)' /\ Grows /\ \E r, n : Return(c, r, n)
<1>1. Written(c) /\ (\E r, n : Return(c, r, n))
      /\ \/ UNCHANGED db
         \/ \E a, b \in Given(t) : InsertValue(t, <<[pk |-> Null, row |-> a], [pk |-> Null, row |-> b]>>)
  BY DEF AddM2M
<1>2. ASSUME NEW a \in Given(t), NEW b \in Given(t), InsertValue(t, <<[pk |-> Null, row |-> a], [pk |-> Null, row |-> b]>>)
      PROVE  Rows(db)' /\ Grows
  <2> DEFINE new == <<[pk |-> Null, row |-> a], [pk |-> Null, row |-> b]>>
  <2>1. new \in RowsOf(t) BY GivenRows
  <2>2. \A i \in DOMAIN new : new[i].row \in Given(t) OBVIOUS
  <2>3. InsertValue(t, new) BY <1>2
  <2> HIDE DEF new
  <2>4. \A i \in DOMAIN new : \A k \in Cols[t] : new[i].row[k] \in DOMAIN db[RefTo[k]] \cup {Null} BY <2>2, GivenRows
  <2> QED BY <2>1, <2>3, <2>4, InsertGrows
<1> QED BY <1>1, <1>2, SameGrows

LEMMA InsertOrUpdateWrites ==
  ASSUME CrudTypes, NEW c \in Ormers, NEW t \in Tables, InsertOrUpdate(c, t)
  PROVE  Written(c) /\ Rows(db)' /\ Grows /\ \E r, n : Return(c, r, n)
<1>1. Written(c) /\ (\E r, n : Return(c, r, n)) BY DEF InsertOrUpdate
<1>2. PICK row \in Given(t) :
         \/ UNCHANGED db
         \/ InsertValue(t, <<[pk |-> Null, row |-> row]>>)
         \/ CollectValues(t, row) /\ \E p \in Conflicts(t, Null, row) : db' = [db EXCEPT ![t][p] = row]
  BY DEF InsertOrUpdate
<1>3. ASSUME InsertValue(t, <<[pk |-> Null, row |-> row]>>) PROVE Rows(db)' /\ Grows
  <2> DEFINE new == <<[pk |-> Null, row |-> row]>>
  <2>1. new \in RowsOf(t) BY GivenRows
  <2>2. \A i \in DOMAIN new : \A k \in Cols[t] : new[i].row[k] \in DOMAIN db[RefTo[k]] \cup {Null} BY GivenRows
  <2>3. InsertValue(t, new) BY <1>3
  <2> HIDE DEF new
  <2> QED BY <2>1, <2>2, <2>3, InsertGrows
<1>4. ASSUME CollectValues(t, row), NEW p \in Conflicts(t, Null, row), db' = [db EXCEPT ![t][p] = row]
      PROVE  Rows(db)' /\ Grows
  <2>0. Put(t, p, row) BY <1>4 DEF Put
  <2>1. Fitting(t, row) /\ p \in DOMAIN db[t] BY <1>4, GivenRows DEF Fitting, CollectValues, Conflicts
  <2>2. /\ Rows(db)'
        /\ \A u \in Tables : DOMAIN db'[u] = DOMAIN db[u]
        /\ \A u \in Tables : \A q \in DOMAIN db[u] : db'[u][q] = IF u = t /\ q = p THEN row ELSE db[u][q]
    BY <2>0, <2>1, PutShape
  <2>3. \A k \in Cols[t] : row[k] \in DOMAIN db[RefTo[k]] \cup {Null} BY GivenRows
  <2> QED BY <2>2, <2>3 DEF Grows
<1> QED BY <1>1, <1>2, <1>3, <1>4, SameGrows

LEMMA UpdateWrites ==
  ASSUME CrudTypes, NEW c \in Ormers, NEW k \in AllCols, Update(c, k)
  PROVE  Written(c) /\ Rows(db)' /\ Grows /\ \E r, n : Return(c, r, n)
<1>1. Written(c) /\ (\E r, n : Return(c, r, n)) BY DEF Update
<1> DEFINE h == Home(k)
<1>2. \/ UNCHANGED db
      \/ \E x \in DOMAIN db[h], v \in DOMAIN db[RefTo[k]] \cup {Null} :
           (v = Null => k \in Nullable) /\ db' = [db EXCEPT ![h][x][k] = v]
  BY DEF Update
<1>3. ASSUME NEW x \in DOMAIN db[h], NEW v \in DOMAIN db[RefTo[k]] \cup {Null}, v = Null => k \in Nullable,
             db' = [db EXCEPT ![h][x][k] = v]
      PROVE  Rows(db)' /\ Grows
  <2> DEFINE row == [db[h][x] EXCEPT ![k] = v]
  <2>1. h \in Tables /\ k \in Cols[h] /\ RefTo[k] \in Tables BY HomeOf
  <2>2. Put(h, x, row) BY <1>3 DEF Put
  <2>3. Fitting(h, db[h][x]) /\ DOMAIN db[RefTo[k]] \subseteq Pks[RefTo[k]] BY <2>1 DEF CrudTypes, Stored, Rows
  <2>4. v \in {Null} \cup UNION {Pks[RefTo[y]] : y \in Cols[h]}
    <3>1. Pks[RefTo[k]] \in {Pks[RefTo[y]] : y \in Cols[h]} BY <2>1
    <3>2. Pks[RefTo[k]] \subseteq UNION {Pks[RefTo[y]] : y \in Cols[h]} BY <3>1, Zenon
    <3> QED BY <2>3, <3>2, Zenon
  <2>5. row \in Row(h) /\ \A y \in Cols[h] : row[y] = IF y = k THEN v ELSE db[h][x][y]
    BY <2>1, <2>3, <2>4 DEF Fitting, Row
  <2> HIDE DEF row
  <2>6. Fitting(h, row) BY <1>3, <2>3, <2>5 DEF Fitting
  <2>7. /\ Rows(db)'
        /\ \A u \in Tables : DOMAIN db'[u] = DOMAIN db[u]
        /\ \A u \in Tables : \A q \in DOMAIN db[u] : db'[u][q] = IF u = h /\ q = x THEN row ELSE db[u][q]
    BY <2>1, <2>2, <2>6, PutShape
  <2> HIDE DEF h
  <2> QED BY <2>5, <2>7 DEF Grows
<1> QED BY <1>1, <1>2, <1>3, SameGrows

LEMMA UpdateWhereWrites ==
  ASSUME CrudTypes, NEW c \in Ormers, NEW k \in AllCols, UpdateWhere(c, k)
  PROVE  Written(c) /\ Rows(db)' /\ Grows /\ \E r, n : Return(c, r, n)
<1>1. Written(c) /\ (\E r, n : Return(c, r, n)) BY DEF UpdateWhere
<1>2. PICK v \in DOMAIN db[RefTo[k]] : \E args : SetWhere(k, args, v) BY DEF UpdateWhere
<1>2a. PICK args : SetWhere(k, args, v) BY <1>2
<1>3. v \in Pks[RefTo[k]] BY HomeOf DEF CrudTypes, Stored, Rows
<1>4. /\ Rows(db)'
      /\ \A u \in Tables : DOMAIN db'[u] = DOMAIN db[u]
      /\ \A u \in Tables : \A p \in DOMAIN db[u] : \A x \in Cols[u] :
              db'[u][p][x] = IF x = k /\ p \in Having(k, args) THEN v ELSE db[u][p][x]
  BY <1>2a, <1>3, SetRows
<1>5. Grows BY <1>4 DEF Grows
<1> QED BY <1>1, <1>4, <1>5

LEMMA WritesTypes ==
  ASSUME CrudTypes, NEW c \in Ormers, Written(c), Rows(db)', \E r, n : Return(c, r, n)
  PROVE  CrudTypes'
BY WrittenStored, ReturnWorks DEF CrudTypes

LEMMA DeleteTypes ==
  ASSUME CrudTypes, NEW c \in Ormers, NEW t \in Tables, Delete(c, t)
  PROVE  CrudTypes'
<1>1. Written(c) /\ onDelete' = onDelete BY DEF Delete, Written
<1>2. CASE (\E r, n : Return(c, r, n)) /\ UNCHANGED db BY <1>1, <1>2, SameRows, WritesTypes
<1>3. CASE \E x \in Pks[t] \cup {Null} : DeleteBy(c, t, {x} \cap DOMAIN db[t], {x})
  <2>1. PICK x \in Pks[t] \cup {Null} : DeleteBy(c, t, {x} \cap DOMAIN db[t], {x}) BY <1>3
  <2>2. {x} \in SUBSET Nat BY CrudAssumption DEF CrudAssumption, Null
  <2> QED BY <1>1, <2>1, <2>2, DeleteByTypes, WrittenStored DEF CrudTypes
<1>4. CASE \E k \in Cols[t] : \E v \in Pks[RefTo[k]] : DeleteBy(c, t, Having(k, {v}), {v})
  <2>0. PICK k \in Cols[t] : \E v \in Pks[RefTo[k]] : DeleteBy(c, t, Having(k, {v}), {v}) BY <1>4
  <2>1. PICK v \in Pks[RefTo[k]] : DeleteBy(c, t, Having(k, {v}), {v}) BY <2>0
  <2>2. {v} \in SUBSET Nat BY HomeOf, CrudAssumption DEF CrudAssumption
  <2> QED BY <1>1, <2>1, <2>2, DeleteByTypes, WrittenStored DEF CrudTypes
<1> QED BY <1>2, <1>3, <1>4 DEF Delete

LEMMA DeleteWhereTypes ==
  ASSUME CrudTypes, NEW c \in Ormers, NEW k \in AllCols, DeleteWhere(c, k)
  PROVE  CrudTypes'
<1>1. Unwritten BY DEF DeleteWhere
<1>2. PICK args \in SUBSET Pks[RefTo[k]] : Begins(c, <<[op |-> "find", col |-> k, args |-> args]>>, 0) BY DEF DeleteWhere
<1>3. args \in SUBSET Nat BY HomeOf, CrudAssumption DEF CrudAssumption
<1> DEFINE w == [op |-> "find", col |-> k, args |-> args]
<1>4. w \in Sql /\ w.op = "find" /\ Begins(c, <<w>>, 0) BY <1>2, <1>3, SqlMade
<1> HIDE DEF w
<1>5. Sendable(<<w>>) BY <1>4, DeletingOne, DeletingSendable
<1> QED BY <1>1, <1>4, <1>5, UnwrittenStored, BeginsWorks DEF CrudTypes
-----------------------------------------------------------------------------
LEMMA FindTypes ==
  ASSUME CrudTypes, NEW c \in Ormers, Find(c)
  PROVE  CrudTypes'
<1>1. Unwritten /\ UNCHANGED <<result, asked>> /\ work[c] # <<>> /\ Head(work[c]).op = "find" BY DEF Find, Statement
<1>2. Stored' /\ onDelete' = onDelete BY <1>1, UnwrittenStored
<1> DEFINE w == Head(work[c])  pks == Having(w.col, w.args)
           then == IF pks = {} THEN <<>> ELSE <<[op |-> "remove", on |-> Home(w.col), args |-> pks]>>
<1>3. DOMAIN work = Ormers /\ Sendable(work[c]) BY DEF CrudTypes, Works
<1>4. work' = [work EXCEPT ![c] = then \o Tail(work[c])] BY <1>3 DEF Find
<1>5. w \in Sql BY <1>1, <1>3, TailSendable
<1>6. w.col \in AllCols BY <1>1, <1>5, SqlFields
<1>7. Deleting(Tail(work[c])) /\ \E i \in DOMAIN work[c] : work[c][i].op \notin {"insert", "errArgs"} BY <1>1, <1>3, DeletingOnward
<1>8. Deleting(then)
  <2> DEFINE x == [op |-> "remove", on |-> Home(w.col), args |-> pks]
  <2>1. x \in Sql BY <1>6, HomeOf, HavingKeys, SqlMade
  <2>2. x.op = "remove" OBVIOUS
  <2>3. then = <<>> \/ then = <<x>> OBVIOUS
  <2> HIDE DEF x, then
  <2> QED BY <2>1, <2>2, <2>3, DeletingOne, DeletingEmpty
<1> HIDE DEF then
<1> DEFINE s == then \o Tail(work[c])
<1>9. Deleting(s) BY <1>7, <1>8, DeletingConcat
<1>10. work' = [work EXCEPT ![c] = s] BY <1>4
<1> HIDE DEF s
<1>11. Works' BY <1>1, <1>2, <1>7, <1>9, <1>10, DeletingSendable, DeletingWorks
<1> QED BY <1>2, <1>11 DEF CrudTypes

LEMMA RemoveRowsTypes ==
  ASSUME CrudTypes, NEW c \in Ormers, RemoveRows(c)
  PROVE  CrudTypes'
<1> DEFINE w == Head(work[c])
<1>1. Written(c) /\ UNCHANGED <<result, asked>> /\ work[c] # <<>> /\ w.op = "remove" BY DEF RemoveRows, Statement
<1>2. DeleteRows(c, w.on, w.args \cap DOMAIN db[w.on], w.args, Tail(work[c])) BY DEF RemoveRows
<1>3. Sendable(work[c]) BY DEF CrudTypes, Works
<1>4. w \in Sql BY <1>1, <1>3, TailSendable
<1>5. w.on \in Tables /\ w.args \in SUBSET Nat BY <1>1, <1>4, SqlFields
<1>6. Deleting(Tail(work[c])) /\ \E i \in DOMAIN work[c] : work[c][i].op \notin {"insert", "errArgs"} BY <1>1, <1>3, DeletingOnward
<1>7. Rows(db)' /\ \E s : work' = [work EXCEPT ![c] = s] /\ Deleting(s) BY <1>2, <1>5, <1>6, DeleteRowsWorks
<1>8. PICK s : work' = [work EXCEPT ![c] = s] /\ Deleting(s) BY <1>7
<1>9. Stored' /\ onDelete' = onDelete BY <1>1, <1>7, WrittenStored
<1>10. Works' BY <1>1, <1>6, <1>8, <1>9, DeletingSendable, DeletingWorks
<1> QED BY <1>9, <1>10 DEF CrudTypes

LEMMA ClearTypes ==
  ASSUME CrudTypes, NEW c \in Ormers, Clear(c)
  PROVE  CrudTypes'
<1> DEFINE w == Head(work[c])  v == IF onDelete[w.col] = "set_null" THEN Null ELSE Initial
<1>1. Written(c) /\ UNCHANGED <<result, asked>> /\ work[c] # <<>> /\ w.op = "clear" BY DEF Clear, Statement
<1>2. SetWhere(w.col, w.args, v) BY DEF Clear
<1>3. Sendable(work[c]) /\ DOMAIN work = Ormers BY DEF CrudTypes, Works
<1>4. w \in Sql /\ w = work[c][1] /\ 1 \in DOMAIN work[c] BY <1>1, <1>3, TailSendable
<1>5. w.col \in AllCols BY <1>1, <1>4, SqlFields
<1>6. onDelete[w.col] \in {"set_null", "set_default"} BY <1>1, <1>3, <1>4 DEF Sendable, ClearsRight
<1>7. v \in Pks[RefTo[w.col]] \/ (v = Null /\ w.col \in Nullable)
  BY <1>5, <1>6, SchemaAssumption DEF SchemaAssumption, CrudTypes, Stored
<1> HIDE DEF v, w
<1>8. Rows(db)' BY <1>2, <1>5, <1>7, SetRows
<1>9. Stored' /\ onDelete' = onDelete BY <1>1, <1>8, WrittenStored
<1>10. Deleting(Tail(work[c])) /\ \E i \in DOMAIN work[c] : work[c][i].op \notin {"insert", "errArgs"} BY <1>1, <1>3, DeletingOnward DEF w
<1>11. work' = [work EXCEPT ![c] = Tail(work[c])] BY <1>3 DEF Clear
<1>12. Works' BY <1>1, <1>9, <1>10, <1>11, DeletingSendable, DeletingWorks
<1> QED BY <1>9, <1>12 DEF CrudTypes

\* A statement of InsertMulti or ReadOrCreate writes the rows it was given.
LEMMA InsertRowsTypes ==
  ASSUME CrudTypes, NEW c \in Ormers, InsertRows(c)
  PROVE  CrudTypes'
<1> DEFINE w == Head(work[c])
<1>1. Written(c) /\ UNCHANGED <<asked>> /\ work[c] # <<>> /\ w.op = "insert" BY DEF InsertRows, Statement
<1>2. Sendable(work[c]) /\ DOMAIN work = Ormers BY DEF CrudTypes, Works
<1>3. w \in Sql BY <1>1, <1>2, TailSendable
<1>4. w.on \in Tables /\ w.rows \in RowsOf(w.on) BY <1>1, <1>3, SqlFields
<1>5. CASE /\ InsertValue(w.on, w.rows)
           /\ result' = [result EXCEPT ![c] = <<"ok", result[c][2] + Len(w.rows)>>]
           /\ work' = [work EXCEPT ![c] = Tail(@)]
  <2>1. Rows(db)' BY <1>4, <1>5, InsertGrows
  <2>2. Stored' /\ onDelete' = onDelete BY <1>1, <2>1, WrittenStored
  <2>3. work' = [work EXCEPT ![c] = Tail(work[c])] BY <1>2, <1>5
  <2>4. Works' BY <1>1, <1>5, <2>2, <2>3, CountedWorks
  <2> QED BY <2>2, <2>4 DEF CrudTypes
<1>6. CASE /\ UNCHANGED db
           /\ result' = [result EXCEPT ![c] = <<"dbError", result[c][2]>>]
           /\ work' = [work EXCEPT ![c] = <<>>]
  <2>1. Stored' /\ onDelete' = onDelete BY <1>1, <1>6, SameRows, WrittenStored
  <2>2. Works' BY <1>1, <1>6, <2>1, FailedWorks
  <2> QED BY <2>1, <2>2 DEF CrudTypes
<1> QED BY <1>5, <1>6 DEF InsertRows

LEMMA ErrArgsTypes ==
  ASSUME CrudTypes, NEW c \in Ormers, ErrArgs(c)
  PROVE  CrudTypes'
<1>1. Unwritten /\ UNCHANGED asked /\ work' = [work EXCEPT ![c] = <<>>] BY DEF ErrArgs, Statement
<1>2. \E n : result' = [result EXCEPT ![c] = <<"errArgs", n>>]
  <2>1. result' = [result EXCEPT ![c] = <<"errArgs", result[c][2]>>] BY DEF ErrArgs, CrudTypes, Works
  <2> QED BY <2>1
<1>3. Stored' /\ onDelete' = onDelete BY <1>1, UnwrittenStored
<1>4. Works' BY <1>1, <1>2, <1>3, FailedWorks
<1> QED BY <1>3, <1>4 DEF CrudTypes

LEMMA FailTypes ==
  ASSUME CrudTypes, NEW c \in Ormers, Fail(c)
  PROVE  CrudTypes'
<1>1. UNCHANGED <<onDelete, db, txVars, asked>> /\ work' = [work EXCEPT ![c] = <<>>]
      /\ clean' \in BOOLEAN /\ hurt' \in BOOLEAN
  BY DEF Fail, CrudTypes, Stored
<1>2. \E n : result' = [result EXCEPT ![c] = <<"dbError", n>>]
  <2>1. result' = [result EXCEPT ![c] = <<"dbError", result[c][2]>>] BY DEF Fail, CrudTypes, Works
  <2> QED BY <2>1
<1>3. Stored' BY <1>1 DEF CrudTypes, Stored, txVars
<1>4. Works' BY <1>1, <1>2, FailedWorks
<1> QED BY <1>3, <1>4 DEF CrudTypes

LEMMA TransactionTypes ==
  ASSUME CrudTypes, NEW c \in Ormers, Begin(c) \/ Rollback(c) \/ Commit(c)
  PROVE  CrudTypes'
<1>1. (\E r, n : Return(c, r, n)) /\ onDelete' = onDelete BY DEF Begin, Rollback, Commit
<1>2. Stored' BY DEF Begin, Rollback, Commit, CrudTypes, Stored
<1>3. Works' BY <1>1, ReturnWorks
<1> QED BY <1>2, <1>3 DEF CrudTypes

\* The database holds rows of its models, and InsertMulti has still to send
\* what it has not counted.
LEMMA CrudTypesInit ==
  ASSUME CrudInit
  PROVE  CrudTypes
<1>1. Stored BY InputAssumption DEF CrudInit, Stored, InputAssumption
<1>2. \A c \in Ormers : Sendable(work[c]) BY EmptySendable DEF CrudInit
<1>3. \A c \in Ormers : Counting(work[c], asked[c], result[c]) BY DEF CrudInit, Counting
<1>4. Works BY <1>2, <1>3 DEF Works, CrudInit
<1> QED BY <1>1, <1>4 DEF CrudTypes

LEMMA CrudTypesNext ==
  ASSUME CrudTypes, [CrudNext]_crudVars
  PROVE  CrudTypes'
<1>1. ASSUME NEW c \in Ormers, NEW t \in Tables,
             Read(c, t) \/ Insert(c, t) \/ InsertOrUpdate(c, t) \/ AddM2M(c, t) \/ Delete(c, t)
      PROVE  CrudTypes'
  BY <1>1, ReadTypes, InsertWrites, InsertOrUpdateWrites, AddM2MWrites, WritesTypes, DeleteTypes
<1>2. ASSUME NEW c \in Ormers, NEW k \in AllCols,
             ReadOrCreate(c, k) \/ Update(c, k) \/ DeleteWhere(c, k) \/ UpdateWhere(c, k)
      PROVE  CrudTypes'
  BY <1>2, ReadOrCreateTypes, UpdateWrites, UpdateWhereWrites, WritesTypes, DeleteWhereTypes
<1>3. ASSUME NEW c \in Ormers,
             InsertMulti(c) \/ InserterClose(c) \/ InserterClosed(c) \/ Begin(c) \/ Rollback(c) \/ Commit(c)
      PROVE  CrudTypes'
  BY <1>3, InsertMultiTypes, InserterTypes, TransactionTypes
<1>4. ASSUME NEW c \in Ormers, Continue(c) \/ Fail(c) PROVE CrudTypes'
  BY <1>4, FindTypes, RemoveRowsTypes, ClearTypes, InsertRowsTypes, ErrArgsTypes, FailTypes DEF Continue
<1>5. ASSUME UNCHANGED crudVars PROVE CrudTypes'
  <2>1. UNCHANGED <<onDelete, db, work, result, asked, clean, hurt>> /\ UNCHANGED <<owner, saved>> BY <1>5 DEF crudVars, txVars
  <2>2. Stored' BY <2>1 DEF CrudTypes, Stored
  <2>3. Works' BY <2>1 DEF CrudTypes, Works, Sendable, ClearsRight, OneKind
  <2> QED BY <2>2, <2>3 DEF CrudTypes
<1> QED BY <1>1, <1>2, <1>3, <1>4, <1>5 DEF CrudNext, Operation

\* A statement that will remove the row p, or the reference v in its column k.
Covers(s, k, p, v) ==
  \E i \in DOMAIN s :
    \/ s[i].op \in {"find", "clear"} /\ s[i].col = k /\ v \in s[i].args
    \/ s[i].op = "remove" /\ s[i].on = Home(k) /\ p \in s[i].args

\* The rows still to be inserted refer to stored ones.
Refers(d, s) ==
  \A i \in DOMAIN s : s[i].op = "insert" =>
    \A j \in DOMAIN s[i].rows : \A k \in Cols[s[i].on] :
      s[i].rows[j].row[k] \in DOMAIN d[RefTo[k]] \cup {Null}

\* Every reference is to a row there is, or a statement will take it away.
Sound(od, d, w, C) ==
  /\ \A k \in AllCols : od[k] \in {"cascade", "set_null"} => \A p \in DOMAIN d[Home(k)] :
       LET v == d[Home(k)][p][k] IN
         v \in DOMAIN d[RefTo[k]] \cup {Null} \/ \E c \in C : Covers(w[c], k, p, v)
  /\ \A c \in C : Refers(d, w[c])

\* The same of what a transaction found, as its rollback brings that back.
LiveInv ==
  /\ clean /\ ~hurt => Sound(onDelete, db, work, Ormers)
  /\ owner = Free => ~hurt
  /\ clean /\ owner # Free => Sound(onDelete, saved, work, Ormers \ {owner})

LEMMA CoversEmpty ==
  ASSUME NEW s, s = <<>>
  PROVE  Refers(db, s) /\ (\A d : Refers(d, s)) /\ \A k, p, v : ~Covers(s, k, p, v)
BY EmptySeq DEF Covers, Refers

\* Other clients do not change what covers a reference.
LEMMA SoundFrozen ==
  ASSUME NEW C, NEW d, Sound(onDelete, d, work, C), \A c \in C : work'[c] = work[c]
  PROVE  Sound(onDelete, d, work', C)
BY DEF Sound

LEMMA GrowSound ==
  ASSUME CrudTypes, NEW c \in Ormers, Grows, CrudTypes', Sound(onDelete, db, work, Ormers),
         \A d \in Ormers \ {c} : work'[d] = work[d],
         \A k \in AllCols : \A p \in DOMAIN db[Home(k)] :
           Covers(work[c], k, p, db[Home(k)][p][k]) => Covers(work'[c], k, p, db[Home(k)][p][k]),
         Refers(db, work'[c])
  PROVE  Sound(onDelete, db', work', Ormers)
<1>1. ASSUME NEW k \in AllCols, onDelete[k] \in {"cascade", "set_null"}, NEW p \in DOMAIN db'[Home(k)]
      PROVE  \/ db'[Home(k)][p][k] \in DOMAIN db'[RefTo[k]] \cup {Null}
             \/ \E d \in Ormers : Covers(work'[d], k, p, db'[Home(k)][p][k])
  <2> DEFINE h == Home(k)
  <2>1. h \in Tables /\ k \in Cols[h] /\ RefTo[k] \in Tables BY HomeOf
  <2>2. DOMAIN db[RefTo[k]] \subseteq DOMAIN db'[RefTo[k]] BY <2>1 DEF Grows
  <2>3. \/ p \in DOMAIN db[h] /\ db'[h][p][k] = db[h][p][k]
        \/ db'[h][p][k] \in DOMAIN db[RefTo[k]] \cup {Null}
    BY <2>1 DEF Grows
  <2>4. CASE p \in DOMAIN db[h] /\ db'[h][p][k] = db[h][p][k]
    <3>1. \/ db[h][p][k] \in DOMAIN db[RefTo[k]] \cup {Null}
          \/ \E d \in Ormers : Covers(work[d], k, p, db[h][p][k])
      BY <1>1, <2>4 DEF Sound
    <3>2. ASSUME NEW d \in Ormers, Covers(work[d], k, p, db[h][p][k])
          PROVE  Covers(work'[d], k, p, db[h][p][k])
      BY <2>4, <3>2
    <3> QED BY <2>2, <2>4, <3>1, <3>2
  <2> QED BY <2>2, <2>3, <2>4
<1>2. ASSUME NEW d \in Ormers PROVE Refers(db', work'[d])
  <2>1. Refers(db, work'[d]) BY DEF Sound
  <2>2. work'[d] \in Seq(Sql) BY DEF CrudTypes, Works, Sendable
  <2> DEFINE s == work'[d]
  <2>3. ASSUME NEW i \in DOMAIN s, s[i].op = "insert", NEW j \in DOMAIN s[i].rows, NEW k \in Cols[s[i].on]
        PROVE  s[i].rows[j].row[k] \in DOMAIN db'[RefTo[k]] \cup {Null}
    <3>1. s[i] \in Sql BY <2>2, LenProperties, ElementOfSeq
    <3>2. s[i].on \in Tables BY <2>3, <3>1, SqlFields
    <3>3. RefTo[k] \in Tables BY <3>2, HomeOf
    <3>4. s[i].rows[j].row[k] \in DOMAIN db[RefTo[k]] \cup {Null} BY <2>1, <2>3 DEF Refers
    <3> QED BY <3>3, <3>4 DEF Grows
  <2> QED BY <2>3 DEF Refers
<1> QED BY <1>1, <1>2 DEF Sound

\* A DELETE leaves references behind, and has them taken away.
LEMMA DeleteSound ==
  ASSUME CrudTypes, NEW c \in Ormers, NEW t \in Tables, NEW args \in SUBSET Nat, NEW pks \in SUBSET args, NEW rest,
         Deleting(rest), DeleteRows(c, t, pks, args, rest), onDelete' = onDelete,
         Sound(onDelete, db, work, Ormers),
         \A d \in Ormers \ {c} : work[d] = <<>>,
         \A k \in AllCols : \A p \in DOMAIN db[Home(k)] :
           /\ ~(Home(k) = t /\ p \in pks)
           /\ Covers(work[c], k, p, db[Home(k)][p][k])
           => Covers(rest, k, p, db[Home(k)][p][k])
  PROVE  Sound(onDelete, db', work', Ormers)
<1>1. /\ \A u \in Tables : DOMAIN db'[u] = IF u = t THEN DOMAIN db[u] \ pks ELSE DOMAIN db[u]
      /\ \A u \in Tables : \A p \in DOMAIN db'[u] : db'[u][p] = db[u][p]
  <2>1. Gone(t, pks) BY Zenon DEF DeleteRows, Gone
  <2> QED BY <2>1, DeleteShape
<1>2. PICK s : /\ work' = [work EXCEPT ![c] = s] /\ Deleting(s) /\ Within(rest, s)
               /\ pks # {} => RelsIn(s, t, args)
  BY DeleteRowsWorks
<1>3. work'[c] = s /\ \A d \in Ormers \ {c} : work'[d] = <<>> BY <1>2 DEF CrudTypes, Works
<1>4. ASSUME NEW k \in AllCols, NEW p, NEW v, Covers(rest, k, p, v) PROVE Covers(s, k, p, v)
  BY <1>2, <1>4 DEF Covers, Within
<1>5. ASSUME NEW k \in AllCols, onDelete[k] \in {"cascade", "set_null"}, NEW p \in DOMAIN db'[Home(k)]
      PROVE  \/ db'[Home(k)][p][k] \in DOMAIN db'[RefTo[k]] \cup {Null}
             \/ Covers(s, k, p, db'[Home(k)][p][k])
  <2> DEFINE h == Home(k)  v == db[h][p][k]
  <2>1. h \in Tables /\ RefTo[k] \in Tables BY HomeOf
  <2>2. p \in DOMAIN db[h] /\ ~(h = t /\ p \in pks) /\ db'[h][p] = db[h][p] BY <1>1, <2>1
  <2>3. v \in DOMAIN db[RefTo[k]] \cup {Null} \/ \E d \in Ormers : Covers(work[d], k, p, v)
    BY <1>5, <2>2 DEF Sound
  <2>4. ASSUME NEW d \in Ormers, Covers(work[d], k, p, v) PROVE Covers(s, k, p, v)
    <3>1. d = c BY <2>4, CoversEmpty
    <3> QED BY <1>4, <2>2, <2>4, <3>1
  <2>5. ASSUME v \in DOMAIN db[RefTo[k]], v \notin DOMAIN db'[RefTo[k]] PROVE Covers(s, k, p, v)
    <3>1. RefTo[k] = t /\ v \in pks /\ v \in args /\ pks # {} BY <1>1, <2>1, <2>5
    <3>2. \E j \in DOMAIN s : s[j] \in {[op |-> "find", col |-> k, args |-> args], [op |-> "clear", col |-> k, args |-> args]}
      <4>1. k \in Fk(t, {"cascade"}) \/ k \in Fk(t, {"set_null"}) BY <1>5, <3>1 DEF Fk
      <4> QED BY <1>2, <3>1, <4>1 DEF RelsIn
    <3> HIDE DEF v
    <3>3. PICK j \in DOMAIN s : s[j].op \in {"find", "clear"} /\ s[j].col = k /\ s[j].args = args BY <3>2
    <3> QED BY <3>1, <3>3 DEF Covers
  <2> QED BY <2>2, <2>3, <2>4, <2>5
<1>6. \A d \in Ormers : Refers(db', work'[d])
  <2>1. Refers(db', s) BY <1>2 DEF Refers, Deleting
  <2> QED BY <1>3, <2>1, CoversEmpty
<1> QED BY <1>3, <1>5, <1>6 DEF Sound

\* set_null takes references away.
LEMMA ClearSound ==
  ASSUME CrudTypes, CrudTypes', NEW c \in Ormers, Clear(c), Sound(onDelete, db, work, Ormers),
         \A d \in Ormers \ {c} : work[d] = <<>>
  PROVE  Sound(onDelete, db', work', Ormers)
<1> DEFINE w == Head(work[c])  v == IF onDelete[w.col] = "set_null" THEN Null ELSE Initial
<1>1. work[c] # <<>> /\ w.op = "clear" /\ SetWhere(w.col, w.args, v) BY DEF Clear, Statement
<1>2. Sendable(work[c]) /\ DOMAIN work = Ormers BY DEF CrudTypes, Works
<1>3. /\ w \in Sql /\ w = work[c][1] /\ 1 \in DOMAIN work[c]
      /\ DOMAIN work[c] = 1 .. Len(work[c]) /\ DOMAIN Tail(work[c]) = 1 .. Len(work[c]) - 1 /\ Len(work[c]) \in Nat
      /\ \A i \in 1 .. Len(work[c]) - 1 : Tail(work[c])[i] = work[c][i + 1]
  BY <1>1, <1>2, TailSendable
<1>4. w.col \in AllCols BY <1>1, <1>3, SqlFields
<1>5. onDelete[w.col] \in {"set_null", "set_default"} BY <1>1, <1>2, <1>3 DEF Sendable, ClearsRight
<1>6. v \in Pks[RefTo[w.col]] \/ (v = Null /\ w.col \in Nullable)
  BY <1>4, <1>5, SchemaAssumption DEF SchemaAssumption, CrudTypes, Stored
<1>7. work'[c] = Tail(work[c]) /\ \A d \in Ormers \ {c} : work'[d] = <<>> BY <1>2 DEF Clear
<1>8. onDelete[w.col] = "set_null" => v = Null OBVIOUS
<1>9. Deleting(Tail(work[c])) BY <1>1, <1>2, DeletingOnward
<1> HIDE DEF w, v
<1>10. /\ \A u \in Tables : DOMAIN db'[u] = DOMAIN db[u]
       /\ \A u \in Tables : \A p \in DOMAIN db[u] : \A x \in Cols[u] :
            db'[u][p][x] = IF x = w.col /\ p \in Having(w.col, w.args) THEN v ELSE db[u][p][x]
  BY <1>1, <1>4, <1>6, SetRows
<1>11. ASSUME NEW k \in AllCols, onDelete[k] \in {"cascade", "set_null"}, NEW p \in DOMAIN db'[Home(k)]
       PROVE  \/ db'[Home(k)][p][k] \in DOMAIN db'[RefTo[k]] \cup {Null}
              \/ \E d \in Ormers : Covers(work'[d], k, p, db'[Home(k)][p][k])
  <2> DEFINE h == Home(k)  x == db[h][p][k]
  <2>1. h \in Tables /\ k \in Cols[h] /\ RefTo[k] \in Tables BY HomeOf
  <2>2. p \in DOMAIN db[h] BY <1>10, <2>1
  <2>3. db'[h][p][k] = IF k = w.col /\ p \in Having(w.col, w.args) THEN v ELSE x BY <1>10, <2>1, <2>2
  <2>4. CASE k = w.col /\ p \in Having(w.col, w.args)
    <3>1. v = Null BY <1>5, <1>8, <1>11, <2>4
    <3> QED BY <2>3, <2>4, <3>1
  <2>5. CASE ~(k = w.col /\ p \in Having(w.col, w.args))
    <3>1. x \in DOMAIN db[RefTo[k]] \cup {Null} \/ \E d \in Ormers : Covers(work[d], k, p, x) BY <1>11, <2>2 DEF Sound
    <3>2. ASSUME NEW d \in Ormers, Covers(work[d], k, p, x) PROVE Covers(work'[c], k, p, x)
      <4> HIDE DEF x
      <4>1. d = c BY <3>2, CoversEmpty
      <4>2. PICK i \in DOMAIN work[c] :
               \/ work[c][i].op \in {"find", "clear"} /\ work[c][i].col = k /\ x \in work[c][i].args
               \/ work[c][i].op = "remove" /\ work[c][i].on = Home(k) /\ p \in work[c][i].args
        BY <3>2, <4>1 DEF Covers
      <4>3. i # 1
        <5>1. SUFFICES ASSUME i = 1 PROVE FALSE OBVIOUS
        <5>2. w.col = k /\ x \in w.args BY <1>1, <1>3, <4>2, <5>1 DEF w
        <5> QED BY <2>2, <2>5, <5>2 DEF Having, x
      <4>4. i - 1 \in DOMAIN Tail(work[c]) /\ Tail(work[c])[i - 1] = work[c][i] BY <1>3, <4>3
      <4> QED BY <1>7, <4>2, <4>4 DEF Covers
    <3> QED BY <1>10, <2>1, <2>3, <2>5, <3>1, <3>2
  <2> QED BY <2>4, <2>5
<1>12. \A d \in Ormers : Refers(db', work'[d])
  <2>1. Refers(db', Tail(work[c])) BY <1>9 DEF Refers, Deleting
  <2> QED BY <1>7, <2>1, CoversEmpty
<1> QED BY <1>11, <1>12 DEF Sound

CrudInv == CrudTypes /\ LiveInv

LEMMA SoundRefers ==
  ASSUME Sound(onDelete, db, work, Ormers), NEW c \in Ormers
  PROVE  Refers(db, work[c])
BY DEF Sound

LEMMA WorkOthers ==
  ASSUME CrudTypes, NEW c \in Ormers, NEW s, work' = [work EXCEPT ![c] = s]
  PROVE  work'[c] = s /\ \A d \in Ormers \ {c} : work'[d] = work[d]
BY DEF CrudTypes, Works

\* A step that is not the end of a transaction.
LEMMA LiveStep ==
  ASSUME CrudInv, NEW c \in Ormers, Turn(c), UNCHANGED <<onDelete, txVars, hurt>>, clean' => clean,
         \A d \in Ormers \ {c} : work'[d] = work[d],
         clean' /\ Sound(onDelete, db, work, Ormers) => Sound(onDelete, db', work', Ormers)
  PROVE  LiveInv'
<1>1. clean' /\ ~hurt' => Sound(onDelete', db', work', Ormers) BY DEF CrudInv, LiveInv, Sound
<1>2. owner' = Free => ~hurt' BY DEF CrudInv, LiveInv, txVars
<1>3. ASSUME clean', owner' # Free PROVE Sound(onDelete', saved', work', Ormers \ {owner'})
  <2>1. owner' = c /\ owner = c /\ saved' = saved BY <1>3 DEF Turn, txVars
  <2>2. Sound(onDelete, saved, work, Ormers \ {c}) BY <1>3, <2>1 DEF CrudInv, LiveInv
  <2>3. Sound(onDelete, saved, work', Ormers \ {c}) BY <2>2, SoundFrozen
  <2> QED BY <2>1, <2>3
<1> QED BY <1>1, <1>2, <1>3 DEF LiveInv

\* A step that writes nothing, or only references to rows there are.
LEMMA LiveGrow ==
  ASSUME CrudInv, CrudTypes', NEW c \in Ormers, Turn(c), UNCHANGED <<onDelete, txVars, hurt>>, clean' => clean, Grows,
         \A d \in Ormers \ {c} : work'[d] = work[d],
         Sound(onDelete, db, work, Ormers) =>
           /\ \A k \in AllCols : \A p \in DOMAIN db[Home(k)] :
                Covers(work[c], k, p, db[Home(k)][p][k]) => Covers(work'[c], k, p, db[Home(k)][p][k])
           /\ Refers(db, work'[c])
  PROVE  LiveInv'
<1>1. ASSUME Sound(onDelete, db, work, Ormers) PROVE Sound(onDelete, db', work', Ormers)
  BY <1>1, GrowSound DEF CrudInv
<1> QED BY <1>1, LiveStep

LEMMA LiveReturn ==
  ASSUME CrudInv, CrudTypes', NEW c \in Ormers, Turn(c), UNCHANGED <<onDelete, txVars, hurt, work>>, clean' => clean, Grows
  PROVE  LiveInv'
BY LiveGrow, SoundRefers

LEMMA LiveBegins ==
  ASSUME CrudInv, CrudTypes', NEW c \in Ormers, Calls(c), Unwritten, NEW s, work' = [work EXCEPT ![c] = s], Refers(db, s)
  PROVE  LiveInv'
<1>1. Turn(c) /\ work[c] = <<>> /\ UNCHANGED <<onDelete, txVars, hurt>> /\ (clean' => clean) /\ UNCHANGED db BY DEF Calls, Unwritten
<1>2. Grows BY <1>1, SameGrows DEF CrudInv
<1>3. work'[c] = s /\ \A d \in Ormers \ {c} : work'[d] = work[d] BY WorkOthers DEF CrudInv
<1>4. \A k, p, v : ~Covers(work[c], k, p, v) BY <1>1, CoversEmpty
<1> QED BY <1>1, <1>2, <1>3, <1>4, LiveGrow

\* What a step of a client with INSERTs to send leaves uncovered: nothing.
LEMMA InsertsCover ==
  ASSUME NEW s, Sendable(s), s # <<>>, Head(s).op \in {"insert", "errArgs"}
  PROVE  \A k, p, v : ~Covers(s, k, p, v)
<1>1. 1 \in DOMAIN s /\ Head(s) = s[1] BY TailSendable
<1>2. \A i \in DOMAIN s : s[i].op \in {"insert", "errArgs"} BY <1>1 DEF Sendable, OneKind
<1> QED BY <1>2 DEF Covers

LEMMA LiveRead ==
  ASSUME CrudInv, CrudTypes', NEW c \in Ormers, NEW t \in Tables, Read(c, t)
  PROVE  LiveInv'
<1>1. Turn(c) /\ UNCHANGED <<onDelete, txVars, hurt, work, db>> /\ (clean' => clean)
  BY DEF Read, Calls, Unwritten, Return
<1> QED BY <1>1, SameGrows, LiveReturn DEF CrudInv

LEMMA LiveInserter ==
  ASSUME CrudInv, CrudTypes', NEW c \in Ormers, InserterClosed(c) \/ InserterClose(c)
  PROVE  LiveInv'
<1>1. Turn(c) /\ UNCHANGED <<onDelete, txVars, hurt, work, db>> /\ (clean' => clean)
  BY DEF InserterClosed, InserterClose, Calls, Unwritten, Return
<1> QED BY <1>1, SameGrows, LiveReturn DEF CrudInv

LEMMA LiveWrites ==
  ASSUME CrudInv, CrudTypes', NEW c \in Ormers, Turn(c), Written(c), Grows, \E r, n : Return(c, r, n)
  PROVE  LiveInv'
<1>1. UNCHANGED <<onDelete, txVars, hurt, work>> /\ (clean' => clean) BY DEF Written, Return
<1> QED BY <1>1, LiveReturn

LEMMA LiveReadOrCreate ==
  ASSUME CrudInv, CrudTypes', NEW c \in Ormers, NEW k \in AllCols, ReadOrCreate(c, k)
  PROVE  LiveInv'
<1>1. Calls(c) /\ Unwritten BY DEF ReadOrCreate
<1>2. PICK row \in Given(Home(k)) :
         \/ \E r, n : Return(c, r, n)
         \/ Begins(c, <<[op |-> "insert", on |-> Home(k), rows |-> <<[pk |-> Null, row |-> row]>>]>>, 0)
  BY DEF ReadOrCreate
<1>3. CASE \E r, n : Return(c, r, n)
  <2>1. Turn(c) /\ UNCHANGED <<onDelete, txVars, hurt, work, db>> /\ (clean' => clean) BY <1>1, <1>3 DEF Calls, Unwritten, Return
  <2> QED BY <2>1, SameGrows, LiveReturn DEF CrudInv
<1>4. CASE Begins(c, <<[op |-> "insert", on |-> Home(k), rows |-> <<[pk |-> Null, row |-> row]>>]>>, 0)
  <2> DEFINE s == <<[op |-> "insert", on |-> Home(k), rows |-> <<[pk |-> Null, row |-> row]>>]>>
  <2>1. \A x \in Cols[Home(k)] : row[x] \in DOMAIN db[RefTo[x]] \cup {Null} BY HomeOf, GivenRows DEF CrudInv
  <2>2. Refers(db, s) BY <2>1 DEF Refers
  <2>3. work' = [work EXCEPT ![c] = s] BY <1>4 DEF Begins
  <2> HIDE DEF s
  <2> QED BY <1>1, <2>2, <2>3, LiveBegins
<1> QED BY <1>2, <1>3, <1>4

LEMMA LiveInsertMulti ==
  ASSUME CrudInv, CrudTypes', NEW c \in Ormers, InsertMulti(c)
  PROVE  LiveInv'
<1>1. Calls(c) /\ Unwritten BY DEF InsertMulti
<1>2. PICK b \in Batches : (\A i \in DOMAIN b.rows : b.rows[i].row \in Given(b.on)) /\ Begins(c, Chunks(b.on, b.rows, b.bulk), Len(b.rows))
  BY DEF InsertMulti
<1>3. b.on \in Tables /\ b.bulk \in Nat \ {0} /\ b.rows \in RowsOf(b.on) BY InputAssumption DEF InputAssumption, RowsOf
<1> DEFINE s == Chunks(b.on, b.rows, b.bulk)
<1>4. \A i \in DOMAIN s :
         \/ s[i] = [op |-> "errArgs"]
         \/ /\ s[i].op = "insert" /\ s[i].on = b.on
            /\ \A j \in DOMAIN s[i].rows : \E m \in DOMAIN b.rows : s[i].rows[j] = b.rows[m]
  BY <1>3, ChunksRight
<1>5. work' = [work EXCEPT ![c] = s] BY <1>2 DEF Begins
<1> HIDE DEF s
<1>6. Refers(db, s)
  <2>1. \A m \in DOMAIN b.rows : \A k \in Cols[b.on] : b.rows[m].row[k] \in DOMAIN db[RefTo[k]] \cup {Null}
    BY <1>2, <1>3, GivenRows DEF CrudInv
  <2>2. ASSUME NEW i \in DOMAIN s, s[i].op = "insert", NEW j \in DOMAIN s[i].rows, NEW k \in Cols[s[i].on]
        PROVE  s[i].rows[j].row[k] \in DOMAIN db[RefTo[k]] \cup {Null}
    <3>1. s[i].on = b.on /\ \E m \in DOMAIN b.rows : s[i].rows[j] = b.rows[m] BY <1>4, <2>2
    <3> QED BY <2>1, <2>2, <3>1
  <2> QED BY <2>2 DEF Refers
<1> QED BY <1>1, <1>5, <1>6, LiveBegins

LEMMA LiveDeleteWhere ==
  ASSUME CrudInv, CrudTypes', NEW c \in Ormers, NEW k \in AllCols, DeleteWhere(c, k)
  PROVE  LiveInv'
<1>1. Calls(c) /\ Unwritten BY DEF DeleteWhere
<1>2. PICK args : work' = [work EXCEPT ![c] = <<[op |-> "find", col |-> k, args |-> args]>>] BY DEF DeleteWhere, Begins
<1> DEFINE s == <<[op |-> "find", col |-> k, args |-> args]>>
<1>3. Refers(db, s) BY DEF Refers
<1>4. work' = [work EXCEPT ![c] = s] BY <1>2
<1> HIDE DEF s
<1> QED BY <1>1, <1>3, <1>4, LiveBegins

LEMMA LiveDelete ==
  ASSUME CrudInv, CrudTypes', NEW c \in Ormers, NEW t \in Tables, Delete(c, t), WhereCols = {}
  PROVE  LiveInv'
<1>1. Turn(c) /\ work[c] = <<>> /\ Written(c) BY DEF Delete, Calls
<1>2. CASE (\E r, n : Return(c, r, n)) /\ UNCHANGED db BY <1>1, <1>2, SameGrows, LiveWrites DEF CrudInv
<1>3. CASE \E x \in Pks[t] \cup {Null} : DeleteBy(c, t, {x} \cap DOMAIN db[t], {x})
  <2>1. PICK x \in Pks[t] \cup {Null} : DeleteBy(c, t, {x} \cap DOMAIN db[t], {x}) BY <1>3
  <2> DEFINE pks == {x} \cap DOMAIN db[t]
  <2>2. {x} \in SUBSET Nat BY CrudAssumption DEF CrudAssumption, Null
  <2>3. DeleteRows(c, t, pks, {x}, <<>>) BY <2>1 DEF DeleteBy
  <2>4. pks \in SUBSET {x} OBVIOUS
  <2> HIDE DEF pks
  <2>5. UNCHANGED <<onDelete, txVars, hurt>> /\ (clean' => clean /\ \A d \in Ormers \ {c} : work[d] = <<>>) BY <1>1 DEF Written
  <2>6. \A d \in Ormers \ {c} : work'[d] = work[d] BY <2>3 DEF DeleteRows, CrudInv, CrudTypes, Works
  <2>7. \A k, p, v : ~Covers(work[c], k, p, v) BY <1>1, CoversEmpty
  <2>8. ASSUME clean', Sound(onDelete, db, work, Ormers) PROVE Sound(onDelete, db', work', Ormers)
    <3>1. Deleting(<<>>) /\ CrudTypes /\ onDelete' = onDelete BY <2>5, DeletingEmpty DEF CrudInv
    <3>2. \A d \in Ormers \ {c} : work[d] = <<>> BY <2>5, <2>8
    <3> QED BY <2>2, <2>3, <2>4, <2>7, <2>8, <3>1, <3>2, DeleteSound
  <2> QED BY <1>1, <2>5, <2>6, <2>8, LiveStep
<1> QED BY <1>2, <1>3 DEF Delete

LEMMA LiveFind ==
  ASSUME CrudInv, CrudTypes', NEW c \in Ormers, Find(c)
  PROVE  LiveInv'
<1>1. Turn(c) /\ Unwritten /\ work[c] # <<>> /\ Head(work[c]).op = "find" BY DEF Find, Statement
<1> DEFINE w == Head(work[c])  pks == Having(w.col, w.args)
           then == IF pks = {} THEN <<>> ELSE <<[op |-> "remove", on |-> Home(w.col), args |-> pks]>>
           s == then \o Tail(work[c])
<1>2. DOMAIN work = Ormers /\ Sendable(work[c]) /\ CrudTypes BY DEF CrudInv, CrudTypes, Works
<1>3. work' = [work EXCEPT ![c] = s] BY <1>2 DEF Find
<1>4. /\ w \in Sql /\ w = work[c][1] /\ 1 \in DOMAIN work[c]
      /\ DOMAIN work[c] = 1 .. Len(work[c]) /\ DOMAIN Tail(work[c]) = 1 .. Len(work[c]) - 1 /\ Len(work[c]) \in Nat
      /\ \A i \in 1 .. Len(work[c]) - 1 : Tail(work[c])[i] = work[c][i + 1]
  BY <1>1, <1>2, TailSendable
<1>5. w.col \in AllCols BY <1>1, <1>4, SqlFields
<1>6. Deleting(Tail(work[c])) BY <1>1, <1>2, DeletingOnward
<1>7. Deleting(then) /\ (pks # {} => \E j \in DOMAIN then : then[j].op = "remove" /\ then[j].on = Home(w.col) /\ then[j].args = pks)
  <2> DEFINE x == [op |-> "remove", on |-> Home(w.col), args |-> pks]
  <2>1. x \in Sql BY <1>2, <1>5, HomeOf, HavingKeys, SqlMade
  <2>2. x.op = "remove" /\ x.on = Home(w.col) /\ x.args = pks OBVIOUS
  <2>3. (pks = {} /\ then = <<>>) \/ (pks # {} /\ then = <<x>>) OBVIOUS
  <2> HIDE DEF x, then
  <2>4. Deleting(<<x>>) /\ DOMAIN (<<x>>) = {1} /\ (<<x>>)[1] = x BY <2>1, <2>2, DeletingOne
  <2>5. CASE pks = {} BY <2>3, <2>5, DeletingEmpty
  <2>6. CASE pks # {}
    <3>1. Deleting(then) /\ 1 \in DOMAIN then /\ then[1] = x BY <2>3, <2>4, <2>6
    <3> QED BY <2>2, <3>1
  <2> QED BY <2>5, <2>6
<1> HIDE DEF then
<1>8. Deleting(s) /\ Within(then, s) /\ Within(Tail(work[c]), s) BY <1>6, <1>7, DeletingConcat
<1> HIDE DEF s
<1>9. Refers(db, s) BY <1>8 DEF Refers, Deleting
<1>10. ASSUME NEW k \in AllCols, NEW p \in DOMAIN db[Home(k)], Covers(work[c], k, p, db[Home(k)][p][k])
       PROVE  Covers(s, k, p, db[Home(k)][p][k])
  <2> DEFINE v == db[Home(k)][p][k]
  <2>1. v = db[Home(k)][p][k] OBVIOUS
  <2> HIDE DEF v
  <2>2. PICK i \in DOMAIN work[c] :
           \/ work[c][i].op \in {"find", "clear"} /\ work[c][i].col = k /\ v \in work[c][i].args
           \/ work[c][i].op = "remove" /\ work[c][i].on = Home(k) /\ p \in work[c][i].args
    BY <1>10, <2>1 DEF Covers
  <2>3. CASE i = 1
    <3>1. w.col = k /\ v \in w.args BY <1>1, <1>4, <2>2, <2>3
    <3>2. p \in pks BY <2>1, <3>1 DEF Having
    <3>3. PICK j \in DOMAIN then : then[j].op = "remove" /\ then[j].on = Home(w.col) /\ then[j].args = pks BY <1>7, <3>2
    <3>4. PICK m \in DOMAIN s : s[m] = then[j] BY <1>8, <3>3 DEF Within
    <3>5. s[m].op = "remove" /\ s[m].on = Home(k) /\ p \in s[m].args BY <3>1, <3>2, <3>3, <3>4
    <3> QED BY <3>5 DEF Covers
  <2>4. CASE i # 1
    <3>1. i - 1 \in DOMAIN Tail(work[c]) /\ Tail(work[c])[i - 1] = work[c][i] BY <1>4, <2>4
    <3>2. PICK m \in DOMAIN s : s[m] = work[c][i] BY <1>8, <3>1 DEF Within
    <3>3. Covers(s, k, p, v) BY <2>2, <3>2 DEF Covers
    <3> QED BY <2>1, <3>3
  <2> QED BY <2>3, <2>4
<1>11. UNCHANGED <<onDelete, txVars, hurt>> /\ (clean' => clean) /\ Grows BY <1>1, <1>2, SameGrows DEF Unwritten
<1>12. work'[c] = s /\ \A d \in Ormers \ {c} : work'[d] = work[d] BY <1>2, <1>3, WorkOthers
<1> QED BY <1>1, <1>9, <1>10, <1>11, <1>12, LiveGrow

LEMMA LiveRemoveRows ==
  ASSUME CrudInv, CrudTypes', NEW c \in Ormers, RemoveRows(c)
  PROVE  LiveInv'
<1> DEFINE w == Head(work[c])
<1>1. Turn(c) /\ Written(c) /\ work[c] # <<>> /\ w.op = "remove" BY DEF RemoveRows, Statement
<1>2. DeleteRows(c, w.on, w.args \cap DOMAIN db[w.on], w.args, Tail(work[c])) BY DEF RemoveRows
<1>3. DOMAIN work = Ormers /\ Sendable(work[c]) /\ CrudTypes BY DEF CrudInv, CrudTypes, Works
<1>4. /\ w \in Sql /\ w = work[c][1] /\ 1 \in DOMAIN work[c]
      /\ DOMAIN work[c] = 1 .. Len(work[c]) /\ DOMAIN Tail(work[c]) = 1 .. Len(work[c]) - 1 /\ Len(work[c]) \in Nat
      /\ \A i \in 1 .. Len(work[c]) - 1 : Tail(work[c])[i] = work[c][i + 1]
  BY <1>1, <1>3, TailSendable
<1>5. w.on \in Tables /\ w.args \in SUBSET Nat BY <1>1, <1>4, SqlFields
<1>6. Deleting(Tail(work[c])) BY <1>1, <1>3, DeletingOnward
<1>7. UNCHANGED <<onDelete, txVars, hurt>> /\ (clean' => clean /\ \A d \in Ormers \ {c} : work[d] = <<>>) BY <1>1 DEF Written
<1>8. \A d \in Ormers \ {c} : work'[d] = work[d] BY <1>2, <1>3 DEF DeleteRows
<1> DEFINE pks == w.args \cap DOMAIN db[w.on]
<1>9. ASSUME NEW k \in AllCols, NEW p \in DOMAIN db[Home(k)], ~(Home(k) = w.on /\ p \in pks), Covers(work[c], k, p, db[Home(k)][p][k])
      PROVE  Covers(Tail(work[c]), k, p, db[Home(k)][p][k])
  <2> DEFINE v == db[Home(k)][p][k]
  <2>1. v = db[Home(k)][p][k] OBVIOUS
  <2> HIDE DEF v
  <2>2. PICK i \in DOMAIN work[c] :
           \/ work[c][i].op \in {"find", "clear"} /\ work[c][i].col = k /\ v \in work[c][i].args
           \/ work[c][i].op = "remove" /\ work[c][i].on = Home(k) /\ p \in work[c][i].args
    BY <1>9, <2>1 DEF Covers
  <2>3. i # 1 BY <1>1, <1>4, <1>9, <2>2
  <2>4. i - 1 \in DOMAIN Tail(work[c]) /\ Tail(work[c])[i - 1] = work[c][i] BY <1>4, <2>3
  <2>5. Covers(Tail(work[c]), k, p, v) BY <2>2, <2>4 DEF Covers
  <2> QED BY <2>1, <2>5
<1>10. ASSUME clean', Sound(onDelete, db, work, Ormers) PROVE Sound(onDelete, db', work', Ormers)
  <2>1. \A d \in Ormers \ {c} : work[d] = <<>> BY <1>7, <1>10
  <2>2. pks \in SUBSET w.args OBVIOUS
  <2>3. DeleteRows(c, w.on, pks, w.args, Tail(work[c])) BY <1>2
  <2> HIDE DEF pks, w
  <2> QED BY <1>3, <1>5, <1>6, <1>7, <1>9, <1>10, <2>1, <2>2, <2>3, DeleteSound
<1> QED BY <1>1, <1>7, <1>8, <1>10, LiveStep

LEMMA LiveClear ==
  ASSUME CrudInv, CrudTypes', NEW c \in Ormers, Clear(c)
  PROVE  LiveInv'
<1>1. Turn(c) /\ Written(c) BY DEF Clear, Statement
<1>2. UNCHANGED <<onDelete, txVars, hurt>> /\ (clean' => clean /\ \A d \in Ormers \ {c} : work[d] = <<>>) BY <1>1 DEF Written
<1>3. \A d \in Ormers \ {c} : work'[d] = work[d] BY DEF Clear, CrudInv, CrudTypes, Works
<1>4. ASSUME clean', Sound(onDelete, db, work, Ormers) PROVE Sound(onDelete, db', work', Ormers)
  BY <1>2, <1>4, ClearSound DEF CrudInv
<1> QED BY <1>1, <1>2, <1>3, <1>4, LiveStep

LEMMA LiveInsertRows ==
  ASSUME CrudInv, CrudTypes', NEW c \in Ormers, InsertRows(c)
  PROVE  LiveInv'
<1> DEFINE w == Head(work[c])
<1>1. Turn(c) /\ Written(c) /\ work[c] # <<>> /\ w.op = "insert" BY DEF InsertRows, Statement
<1>2. DOMAIN work = Ormers /\ Sendable(work[c]) /\ CrudTypes BY DEF CrudInv, CrudTypes, Works
<1>3. /\ w \in Sql /\ w = work[c][1] /\ 1 \in DOMAIN work[c]
      /\ DOMAIN work[c] = 1 .. Len(work[c]) /\ DOMAIN Tail(work[c]) = 1 .. Len(work[c]) - 1 /\ Len(work[c]) \in Nat
      /\ \A i \in 1 .. Len(work[c]) - 1 : Tail(work[c])[i] = work[c][i + 1]
  BY <1>1, <1>2, TailSendable
<1>4. w.on \in Tables /\ w.rows \in RowsOf(w.on) BY <1>1, <1>3, SqlFields
<1>5. UNCHANGED <<onDelete, txVars, hurt>> /\ (clean' => clean) BY <1>1 DEF Written
<1>6. /\ work'[c] \in {Tail(work[c]), <<>>} /\ (\A d \in Ormers \ {c} : work'[d] = work[d])
      /\ UNCHANGED db \/ InsertValue(w.on, w.rows)
  BY <1>2 DEF InsertRows
<1>7. \A k, p, v : ~Covers(work[c], k, p, v) BY <1>1, <1>2, InsertsCover
<1>8. ASSUME Sound(onDelete, db, work, Ormers) PROVE Sound(onDelete, db', work', Ormers)
  <2>1. Refers(db, work[c]) BY <1>8, SoundRefers
  <2>2. \A j \in DOMAIN w.rows : \A k \in Cols[w.on] : w.rows[j].row[k] \in DOMAIN db[RefTo[k]] \cup {Null}
    BY <1>1, <1>3, <2>1 DEF Refers
  <2> HIDE DEF w
  <2>3. Grows BY <1>2, <1>4, <1>6, <2>2, InsertGrows, SameGrows
  <2>4. Refers(db, Tail(work[c])) BY <1>3, <2>1 DEF Refers
  <2>5. Refers(db, work'[c]) BY <1>6, <2>4, CoversEmpty
  <2> QED BY <1>2, <1>6, <1>7, <1>8, <2>3, <2>5, GrowSound
<1> QED BY <1>1, <1>5, <1>6, <1>8, LiveStep

LEMMA LiveErrArgs ==
  ASSUME CrudInv, CrudTypes', NEW c \in Ormers, ErrArgs(c)
  PROVE  LiveInv'
<1>1. Turn(c) /\ Unwritten /\ work[c] # <<>> /\ Head(work[c]).op = "errArgs" /\ work' = [work EXCEPT ![c] = <<>>]
  BY DEF ErrArgs, Statement
<1>2. Sendable(work[c]) /\ CrudTypes BY DEF CrudInv, CrudTypes, Works
<1>3. \A k, p, v : ~Covers(work[c], k, p, v) BY <1>1, <1>2, InsertsCover
<1>4. work'[c] = <<>> /\ \A d \in Ormers \ {c} : work'[d] = work[d] BY <1>1, <1>2, WorkOthers
<1>5. UNCHANGED <<onDelete, txVars, hurt>> /\ (clean' => clean) /\ Grows BY <1>1, <1>2, SameGrows DEF Unwritten
<1>6. Refers(db, work'[c]) BY <1>4, CoversEmpty
<1> QED BY <1>1, <1>3, <1>4, <1>5, <1>6, LiveGrow

\* A delete left half done is no longer clean; in a transaction the rollback
\* still is.
LEMMA LiveFail ==
  ASSUME CrudInv, NEW c \in Ormers, Fail(c)
  PROVE  LiveInv'
<1>1. Turn(c) /\ UNCHANGED <<onDelete, txVars>> BY DEF Fail
<1>2. \A d \in Ormers \ {c} : work'[d] = work[d] BY DEF Fail, CrudInv, CrudTypes, Works
<1>3. CASE owner = c
  <2>1. hurt' /\ clean' = clean /\ owner' = c /\ saved' = saved /\ c # Free BY <1>1, <1>3, CrudAssumption DEF Fail, CrudAssumption, txVars
  <2>2. clean => Sound(onDelete, saved, work, Ormers \ {c}) BY <1>3, <2>1 DEF CrudInv, LiveInv
  <2>3. clean => Sound(onDelete, saved, work', Ormers \ {c}) BY <1>2, <2>2, SoundFrozen
  <2> QED BY <1>1, <2>1, <2>3 DEF LiveInv
<1>4. CASE owner # c
  <2>1. owner = Free /\ ~clean' /\ hurt' = hurt /\ owner' = Free BY <1>1, <1>4 DEF Fail, Turn, txVars
  <2> QED BY <2>1 DEF CrudInv, LiveInv
<1> QED BY <1>3, <1>4

LEMMA SoundIdle ==
  ASSUME NEW c \in Ormers, NEW d, work[c] = <<>>
  PROVE  Sound(onDelete, d, work, Ormers) <=> Sound(onDelete, d, work, Ormers \ {c})
BY CoversEmpty DEF Sound

LEMMA LiveTransaction ==
  ASSUME CrudInv, NEW c \in Ormers, Begin(c) \/ Rollback(c) \/ Commit(c)
  PROVE  LiveInv'
<1>1. CASE Begin(c)
  <2>1. owner = Free /\ owner' = c /\ saved' = db /\ work[c] = <<>> /\ work' = work /\ UNCHANGED <<onDelete, db, clean, hurt>>
    BY <1>1 DEF Begin, Calls, Return
  <2>2. ~hurt /\ c # Free /\ (clean => Sound(onDelete, db, work, Ormers)) BY <2>1, CrudAssumption DEF CrudAssumption, CrudInv, LiveInv
  <2>3. clean => Sound(onDelete, db, work, Ormers \ {c}) BY <2>1, <2>2, SoundIdle
  <2> QED BY <2>1, <2>2, <2>3 DEF LiveInv
<1>2. CASE Rollback(c)
  <2>1. owner = c /\ owner' = Free /\ db' = saved /\ work[c] = <<>> /\ work' = work /\ ~hurt' /\ UNCHANGED <<onDelete, clean>>
    BY <1>2 DEF Rollback, InTx, Return
  <2>2. clean => Sound(onDelete, saved, work, Ormers \ {c}) BY <2>1, CrudAssumption DEF CrudAssumption, CrudInv, LiveInv
  <2>3. clean => Sound(onDelete, saved, work, Ormers) BY <2>1, <2>2, SoundIdle
  <2> QED BY <2>1, <2>3 DEF LiveInv
<1>3. CASE Commit(c)
  <2>1. owner = c /\ owner' = Free /\ work[c] = <<>> /\ work' = work /\ ~hurt' /\ onDelete' = onDelete
        /\ \/ clean' = (clean /\ ~hurt) /\ db' = db
           \/ db' = saved /\ clean' = clean
    BY <1>3 DEF Commit, InTx, Return
  <2>2. clean => Sound(onDelete, saved, work, Ormers \ {c}) BY <2>1, CrudAssumption DEF CrudAssumption, CrudInv, LiveInv
  <2>3. clean => Sound(onDelete, saved, work, Ormers) BY <2>1, <2>2, SoundIdle
  <2>4. clean' => Sound(onDelete, db', work, Ormers) BY <2>1, <2>3 DEF CrudInv, LiveInv
  <2> QED BY <2>1, <2>4 DEF LiveInv
<1> QED BY <1>1, <1>2, <1>3

LEMMA CrudInvInit ==
  ASSUME CrudInit
  PROVE  CrudInv
<1>1. \A c \in Ormers : work[c] = <<>> BY DEF CrudInit
<1>2. \A c \in Ormers : Refers(db, work[c]) BY <1>1, CoversEmpty
<1>3. \A k \in AllCols : \A p \in DOMAIN db[Home(k)] : db[Home(k)][p][k] \in DOMAIN db[RefTo[k]] \cup {Null}
  BY InputAssumption DEF InputAssumption, CrudInit
<1>4. Sound(onDelete, db, work, Ormers) BY <1>2, <1>3 DEF Sound
<1> QED BY <1>4, CrudTypesInit DEF CrudInv, LiveInv, CrudInit

LEMMA CrudInvNext ==
  ASSUME CrudInv, [CrudNext]_crudVars, WhereCols = {}
  PROVE  CrudInv'
<1>1. CrudTypes' /\ CrudTypes BY CrudTypesNext DEF CrudInv
<1>2. ASSUME NEW c \in Ormers, NEW t \in Tables,
             Read(c, t) \/ Insert(c, t) \/ InsertOrUpdate(c, t) \/ AddM2M(c, t) \/ Delete(c, t)
      PROVE  LiveInv'
  <2>1. CASE Read(c, t) BY <1>1, <2>1, LiveRead
  <2>2. CASE Delete(c, t) BY <1>1, <2>2, LiveDelete
  <2>3. CASE Insert(c, t) \/ InsertOrUpdate(c, t) \/ AddM2M(c, t)
    <3>1. Turn(c) BY <2>3 DEF Insert, InsertOrUpdate, AddM2M, Calls
    <3> QED BY <1>1, <2>3, <3>1, InsertWrites, InsertOrUpdateWrites, AddM2MWrites, LiveWrites
  <2> QED BY <1>2, <2>1, <2>2, <2>3
<1>3. ASSUME NEW c \in Ormers, NEW k \in AllCols,
             ReadOrCreate(c, k) \/ Update(c, k) \/ DeleteWhere(c, k) \/ UpdateWhere(c, k)
      PROVE  LiveInv'
  <2>1. CASE Update(c, k) \/ UpdateWhere(c, k)
    <3>1. Turn(c) BY <2>1 DEF Update, UpdateWhere, Calls
    <3> QED BY <1>1, <2>1, <3>1, UpdateWrites, UpdateWhereWrites, LiveWrites
  <2> QED BY <1>1, <1>3, <2>1, LiveReadOrCreate, LiveDeleteWhere
<1>4. ASSUME NEW c \in Ormers,
             InsertMulti(c) \/ InserterClose(c) \/ InserterClosed(c) \/ Begin(c) \/ Rollback(c) \/ Commit(c)
      PROVE  LiveInv'
  BY <1>1, <1>4, LiveInsertMulti, LiveInserter, LiveTransaction
<1>5. ASSUME NEW c \in Ormers, Continue(c) \/ Fail(c) PROVE LiveInv'
  BY <1>1, <1>5, LiveFind, LiveRemoveRows, LiveClear, LiveInsertRows, LiveErrArgs, LiveFail DEF Continue
<1>6. ASSUME UNCHANGED crudVars PROVE LiveInv'
  <2>1. UNCHANGED <<onDelete, db, work, clean, hurt>> /\ UNCHANGED <<owner, saved>> BY <1>6 DEF crudVars, txVars
  <2> QED BY <2>1 DEF CrudInv, LiveInv
<1>7. LiveInv' BY <1>2, <1>3, <1>4, <1>5, <1>6 DEF CrudNext, Operation
<1> QED BY <1>1, <1>7 DEF CrudInv

LEMMA TypesSound ==
  ASSUME CrudTypes
  PROVE  CrudTypeOK /\ MultiComplete
<1>1. ASSUME NEW c \in Ormers, NEW i \in DOMAIN work[c] PROVE work[c][i].op \in {"find", "remove", "clear", "insert", "errArgs"}
  <2>1. work[c][i] \in Sql BY LenProperties, ElementOfSeq DEF CrudTypes, Works, Sendable
  <2> QED BY <2>1, SqlFields
<1>2. ASSUME NEW c \in Ormers, asked[c] > 0, work[c] = <<>>, result[c][1] = "ok"
      PROVE  result[c][2] = asked[c]
  <2>1. Counting(<<>>, asked[c], result[c]) BY <1>2 DEF CrudTypes, Works
  <2>2. Len(<<>>) = 0 /\ DOMAIN (<<>>) = {} BY EmptySendable
  <2>3. asked[c] \in Nat /\ result[c][2] \in Nat /\ \E b \in Nat \ {0} : Remaining(<<>>, asked[c] - result[c][2], b)
    BY <1>2, <2>1, <2>2 DEF Counting
  <2>4. asked[c] - result[c][2] = 0
    <3>1. PICK b \in Nat \ {0} : Remaining(<<>>, asked[c] - result[c][2], b) BY <2>3
    <3>2. 0 * b = 0 OBVIOUS
    <3> QED BY <2>2, <3>1, <3>2 DEF Remaining
  <2> QED BY <2>3, <2>4
<1> QED BY <1>1, <1>2 DEF CrudTypeOK, MultiComplete, CrudTypes, Stored

LEMMA LiveOrphans ==
  ASSUME CrudInv
  PROVE  NoOrphans
<1> SUFFICES ASSUME clean, ~hurt, \A c \in Ormers : work[c] = <<>>, NEW k \in AllCols, onDelete[k] \in {"cascade", "set_null"}
             PROVE  Having(k, Pks[RefTo[k]]) = Having(k, DOMAIN db[RefTo[k]])
  BY DEF NoOrphans
<1>1. RefTo[k] \in Tables /\ Home(k) \in Tables BY HomeOf
<1>2. DOMAIN db[RefTo[k]] \subseteq Pks[RefTo[k]] BY <1>1 DEF CrudInv, CrudTypes, Stored, Rows
<1>3. Null \notin Pks[RefTo[k]] BY <1>1, CrudAssumption DEF CrudAssumption
<1>4. \A p \in DOMAIN db[Home(k)] : db[Home(k)][p][k] \in DOMAIN db[RefTo[k]] \cup {Null}
  BY CoversEmpty DEF CrudInv, LiveInv, Sound
<1> QED BY <1>2, <1>3, <1>4 DEF Having

\* The database holds rows of its models only, and an InsertMulti that
\* reports success stored and counted every row: for any schema, batches and
\* ways to delete.
THEOREM CrudTypeCorrect == CrudSpec => [](CrudTypeOK /\ MultiComplete)
<1>1. CrudInit => CrudTypes BY CrudTypesInit
<1>2. CrudTypes /\ [CrudNext]_crudVars => CrudTypes' BY CrudTypesNext
<1>3. CrudTypes => CrudTypeOK /\ MultiComplete BY TypesSound
<1> QED BY <1>1, <1>2, <1>3, PTL DEF CrudSpec

\* No reference outlives the row it refers to, if rows are deleted by key or
\* through a QuerySeter.  (Delete by a column hands the column's value to
\* deleteRels as if it were the key.)
THEOREM StatementsSound ==
  ASSUME WhereCols = {}
  PROVE  CrudSpec => []DatabaseSound
<1>1. CrudInit => CrudInv BY CrudInvInit
<1>2. CrudInv /\ [CrudNext]_crudVars => CrudInv' BY CrudInvNext
<1>3. CrudInv => DatabaseSound BY TypesSound, LiveOrphans DEF CrudInv, DatabaseSound
<1> QED BY <1>1, <1>2, <1>3, PTL DEF CrudSpec

\* What the statement w takes is in D.
FatedBy(w, d, D) ==
  /\ w.op = "find" => \A p \in DOMAIN d[Home(w.col)] :
       d[Home(w.col)][p][w.col] \in w.args => <<Home(w.col), p>> \in D
  /\ w.op = "remove" => \A p \in w.args : <<w.on, p>> \in D
Fated(s, d, D) == \A i \in DOMAIN s : FatedBy(s[i], d, D)
Cascades(s) == \A i \in DOMAIN s : s[i].op = "find" => onDelete[s[i].col] = "cascade"
Inserts(s) == \A i \in DOMAIN s : s[i].op \in {"insert", "errArgs"}

\* What a delete may still take it was to take from the start; only its first
\* SELECT may be of a column that does not cascade.
Doom(c) ==
  /\ Fated(work[c], db, doomed[c])
  /\ \A i \in DOMAIN work[c] : i # 1 /\ work[c][i].op = "find" => onDelete[work[c][i].col] = "cascade"
  /\ Inserts(work[c]) \/ Closed(doomed[c])

\* A transaction that overlaps another client's operation has written nothing.
DoomInv ==
  /\ DOMAIN doomed = Ormers
  /\ clean => \A c \in Ormers : Doom(c)
  /\ clean /\ owner # Free /\ (\E c \in Ormers \ {owner} : work[c] # <<>>) => saved = db

LEMMA ClosureRight ==
  ASSUME CrudTypes, NEW t \in Tables, NEW pks \in SUBSET DOMAIN db[t]
  PROVE  /\ \A p \in pks : <<t, p>> \in Closure({t} \X pks)
         /\ Closed(Closure({t} \X pks))
<1> DEFINE S == {t} \X pks
           stored == {x \in Tables \X UNION {Pks[u] : u \in Tables} : x[2] \in DOMAIN db[x[1]]}
<1>1. \A u \in Tables : \A p \in DOMAIN db[u] : <<u, p>> \in stored BY DEF CrudTypes, Stored, Rows
<1>2. Closure(S) = {x \in stored : \A X \in SUBSET stored : S \subseteq X /\ Closed(X) => x \in X} BY DEF Closure
<1>3. ASSUME NEW p \in pks PROVE <<t, p>> \in Closure(S)
  <2>1. <<t, p>> \in S /\ <<t, p>> \in stored BY <1>1
  <2> QED BY <1>2, <2>1
<1> HIDE DEF stored
<1>4. ASSUME NEW k \in AllCols, onDelete[k] = "cascade", NEW p \in DOMAIN db[Home(k)],
             <<RefTo[k], db[Home(k)][p][k]>> \in Closure(S)
      PROVE  <<Home(k), p>> \in Closure(S)
  <2>1. <<Home(k), p>> \in stored BY <1>1, HomeOf
  <2>2. ASSUME NEW X \in SUBSET stored, S \subseteq X, Closed(X) PROVE <<Home(k), p>> \in X
    <3>1. <<RefTo[k], db[Home(k)][p][k]>> \in X BY <1>2, <1>4, <2>2
    <3> QED BY <1>4, <2>2, <3>1 DEF Closed
  <2> QED BY <1>2, <2>1, <2>2
<1>5. Closed(Closure(S)) BY <1>4 DEF Closed
<1> QED BY <1>3, <1>5

LEMMA ConcatParts ==
  ASSUME NEW s, NEW r, Deleting(s), Deleting(r), NEW i \in DOMAIN (s \o r)
  PROVE  (\E j \in DOMAIN s : (s \o r)[i] = s[j]) \/ (\E j \in DOMAIN r : (s \o r)[i] = r[j])
<1>1. /\ Len(s) \in Nat /\ Len(r) \in Nat
      /\ DOMAIN s = 1 .. Len(s) /\ DOMAIN r = 1 .. Len(r) /\ DOMAIN (s \o r) = 1 .. Len(s) + Len(r)
      /\ \A j \in 1 .. Len(s) + Len(r) : (s \o r)[j] = IF j <= Len(s) THEN s[j] ELSE r[j - Len(s)]
  <2>1. s \in Seq(Sql) /\ r \in Seq(Sql) /\ s \o r \in Seq(Sql) /\ Len(s \o r) = Len(s) + Len(r) BY ConcatProperties DEF Deleting
  <2> QED BY <2>1, ConcatProperties, LenProperties
<1>2. CASE i <= Len(s) BY <1>1, <1>2
<1>3. CASE ~(i <= Len(s))
  <2>1. i - Len(s) \in DOMAIN r /\ (s \o r)[i] = r[i - Len(s)] BY <1>1, <1>3
  <2> QED BY <2>1
<1> QED BY <1>2, <1>3

LEMMA ConcatFated ==
  ASSUME NEW s, NEW r, NEW d, NEW D, Deleting(s), Deleting(r), Fated(s, d, D), Fated(r, d, D), Cascades(s), Cascades(r)
  PROVE  Fated(s \o r, d, D) /\ Cascades(s \o r)
<1>1. \A i \in DOMAIN (s \o r) : (\E j \in DOMAIN s : (s \o r)[i] = s[j]) \/ (\E j \in DOMAIN r : (s \o r)[i] = r[j]) BY ConcatParts
<1>2. Fated(s \o r, d, D) BY <1>1 DEF Fated
<1>3. Cascades(s \o r) BY <1>1 DEF Cascades
<1> QED BY <1>2, <1>3

\* Rows that go take nothing else with them.
LEMMA FatedLess ==
  ASSUME NEW s, Deleting(s), NEW D, Fated(s, db, D),
         \A u \in Tables : DOMAIN db'[u] \subseteq DOMAIN db[u] /\ \A p \in DOMAIN db'[u] : db'[u][p] = db[u][p]
  PROVE  Fated(s, db', D)
<1> SUFFICES ASSUME NEW i \in DOMAIN s PROVE FatedBy(s[i], db', D) BY DEF Fated
<1>1. s[i] \in Sql /\ FatedBy(s[i], db, D) BY LenProperties, ElementOfSeq DEF Fated, Deleting
<1>2. s[i].op = "find" => Home(s[i].col) \in Tables BY <1>1, SqlFields, HomeOf
<1> QED BY <1>1, <1>2 DEF FatedBy

\* DELETE of rows in D, and what deleteRels asks for.
LEMMA DoomDelete ==
  ASSUME CrudTypes, NEW c \in Ormers, NEW t \in Tables, NEW pks, NEW args \in SUBSET Nat, NEW rest, Deleting(rest),
         DeleteRows(c, t, pks, args, rest), onDelete' = onDelete,
         NEW D, Closed(D), Fated(rest, db, D), Cascades(rest), pks # {} => \A p \in args : <<t, p>> \in D
  PROVE  /\ Closed(D)' /\ Fated(work'[c], db', D) /\ Cascades(work'[c])
         /\ \A d \in Ormers \ {c} : work'[d] = work[d]
<1> DEFINE a == IF pks = {} THEN <<>> ELSE DeleteRels(t, args)
<1>1. \A u \in Tables : DOMAIN db'[u] \subseteq DOMAIN db[u] /\ \A p \in DOMAIN db'[u] : db'[u][p] = db[u][p]
  <2>1. Gone(t, pks) BY Zenon DEF DeleteRows, Gone
  <2>2. /\ \A u \in Tables : DOMAIN db'[u] = IF u = t THEN DOMAIN db[u] \ pks ELSE DOMAIN db[u]
        /\ \A u \in Tables : \A p \in DOMAIN db'[u] : db'[u][p] = db[u][p]
    BY <2>1, DeleteShape
  <2>3. ASSUME NEW u \in Tables PROVE DOMAIN db'[u] \subseteq DOMAIN db[u] BY <2>2
  <2> QED BY <2>2, <2>3
<1>2. work' = [work EXCEPT ![c] = a \o rest] BY DEF DeleteRows
<1>3. work'[c] = a \o rest /\ \A d \in Ormers \ {c} : work'[d] = work[d] BY <1>2, WorkOthers
<1>r. RelsRight(t, args) BY RelsSendable
<1>4. /\ DeleteRels(t, args) \in Seq(Sql)
      /\ \A i \in DOMAIN DeleteRels(t, args) : LET w == DeleteRels(t, args)[i] IN
           /\ w.op \in {"find", "clear"} /\ (w.op = "clear" => onDelete[w.col] \in {"set_null", "set_default"})
           /\ w.op = "find" => w.col \in Fk(t, {"cascade"}) /\ w.args = args
  BY <1>r DEF RelsRight
<1>5. Deleting(DeleteRels(t, args)) BY <1>4 DEF Deleting
<1>6. Deleting(a) BY <1>5, DeletingEmpty
<1>7. Closed(D)'
  <2>1. SUFFICES ASSUME NEW k \in AllCols, onDelete[k] = "cascade", NEW p \in DOMAIN db'[Home(k)],
                        <<RefTo[k], db'[Home(k)][p][k]>> \in D
                 PROVE  <<Home(k), p>> \in D
    BY DEF Closed
  <2> QED BY <1>1, <2>1, HomeOf DEF Closed
<1>8. Fated(rest, db', D) BY <1>1, FatedLess
<1>9. Fated(a, db', D) /\ Cascades(a)
  <2>1. CASE pks = {}
    <3>1. DOMAIN a = {} BY <2>1, EmptySeq
    <3> QED BY <3>1 DEF Fated, Cascades
  <2>2. CASE pks # {}
    <3>1. a = DeleteRels(t, args) BY <2>2
    <3> HIDE DEF a
    <3>2. ASSUME NEW i \in DOMAIN a PROVE FatedBy(a[i], db, D) /\ (a[i].op = "find" => onDelete[a[i].col] = "cascade")
      <4>1. a[i].op \in {"find", "clear"} /\ (a[i].op = "find" => a[i].col \in Fk(t, {"cascade"}) /\ a[i].args = args) BY <1>4, <3>1
      <4>2. CASE a[i].op = "find"
        <5>1. a[i].col \in AllCols /\ RefTo[a[i].col] = t /\ onDelete[a[i].col] = "cascade" /\ a[i].args = args BY <4>1, <4>2 DEF Fk
        <5>2. \A p \in DOMAIN db[Home(a[i].col)] : db[Home(a[i].col)][p][a[i].col] \in args => <<Home(a[i].col), p>> \in D
          BY <2>2, <5>1 DEF Closed
        <5> QED BY <4>2, <5>1, <5>2 DEF FatedBy
      <4> QED BY <4>1, <4>2 DEF FatedBy
    <3>3. Fated(a, db, D) /\ Cascades(a) BY <3>2 DEF Fated, Cascades
    <3> QED BY <1>1, <1>6, <3>3, FatedLess
  <2> QED BY <2>1, <2>2
<1> HIDE DEF a
<1> QED BY <1>3, <1>6, <1>7, <1>8, <1>9, ConcatFated

\* What is known of a delete before its next statement.
LEMMA DoomHead ==
  ASSUME CrudTypes, NEW c \in Ormers, Doom(c), work[c] # <<>>, Head(work[c]).op \in {"find", "remove", "clear"}
  PROVE  /\ Head(work[c]) \in Sql /\ FatedBy(Head(work[c]), db, doomed[c])
         /\ Deleting(Tail(work[c])) /\ Fated(Tail(work[c]), db, doomed[c]) /\ Cascades(Tail(work[c]))
         /\ Closed(doomed[c])
<1> DEFINE s == work[c]
<1>1. Sendable(s) BY DEF CrudTypes, Works
<1>2. /\ Head(s) \in Sql /\ Head(s) = s[1] /\ Len(s) \in Nat \ {0}
      /\ DOMAIN s = 1 .. Len(s) /\ DOMAIN Tail(s) = 1 .. Len(s) - 1
      /\ \A i \in 1 .. Len(s) - 1 : Tail(s)[i] = s[i + 1]
  BY <1>1, TailSendable
<1>3. 1 \in DOMAIN s /\ \A i \in DOMAIN Tail(s) : i + 1 \in DOMAIN s /\ i + 1 # 1 /\ Tail(s)[i] = s[i + 1] BY <1>2
<1>4. Deleting(Tail(s)) BY <1>1, DeletingOnward
<1>5. FatedBy(Head(s), db, doomed[c]) /\ Fated(Tail(s), db, doomed[c]) BY <1>2, <1>3 DEF Doom, Fated
<1>6. Cascades(Tail(s)) BY <1>3 DEF Doom, Cascades
<1>7. Closed(doomed[c]) BY <1>2, <1>3 DEF Doom, Inserts
<1> QED BY <1>2, <1>4, <1>5, <1>6, <1>7

LEMMA DoomInserts ==
  ASSUME NEW c \in Ormers, Inserts(work'[c])
  PROVE  Doom(c)'
<1>1. \A i \in DOMAIN work'[c] : work'[c][i].op \notin {"find", "remove"} BY DEF Inserts
<1>2. Fated(work'[c], db', doomed'[c]) BY <1>1 DEF Fated, FatedBy
<1> QED BY <1>1, <1>2 DEF Doom, Inserts

LEMMA DoomCascades ==
  ASSUME NEW c \in Ormers, Fated(work'[c], db', doomed'[c]), Cascades(work'[c]), Closed(doomed[c])', onDelete' = onDelete
  PROVE  Doom(c)'
BY DEF Doom, Cascades

\* A step that is not the end of a transaction.
LEMMA DoomStep ==
  ASSUME CrudTypes, DoomInv, NEW c \in Ormers, Turn(c), UNCHANGED <<onDelete, txVars>>, DOMAIN doomed' = Ormers,
         \A d \in Ormers \ {c} : work'[d] = work[d] /\ doomed'[d] = doomed[d],
         clean' => clean /\ (db' = db \/ \A d \in Ormers \ {c} : work[d] = <<>>),
         clean' => Doom(c)'
  PROVE  DoomInv'
<1>1. UNCHANGED <<owner, saved>> BY DEF txVars
<1>2. ASSUME clean', NEW d \in Ormers \ {c} PROVE Doom(d)'
  <2>1. Doom(d) /\ work'[d] = work[d] /\ doomed'[d] = doomed[d] BY <1>2 DEF DoomInv
  <2>2. CASE db' = db BY <2>1, <2>2 DEF Doom, Closed
  <2>3. CASE work[d] = <<>>
    <3>1. DOMAIN work'[d] = {} BY <2>1, <2>3, EmptySeq
    <3> QED BY <3>1, DoomInserts DEF Inserts
  <2> QED BY <1>2, <2>2, <2>3
<1>3. ASSUME clean', owner' # Free, \E d \in Ormers \ {owner'} : work'[d] # <<>> PROVE saved' = db'
  <2>1. owner' = c BY <1>1, <1>3 DEF Turn
  <2> QED BY <1>1, <1>3, <2>1 DEF DoomInv
<1> QED BY <1>2, <1>3 DEF DoomInv

\* A client that is between two operations, or returns from one.
LEMMA DoomReturn ==
  ASSUME CrudTypes, DoomInv, NEW c \in Ormers, Turn(c), work[c] = <<>>, UNCHANGED <<onDelete, txVars, work, doomed>>,
         clean' => clean /\ (db' = db \/ \A d \in Ormers \ {c} : work[d] = <<>>)
  PROVE  DoomInv'
<1>1. DOMAIN work'[c] = {} BY EmptySeq
<1>2. Doom(c)' BY <1>1, DoomInserts DEF Inserts
<1>3. DOMAIN doomed' = Ormers BY DEF DoomInv
<1> QED BY <1>2, <1>3, DoomStep

LEMMA DoomReads ==
  ASSUME CrudTypes, DoomInv, NEW c \in Ormers, Turn(c), work[c] = <<>>, UNCHANGED <<onDelete, txVars, db, clean>>, \E r, n : Return(c, r, n)
  PROVE  DoomInv'
<1>1. UNCHANGED <<work, doomed>> BY DEF Return
<1> QED BY <1>1, DoomReturn

LEMMA DoomWrites ==
  ASSUME CrudTypes, DoomInv, NEW c \in Ormers, Turn(c), work[c] = <<>>, Written(c), \E r, n : Return(c, r, n)
  PROVE  DoomInv'
<1>1. UNCHANGED <<work, doomed>> BY DEF Return
<1>2. UNCHANGED <<onDelete, txVars>> /\ (clean' => clean /\ \A d \in Ormers \ {c} : work[d] = <<>>) BY DEF Written
<1> QED BY <1>1, <1>2, DoomReturn

\* A client whose statements are now s.
LEMMA DoomSends ==
  ASSUME CrudTypes, DoomInv, NEW c \in Ormers, Turn(c), UNCHANGED <<onDelete, txVars, doomed>>, NEW s, work' = [work EXCEPT ![c] = s],
         clean' => clean /\ (db' = db \/ \A d \in Ormers \ {c} : work[d] = <<>>),
         clean' => Inserts(s) \/ Doom(c)'
  PROVE  DoomInv'
<1>1. work'[c] = s /\ \A d \in Ormers \ {c} : work'[d] = work[d] BY WorkOthers
<1>2. clean' => Doom(c)' BY <1>1, DoomInserts
<1>3. DOMAIN doomed' = Ormers /\ \A d \in Ormers \ {c} : doomed'[d] = doomed[d] BY DEF DoomInv
<1> QED BY <1>1, <1>2, <1>3, DoomStep

LEMMA DoomReadOrCreate ==
  ASSUME CrudTypes, DoomInv, NEW c \in Ormers, NEW k \in AllCols, ReadOrCreate(c, k)
  PROVE  DoomInv'
<1>1. Turn(c) /\ work[c] = <<>> /\ UNCHANGED <<onDelete, txVars, db, clean>> BY DEF ReadOrCreate, Calls, Unwritten
<1>2. CASE \E r, n : Return(c, r, n) BY <1>1, <1>2, DoomReads
<1>3. ASSUME NEW rs, Begins(c, <<[op |-> "insert", on |-> Home(k), rows |-> rs]>>, 0), UNCHANGED doomed PROVE DoomInv'
  <2> DEFINE w == [op |-> "insert", on |-> Home(k), rows |-> rs]
  <2>1. work' = [work EXCEPT ![c] = <<w>>] BY <1>3 DEF Begins
  <2>2. w.op = "insert" OBVIOUS
  <2> HIDE DEF w
  <2>3. Inserts(<<w>>) BY <2>2 DEF Inserts
  <2> QED BY <1>1, <1>3, <2>1, <2>3, DoomSends
<1> QED BY <1>2, <1>3 DEF ReadOrCreate

LEMMA DoomInsertMulti ==
  ASSUME CrudTypes, DoomInv, NEW c \in Ormers, InsertMulti(c)
  PROVE  DoomInv'
<1>1. Turn(c) /\ UNCHANGED <<onDelete, txVars, db, clean, doomed>> BY DEF InsertMulti, Calls, Unwritten
<1>2. PICK b \in Batches : Begins(c, Chunks(b.on, b.rows, b.bulk), Len(b.rows)) BY DEF InsertMulti
<1>3. b.on \in Tables /\ b.bulk \in Nat \ {0} /\ b.rows \in RowsOf(b.on) BY InputAssumption DEF InputAssumption, RowsOf
<1> DEFINE s == Chunks(b.on, b.rows, b.bulk)
<1>4. \A i \in DOMAIN s : s[i] = [op |-> "errArgs"] \/ s[i].op = "insert" BY <1>3, ChunksRight
<1>5. work' = [work EXCEPT ![c] = s] BY <1>2 DEF Begins
<1> HIDE DEF s
<1>6. Inserts(s) BY <1>4 DEF Inserts
<1> QED BY <1>1, <1>5, <1>6, DoomSends

\* The first SELECT of QuerySeter.Delete.
LEMMA DoomDeleteWhere ==
  ASSUME CrudTypes, DoomInv, NEW c \in Ormers, NEW k \in AllCols, DeleteWhere(c, k)
  PROVE  DoomInv'
<1>1. Turn(c) /\ UNCHANGED <<onDelete, txVars, db, clean>> BY DEF DeleteWhere, Calls, Unwritten
<1>2. PICK args \in SUBSET Pks[RefTo[k]] :
        /\ Begins(c, <<[op |-> "find", col |-> k, args |-> args]>>, 0)
        /\ doomed' = [doomed EXCEPT ![c] = Closure({Home(k)} \X Having(k, args))]
  BY DEF DeleteWhere
<1> DEFINE D == Closure({Home(k)} \X Having(k, args))  w == [op |-> "find", col |-> k, args |-> args]
<1>3. Home(k) \in Tables /\ Having(k, args) \in SUBSET DOMAIN db[Home(k)] BY HomeOf, HavingKeys
<1>4. (\A p \in Having(k, args) : <<Home(k), p>> \in D) /\ Closed(D) BY <1>3, ClosureRight
<1>5. w.op = "find" /\ w.col = k /\ w.args = args /\ work' = [work EXCEPT ![c] = <<w>>] BY <1>2 DEF Begins
<1>6. doomed' = [doomed EXCEPT ![c] = D] BY <1>2
<1> HIDE DEF D, w
<1>7. FatedBy(w, db, D) BY <1>4, <1>5 DEF FatedBy, Having
<1>8. work'[c] = <<w>> /\ \A d \in Ormers \ {c} : work'[d] = work[d] BY <1>5, WorkOthers
<1>9. DOMAIN doomed' = Ormers /\ doomed'[c] = D /\ \A d \in Ormers \ {c} : doomed'[d] = doomed[d] BY <1>6 DEF DoomInv
<1>10. DOMAIN (<<w>>) = {1} /\ (<<w>>)[1] = w OBVIOUS
<1>11. Doom(c)'
  <2>1. Fated(work'[c], db', doomed'[c]) BY <1>1, <1>7, <1>8, <1>9, <1>10 DEF Fated
  <2>2. \A i \in DOMAIN work'[c] : i = 1 BY <1>8, <1>10
  <2>3. Closed(doomed[c])' BY <1>1, <1>4, <1>9 DEF Closed
  <2> QED BY <2>1, <2>2, <2>3 DEF Doom
<1> QED BY <1>1, <1>8, <1>9, <1>11, DoomStep

\* Delete by key.
LEMMA DoomDeleteKey ==
  ASSUME CrudTypes, DoomInv, NEW c \in Ormers, NEW t \in Tables, Turn(c), Written(c),
         NEW x \in Nat, DeleteBy(c, t, {x} \cap DOMAIN db[t], {x})
  PROVE  DoomInv'
<1> DEFINE pks == {x} \cap DOMAIN db[t]
<1>0. PICK D : D = Closure({t} \X pks) OBVIOUS
<1>1. UNCHANGED <<onDelete, txVars>> /\ (clean' => clean /\ \A d \in Ormers \ {c} : work[d] = <<>>) BY DEF Written
<1>2. DeleteRows(c, t, pks, {x}, <<>>) /\ doomed' = [doomed EXCEPT ![c] = D] BY <1>0 DEF DeleteBy
<1>3. pks \in SUBSET DOMAIN db[t] /\ (pks # {} => x \in pks) OBVIOUS
<1> HIDE DEF pks
<1>4. (\A p \in pks : <<t, p>> \in D) /\ Closed(D) BY <1>0, <1>3, ClosureRight
<1>5. DOMAIN doomed' = Ormers /\ doomed'[c] = D /\ \A d \in Ormers \ {c} : doomed'[d] = doomed[d] BY <1>2 DEF DoomInv
<1>6. Deleting(<<>>) /\ Fated(<<>>, db, D) /\ Cascades(<<>>)
  <2>1. DOMAIN (<<>>) = {} BY EmptySendable
  <2> QED BY <2>1, DeletingEmpty DEF Fated, Cascades
<1>7. pks # {} => \A p \in {x} : <<t, p>> \in D BY <1>3, <1>4
<1>8. /\ Closed(D)' /\ Fated(work'[c], db', D) /\ Cascades(work'[c])
      /\ \A d \in Ormers \ {c} : work'[d] = work[d]
  BY <1>1, <1>2, <1>4, <1>6, <1>7, DoomDelete
<1>9. Closed(doomed[c])' BY <1>5, <1>8 DEF Closed
<1>10. Doom(c)' BY <1>1, <1>5, <1>8, <1>9, DoomCascades
<1> QED BY <1>1, <1>5, <1>8, <1>10, DoomStep

LEMMA DoomDeletes ==
  ASSUME CrudTypes, DoomInv, NEW c \in Ormers, NEW t \in Tables, Delete(c, t), WhereCols = {}
  PROVE  DoomInv'
<1>1. Turn(c) /\ work[c] = <<>> /\ Written(c) BY DEF Delete, Calls
<1>2. CASE \E r, n : Return(c, r, n) BY <1>1, <1>2, DoomWrites
<1>3. CASE \E x \in Pks[t] \cup {Null} : DeleteBy(c, t, {x} \cap DOMAIN db[t], {x})
  <2>1. Pks[t] \cup {Null} \subseteq Nat BY CrudAssumption DEF CrudAssumption, Null
  <2> QED BY <1>1, <1>3, <2>1, DoomDeleteKey
<1> QED BY <1>2, <1>3 DEF Delete

\* DeleteBatch: what its SELECT finds was to go.
LEMMA DoomFind ==
  ASSUME CrudTypes, DoomInv, NEW c \in Ormers, Find(c)
  PROVE  DoomInv'
<1>1. Turn(c) /\ work[c] # <<>> /\ Head(work[c]).op = "find" /\ UNCHANGED <<onDelete, txVars, db, clean, doomed>>
  BY DEF Find, Statement, Unwritten
<1> DEFINE w == Head(work[c])  pks == Having(w.col, w.args)  x == [op |-> "remove", on |-> Home(w.col), args |-> pks]
           then == IF pks = {} THEN <<>> ELSE <<x>>
           s == then \o Tail(work[c])
<1>2. work' = [work EXCEPT ![c] = s] BY DEF Find, CrudTypes, Works
<1>3. ASSUME clean PROVE Doom(c)'
  <2>1. Doom(c) BY <1>3 DEF DoomInv
  <2>2. /\ w \in Sql /\ FatedBy(w, db, doomed[c])
        /\ Deleting(Tail(work[c])) /\ Fated(Tail(work[c]), db, doomed[c]) /\ Cascades(Tail(work[c]))
        /\ Closed(doomed[c])
    BY <1>1, <2>1, DoomHead
  <2>3. w.col \in AllCols BY <1>1, <2>2, SqlFields
  <2>4. \A p \in pks : <<Home(w.col), p>> \in doomed[c] BY <1>1, <2>2 DEF FatedBy, Having
  <2>5. x \in Sql BY <2>3, HomeOf, HavingKeys, SqlMade
  <2>6. x.op = "remove" /\ x.on = Home(w.col) /\ x.args = pks OBVIOUS
  <2>7. then \in {<<>>, <<x>>} OBVIOUS
  <2> HIDE DEF x, then
  <2>8. FatedBy(x, db, doomed[c]) BY <2>4, <2>6 DEF FatedBy
  <2>9. Deleting(<<x>>) /\ DOMAIN (<<x>>) = {1} /\ (<<x>>)[1] = x BY <2>5, <2>6, DeletingOne
  <2>10. Deleting(then) /\ Fated(then, db, doomed[c]) /\ Cascades(then)
    <3>1. CASE then = <<>>
      <4>1. DOMAIN then = {} BY <3>1, EmptySeq
      <4> QED BY <3>1, <4>1, DeletingEmpty DEF Fated, Cascades
    <3>2. CASE then = <<x>> BY <2>6, <2>8, <2>9, <3>2 DEF Fated, Cascades
    <3> QED BY <2>7, <3>1, <3>2
  <2> HIDE DEF w
  <2>11. Fated(s, db, doomed[c]) /\ Cascades(s) BY <2>2, <2>10, ConcatFated
  <2> HIDE DEF s
  <2>12. work'[c] = s BY <1>2, WorkOthers
  <2>13. Fated(work'[c], db', doomed'[c]) /\ Cascades(work'[c]) /\ Closed(doomed[c])' BY <1>1, <2>2, <2>11, <2>12 DEF Closed
  <2> QED BY <1>1, <2>13, DoomCascades
<1> HIDE DEF s
<1> QED BY <1>1, <1>2, <1>3, DoomSends

LEMMA DoomRemoveRows ==
  ASSUME CrudTypes, DoomInv, NEW c \in Ormers, RemoveRows(c)
  PROVE  DoomInv'
<1> DEFINE w == Head(work[c])  pks == w.args \cap DOMAIN db[w.on]
<1>1. Turn(c) /\ work[c] # <<>> /\ w.op = "remove" /\ Written(c) /\ UNCHANGED doomed BY DEF RemoveRows, Statement
<1>2. UNCHANGED <<onDelete, txVars>> /\ (clean' => clean /\ \A d \in Ormers \ {c} : work[d] = <<>>) BY <1>1 DEF Written
<1>3. DeleteRows(c, w.on, pks, w.args, Tail(work[c])) BY DEF RemoveRows
<1>4. \E s : work' = [work EXCEPT ![c] = s] BY <1>3 DEF DeleteRows
<1>5. ASSUME clean' PROVE Doom(c)'
  <2>1. Doom(c) BY <1>2, <1>5 DEF DoomInv
  <2>2. /\ w \in Sql /\ FatedBy(w, db, doomed[c])
        /\ Deleting(Tail(work[c])) /\ Fated(Tail(work[c]), db, doomed[c]) /\ Cascades(Tail(work[c]))
        /\ Closed(doomed[c])
    BY <1>1, <2>1, DoomHead
  <2>3. w.on \in Tables /\ w.args \in SUBSET Nat BY <1>1, <2>2, SqlFields
  <2>4. \A p \in w.args : <<w.on, p>> \in doomed[c] BY <1>1, <2>2 DEF FatedBy
  <2> HIDE DEF w, pks
  <2>5. PICK D : D = doomed[c] /\ D = doomed'[c] BY <1>1
  <2>6. Closed(D) /\ Fated(Tail(work[c]), db, D) /\ (pks # {} => \A p \in w.args : <<w.on, p>> \in D) BY <2>2, <2>4, <2>5
  <2>7. Closed(D)' /\ Fated(work'[c], db', D) /\ Cascades(work'[c])
    <3>1. PICK t \in Tables, args \in SUBSET Nat : t = w.on /\ args = w.args BY <2>3
    <3>2. PICK rest : rest = Tail(work[c]) OBVIOUS
    <3>3. /\ DeleteRows(c, t, pks, args, rest) /\ Deleting(rest) /\ Fated(rest, db, D) /\ Cascades(rest)
          /\ pks # {} => \A p \in args : <<t, p>> \in D
      BY <1>3, <2>2, <2>6, <3>1, <3>2
    <3>4. onDelete' = onDelete BY <1>2
    <3> QED BY <2>6, <3>3, <3>4, DoomDelete
  <2>8. Closed(doomed[c])' BY <2>5, <2>7 DEF Closed
  <2> QED BY <1>2, <2>5, <2>7, <2>8, DoomCascades
<1> QED BY <1>1, <1>2, <1>4, <1>5, DoomSends

\* UpdateBatch changes a column that no cascade goes by.
LEMMA DoomClear ==
  ASSUME CrudTypes, DoomInv, NEW c \in Ormers, Clear(c)
  PROVE  DoomInv'
<1> DEFINE w == Head(work[c])  v == IF onDelete[w.col] = "set_null" THEN Null ELSE Initial
<1>1. Turn(c) /\ work[c] # <<>> /\ w.op = "clear" /\ Written(c) /\ UNCHANGED doomed BY DEF Clear, Statement
<1>2. UNCHANGED <<onDelete, txVars>> /\ (clean' => clean /\ \A d \in Ormers \ {c} : work[d] = <<>>) BY <1>1 DEF Written
<1>3. SetWhere(w.col, w.args, v) /\ work' = [work EXCEPT ![c] = Tail(work[c])] BY DEF Clear, CrudTypes, Works
<1>4. Sendable(work[c]) BY DEF CrudTypes, Works
<1>5. w \in Sql /\ w = work[c][1] /\ 1 \in DOMAIN work[c] BY <1>1, <1>4, TailSendable
<1>6. w.col \in AllCols /\ onDelete[w.col] \in {"set_null", "set_default"} BY <1>1, <1>4, <1>5, SqlFields DEF Sendable, ClearsRight
<1>7. v \in Pks[RefTo[w.col]] \/ (v = Null /\ w.col \in Nullable)
  BY <1>6, SchemaAssumption DEF SchemaAssumption, CrudTypes, Stored
<1> HIDE DEF v
<1>8. /\ \A u \in Tables : DOMAIN db'[u] = DOMAIN db[u]
      /\ \A k \in AllCols : onDelete[k] = "cascade" => \A p \in DOMAIN db[Home(k)] : db'[Home(k)][p][k] = db[Home(k)][p][k]
  <2>1. /\ \A u \in Tables : DOMAIN db'[u] = DOMAIN db[u]
        /\ \A u \in Tables : \A p \in DOMAIN db[u] : \A x \in Cols[u] :
             db'[u][p][x] = IF x = w.col /\ p \in Having(w.col, w.args) THEN v ELSE db[u][p][x]
    <3>1. PICK k, vals : k \in AllCols /\ k = w.col /\ vals = w.args BY <1>6
    <3>2. SetWhere(k, vals, v) /\ (v \in Pks[RefTo[k]] \/ (v = Null /\ k \in Nullable)) BY <1>3, <1>7, <3>1
    <3> HIDE DEF w
    <3> QED BY <3>1, <3>2, SetRows
  <2> QED BY <1>6, <2>1, HomeOf
<1>9. ASSUME clean' PROVE Doom(c)'
  <2>1. Doom(c) BY <1>2, <1>9 DEF DoomInv
  <2>2. Deleting(Tail(work[c])) /\ Fated(Tail(work[c]), db, doomed[c]) /\ Cascades(Tail(work[c])) /\ Closed(doomed[c])
    BY <1>1, <2>1, DoomHead
  <2>3. ASSUME NEW i \in DOMAIN Tail(work[c]) PROVE FatedBy(Tail(work[c])[i], db', doomed[c])
    <3> DEFINE x == Tail(work[c])[i]
    <3>1. x \in Sql /\ FatedBy(x, db, doomed[c]) /\ (x.op = "find" => onDelete[x.col] = "cascade")
      BY <2>2, LenProperties, ElementOfSeq DEF Fated, Cascades, Deleting
    <3> HIDE DEF x
    <3>2. x.op = "find" => x.col \in AllCols /\ Home(x.col) \in Tables BY <3>1, SqlFields, HomeOf
    <3>3. FatedBy(x, db', doomed[c]) BY <1>8, <3>1, <3>2 DEF FatedBy
    <3> QED BY <3>3 DEF x
  <2>4. work'[c] = Tail(work[c]) BY <1>3, WorkOthers
  <2>5. Fated(work'[c], db', doomed'[c]) BY <1>1, <2>3, <2>4 DEF Fated
  <2>6. Cascades(work'[c]) BY <2>2, <2>4
  <2>7. Closed(doomed[c])'
    <3>1. SUFFICES ASSUME NEW k \in AllCols, onDelete[k] = "cascade", NEW p \in DOMAIN db'[Home(k)],
                          <<RefTo[k], db'[Home(k)][p][k]>> \in doomed[c]
                   PROVE  <<Home(k), p>> \in doomed[c]
      BY <1>1, <1>2 DEF Closed
    <3>2. p \in DOMAIN db[Home(k)] /\ db'[Home(k)][p][k] = db[Home(k)][p][k] BY <1>8, <3>1, HomeOf
    <3> QED BY <2>2, <3>1, <3>2 DEF Closed
  <2> QED BY <1>2, <2>5, <2>6, <2>7, DoomCascades
<1> QED BY <1>1, <1>2, <1>3, <1>9, DoomSends

\* What follows an INSERT are INSERTs.
LEMMA InsertsOnward ==
  ASSUME NEW s, Sendable(s), s # <<>>, Head(s).op \in {"insert", "errArgs"}
  PROVE  Inserts(Tail(s)) /\ Inserts(<<>>)
<1>1. /\ Len(s) \in Nat \ {0} /\ DOMAIN s = 1 .. Len(s) /\ DOMAIN Tail(s) = 1 .. Len(s) - 1
      /\ \A i \in 1 .. Len(s) - 1 : Tail(s)[i] = s[i + 1]
      /\ Head(s) = s[1]
  BY TailSendable
<1>2. 1 \in DOMAIN s BY <1>1
<1>3. \A i \in DOMAIN s : s[i].op \in {"insert", "errArgs"} BY <1>1, <1>2 DEF Sendable, OneKind
<1>4. Inserts(Tail(s)) BY <1>1, <1>3 DEF Inserts
<1> QED BY <1>4, EmptySendable DEF Inserts

LEMMA DoomInsertRows ==
  ASSUME CrudTypes, DoomInv, NEW c \in Ormers, InsertRows(c)
  PROVE  DoomInv'
<1>1. Turn(c) /\ work[c] # <<>> /\ Head(work[c]).op = "insert" /\ Written(c) /\ UNCHANGED doomed BY DEF InsertRows, Statement
<1>2. UNCHANGED <<onDelete, txVars>> /\ (clean' => clean /\ \A d \in Ormers \ {c} : work[d] = <<>>) BY <1>1 DEF Written
<1>3. PICK s \in {Tail(work[c]), <<>>} : work' = [work EXCEPT ![c] = s] BY DEF InsertRows, CrudTypes, Works
<1>4. Inserts(s) BY <1>1, <1>3, InsertsOnward DEF CrudTypes, Works
<1> QED BY <1>1, <1>2, <1>3, <1>4, DoomSends

LEMMA DoomErrArgs ==
  ASSUME CrudTypes, DoomInv, NEW c \in Ormers, ErrArgs(c)
  PROVE  DoomInv'
<1>1. Turn(c) /\ UNCHANGED <<onDelete, txVars, db, clean, doomed>> BY DEF ErrArgs, Statement, Unwritten
<1>2. work' = [work EXCEPT ![c] = <<>>] BY DEF ErrArgs
<1>3. Inserts(<<>>) BY EmptySendable DEF Inserts
<1> QED BY <1>1, <1>2, <1>3, DoomSends

LEMMA DoomFail ==
  ASSUME CrudTypes, DoomInv, NEW c \in Ormers, Fail(c)
  PROVE  DoomInv'
<1>1. Turn(c) /\ UNCHANGED <<onDelete, txVars, db, doomed>> /\ (clean' => clean) BY DEF Fail
<1>2. work' = [work EXCEPT ![c] = <<>>] BY DEF Fail
<1>3. Inserts(<<>>) BY EmptySendable DEF Inserts
<1> QED BY <1>1, <1>2, <1>3, DoomSends

\* The end of a transaction meets no other client's delete, or finds the
\* database as it was when the transaction began.
LEMMA DoomTransaction ==
  ASSUME CrudTypes, DoomInv, NEW c \in Ormers, Begin(c) \/ Rollback(c) \/ Commit(c)
  PROVE  DoomInv'
<1>1. work[c] = <<>> /\ UNCHANGED <<onDelete, work, doomed>> BY DEF Begin, Rollback, Commit, InTx, Calls, Return
<1>2. \/ db' = db /\ (clean' => clean) /\ (owner' = Free \/ saved' = db)
      \/ owner = c /\ owner' = Free /\ db' = saved /\ clean' = clean
  BY DEF Begin, Rollback, Commit, InTx
<1>3. ASSUME clean', NEW d \in Ormers PROVE Doom(d)'
  <2>1. CASE work[d] = <<>>
    <3>1. DOMAIN work'[d] = {} BY <1>1, <2>1, EmptySeq
    <3> QED BY <3>1, DoomInserts DEF Inserts
  <2>2. CASE work[d] # <<>>
    <3>1. clean /\ Doom(d) BY <1>2, <1>3 DEF DoomInv
    <3>2. ASSUME owner = c, db' = saved PROVE db' = db
      <4>1. d \in Ormers \ {owner} /\ owner # Free BY <1>1, <2>2, <3>2, CrudAssumption DEF CrudAssumption
      <4> QED BY <2>2, <3>1, <3>2, <4>1 DEF DoomInv
    <3>3. db' = db BY <1>2, <3>2
    <3> QED BY <1>1, <3>1, <3>3 DEF Doom, Closed
  <2> QED BY <2>1, <2>2
<1>4. owner' = Free \/ saved' = db' BY <1>2
<1> QED BY <1>1, <1>3, <1>4 DEF DoomInv

LEMMA DoomInit ==
  ASSUME CrudInit
  PROVE  DoomInv
<1>1. (\A c \in Ormers : work[c] = <<>>) /\ owner = Free /\ DOMAIN doomed = Ormers BY DEF CrudInit
<1>2. ASSUME NEW c \in Ormers PROVE Doom(c)
  <2>1. DOMAIN work[c] = {} BY <1>1, EmptySeq
  <2> QED BY <2>1 DEF Doom, Fated, Inserts
<1> QED BY <1>1, <1>2 DEF DoomInv

LEMMA DoomNext ==
  ASSUME CrudTypes, DoomInv, [CrudNext]_crudVars, WhereCols = {}
  PROVE  DoomInv'
<1>1. ASSUME NEW c \in Ormers, NEW t \in Tables,
             Read(c, t) \/ Insert(c, t) \/ InsertOrUpdate(c, t) \/ AddM2M(c, t) \/ Delete(c, t)
      PROVE  DoomInv'
  <2>1. CASE Read(c, t)
    <3>1. Turn(c) /\ work[c] = <<>> /\ UNCHANGED <<onDelete, txVars, db, clean>> /\ \E r, n : Return(c, r, n)
      BY <2>1 DEF Read, Calls, Unwritten
    <3> QED BY <3>1, DoomReads
  <2>2. CASE Insert(c, t) \/ InsertOrUpdate(c, t) \/ AddM2M(c, t)
    <3>1. Turn(c) /\ work[c] = <<>> BY <2>2 DEF Insert, InsertOrUpdate, AddM2M, Calls
    <3>2. Written(c) /\ \E r, n : Return(c, r, n) BY <2>2, InsertWrites, InsertOrUpdateWrites, AddM2MWrites
    <3> QED BY <3>1, <3>2, DoomWrites
  <2> QED BY <1>1, <2>1, <2>2, DoomDeletes
<1>2. ASSUME NEW c \in Ormers, NEW k \in AllCols,
             ReadOrCreate(c, k) \/ Update(c, k) \/ DeleteWhere(c, k) \/ UpdateWhere(c, k)
      PROVE  DoomInv'
  <2>1. CASE Update(c, k) \/ UpdateWhere(c, k)
    <3>1. Turn(c) /\ work[c] = <<>> BY <2>1 DEF Update, UpdateWhere, Calls
    <3>2. Written(c) /\ \E r, n : Return(c, r, n) BY <2>1, UpdateWrites, UpdateWhereWrites
    <3> QED BY <3>1, <3>2, DoomWrites
  <2> QED BY <1>2, <2>1, DoomReadOrCreate, DoomDeleteWhere
<1>3. ASSUME NEW c \in Ormers, InserterClose(c) \/ InserterClosed(c) PROVE DoomInv'
  <2>1. Turn(c) /\ work[c] = <<>> /\ UNCHANGED <<onDelete, txVars, db, clean>> /\ \E r, n : Return(c, r, n)
    BY <1>3 DEF InserterClose, InserterClosed, Calls, Unwritten
  <2> QED BY <2>1, DoomReads
<1>4. ASSUME NEW c \in Ormers, InsertMulti(c) \/ Begin(c) \/ Rollback(c) \/ Commit(c) \/ Continue(c) \/ Fail(c) PROVE DoomInv'
  BY <1>4, DoomInsertMulti, DoomTransaction, DoomFind, DoomRemoveRows, DoomClear, DoomInsertRows, DoomErrArgs, DoomFail DEF Continue
<1>5. ASSUME UNCHANGED crudVars PROVE DoomInv'
  <2>1. UNCHANGED <<onDelete, db, work, doomed, clean>> /\ UNCHANGED <<owner, saved>> BY <1>5 DEF crudVars, txVars
  <2> QED BY <2>1 DEF DoomInv, Doom, Closed, Cascades
<1> QED BY <1>1, <1>2, <1>3, <1>4, <1>5 DEF CrudNext, Operation

LEMMA DeletedRow ==
  ASSUME CrudTypes, NEW t \in Tables, NEW pks, Gone(t, pks)
  PROVE  \A u \in Tables : \A p \in DOMAIN db[u] \ DOMAIN db'[u] : u = t /\ p \in pks
<1>1. /\ \A u \in Tables : DOMAIN db'[u] = IF u = t THEN DOMAIN db[u] \ pks ELSE DOMAIN db[u]
      /\ \A u \in Tables : \A p \in DOMAIN db'[u] : db'[u][p] = db[u][p]
  BY DeleteShape
<1> SUFFICES ASSUME NEW u \in Tables, NEW p \in DOMAIN db[u] \ DOMAIN db'[u] PROVE u = t /\ p \in pks OBVIOUS
<1>2. DOMAIN db'[u] = IF u = t THEN DOMAIN db[u] \ pks ELSE DOMAIN db[u] BY <1>1
<1>3. CASE u = t BY <1>2, <1>3
<1>4. CASE u # t BY <1>2, <1>4
<1> QED BY <1>3, <1>4

\* A row is gone only if a delete was to take it.
LEMMA ExactDelete ==
  ASSUME CrudTypes, DoomInv, [CrudNext]_crudVars, WhereCols = {}
  PROVE  [ExactDeleteStep]_crudVars
<1> SUFFICES ASSUME clean', owner' = owner, CrudNext, NEW t \in Tables, NEW p \in DOMAIN db[t] \ DOMAIN db'[t]
             PROVE  \E c \in Ormers : <<t, p>> \in doomed'[c]
  BY DEF ExactDeleteStep
<1>1. PICK c \in Ormers : Operation(c) \/ Continue(c) \/ Fail(c) BY DEF CrudNext
<1>2. ~Grows /\ ~(DOMAIN db'[t] = DOMAIN db[t]) /\ ~UNCHANGED db BY DEF Grows
<1>3. CASE \E u \in Tables : Delete(c, u)
  <2>1. PICK u \in Tables : Delete(c, u) BY <1>3
  <2>2. PICK x : DeleteBy(c, u, {x} \cap DOMAIN db[u], {x}) BY <1>2, <2>1 DEF Delete
  <2> DEFINE pks == {x} \cap DOMAIN db[u]
  <2>3. Gone(u, pks) /\ doomed' = [doomed EXCEPT ![c] = Closure({u} \X pks)] BY <2>2 DEF DeleteBy, DeleteRows, Gone
  <2>4. pks \in SUBSET DOMAIN db[u] OBVIOUS
  <2> HIDE DEF pks
  <2>5. \A q \in pks : <<u, q>> \in Closure({u} \X pks) BY <2>4, ClosureRight
  <2>6. t = u /\ p \in pks BY <2>3, DeletedRow
  <2>7. doomed'[c] = Closure({u} \X pks) BY <2>3 DEF DoomInv
  <2> QED BY <2>5, <2>6, <2>7
<1>4. CASE RemoveRows(c)
  <2> DEFINE w == Head(work[c])  pks == w.args \cap DOMAIN db[w.on]
  <2>1. work[c] # <<>> /\ w.op = "remove" /\ Written(c) /\ UNCHANGED doomed BY <1>4 DEF RemoveRows, Statement
  <2>2. Gone(w.on, pks) BY <1>4 DEF RemoveRows, DeleteRows, Gone
  <2>3. Doom(c) BY <2>1 DEF Written, DoomInv
  <2>4. w \in Sql /\ FatedBy(w, db, doomed[c]) BY <2>1, <2>3, DoomHead
  <2>5. w.on \in Tables /\ \A q \in w.args : <<w.on, q>> \in doomed[c] BY <2>1, <2>4, SqlFields DEF FatedBy
  <2>6. t = w.on /\ p \in w.args
    <3>1. PICK u, ps : u \in Tables /\ u = w.on /\ ps = pks BY <2>5
    <3>2. Gone(u, ps) BY <2>2, <3>1
    <3> HIDE DEF w, pks
    <3>3. t = u /\ p \in ps BY <3>1, <3>2, DeletedRow
    <3> QED BY <3>1, <3>3 DEF pks
  <2> QED BY <2>1, <2>5, <2>6
<1>5. CASE InsertRows(c)
  <2> DEFINE w == Head(work[c])
  <2>1. work[c] # <<>> /\ w.op = "insert" /\ InsertValue(w.on, w.rows) BY <1>2, <1>5 DEF InsertRows, Statement
  <2>2. w \in Sql BY <2>1, TailSendable DEF CrudTypes, Works
  <2>3. w.on \in Tables /\ w.rows \in RowsOf(w.on) BY <2>1, <2>2, SqlFields
  <2> HIDE DEF w
  <2>4. (\A u \in Tables \ {w.on} : db'[u] = db[u]) /\ DOMAIN db[w.on] \subseteq DOMAIN db'[w.on] BY <2>1, <2>3, Inserted
  <2> QED BY <1>2, <2>4
<1>6. CASE Clear(c)
  <2> DEFINE w == Head(work[c])  v == IF onDelete[w.col] = "set_null" THEN Null ELSE Initial
  <2>1. work[c] # <<>> /\ w.op = "clear" /\ SetWhere(w.col, w.args, v) BY <1>6 DEF Clear, Statement
  <2>2. w \in Sql BY <2>1, TailSendable DEF CrudTypes, Works
  <2>3. w.col \in AllCols BY <2>1, <2>2, SqlFields
  <2> HIDE DEF w, v
  <2> QED BY <1>2, <2>1, <2>3, SetShape
<1>7. CASE \E u \in Tables : Insert(c, u) \/ InsertOrUpdate(c, u) \/ AddM2M(c, u)
  BY <1>2, <1>7, InsertWrites, InsertOrUpdateWrites, AddM2MWrites
<1>8. CASE \E k \in AllCols : Update(c, k) \/ UpdateWhere(c, k) BY <1>2, <1>8, UpdateWrites, UpdateWhereWrites
<1>9. CASE \/ \E u \in Tables : Read(c, u)
           \/ \E k \in AllCols : ReadOrCreate(c, k) \/ DeleteWhere(c, k)
           \/ InsertMulti(c) \/ InserterClose(c) \/ InserterClosed(c) \/ Begin(c) \/ Find(c) \/ ErrArgs(c) \/ Fail(c)
  BY <1>2, <1>9 DEF Read, ReadOrCreate, DeleteWhere, InsertMulti, InserterClose, InserterClosed, Begin, Find, ErrArgs, Fail, Unwritten
<1>10. CASE Rollback(c) \/ Commit(c)
  <2>1. owner = c /\ owner' = Free /\ c # Free BY <1>10, CrudAssumption DEF CrudAssumption, Rollback, Commit, InTx
  <2> QED BY <2>1
<1> QED BY <1>1, <1>3, <1>4, <1>5, <1>6, <1>7, <1>8, <1>9, <1>10 DEF Operation, Continue

\* A delete takes only rows that are deleted themselves or refer to a deleted
\* one, if rows are deleted by key or through a QuerySeter.
THEOREM DeletesExact ==
  ASSUME WhereCols = {}
  PROVE  CrudSpec => StatementsExact
<1> DEFINE Inv == CrudTypes /\ DoomInv
<1>1. CrudInit => Inv BY CrudTypesInit, DoomInit
<1>2. Inv /\ [CrudNext]_crudVars => Inv' BY CrudTypesNext, DoomNext
<1>3. ASSUME Inv, [CrudNext]_crudVars PROVE [ExactDeleteStep]_crudVars
  BY <1>3, ExactDelete
<1> QED BY <1>1, <1>2, <1>3, PTL DEF CrudSpec, StatementsExact
=============================================================================
