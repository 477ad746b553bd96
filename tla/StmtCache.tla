------------------------------ MODULE StmtCache ------------------------------
(***************************************************************************)
(* The prepared-statement cache of the ORM (client/orm/db_alias.go).       *)
(*                                                                         *)
(* Every query a DB runs goes through getStmtDecorator: it looks the query *)
(* up in an LRU under the read lock, prepares and adds it under the write  *)
(* lock when it is missing, and hands the caller a stmtDecorator whose     *)
(* WaitGroup counts the callers that still use it.  The LRU's eviction     *)
(* callback starts a goroutine that waits for that count to reach zero and *)
(* closes the statement.                                                   *)
(***************************************************************************)
EXTENDS Integers, FiniteSets

CONSTANTS Clients,    \* goroutines that run queries on one DB
          Queries,    \* query strings
          Stmts,      \* decorators that may be prepared: the bound on Prepare
          Limit,      \* StmtCacheSize, the capacity of the LRU
          NoStmt      \* the nil decorator

ASSUME StmtAssumption ==
  /\ IsFiniteSet(Clients)
  /\ Limit \in Nat \ {0}
  /\ NoStmt \notin Stmts

VARIABLES
  pc,        \* where a client is in ExecContext / getStmtDecorator
  query,     \* the query a client runs
  held,      \* the decorator a client took from the cache or prepared
  readers,   \* clients inside d.RLock()
  writer,    \* clients inside d.Lock(): at most one
  rank,      \* LRU: a query's place in the recency list, 0 when not cached
  cached,    \* LRU: the decorator cached for a query
  wg,        \* the WaitGroup counter of a decorator
  stmt,      \* the *sql.Stmt: not prepared yet, open, or closed
  reaper     \* the goroutine destroy() starts: none, in wg.Wait(), past it

vars == <<pc, query, held, readers, writer, rank, cached, wg, stmt, reaper>>

lruVars  == <<rank, cached>>
stmtVars == <<wg, stmt, reaper>>

PC == {"idle", "lookup", "hit", "miss", "locked", "prepared", "using"}

-----------------------------------------------------------------------------
(* The LRU (github.com/hashicorp/golang-lru).                              *)

Cached(q) == rank[q] # 0

\* Get moves a present key to the front of the recency list.
Touch(q) ==
  [p \in Queries |-> IF p = q THEN 1
                     ELSE IF rank[p] # 0 /\ rank[p] < rank[q] THEN rank[p] + 1
                     ELSE rank[p]]

\* Add of an absent key to a full list evicts the entry at its end.
Evicted(q) == {p \in Queries : rank[p] = Limit}

\* Add puts the key in front and moves the others back by one.
PushFront(q) ==
  [p \in Queries |-> IF p = q THEN 1
                     ELSE IF rank[p] = 0 \/ p \in Evicted(q) THEN 0
                     ELSE rank[p] + 1]

-----------------------------------------------------------------------------

Init ==
  /\ pc      = [c \in Clients |-> "idle"]
  /\ query   \in [Clients -> Queries]
  /\ held    = [c \in Clients |-> NoStmt]
  /\ readers = {}
  /\ writer  = {}
  /\ rank    = [q \in Queries |-> 0]
  /\ cached  = [q \in Queries |-> NoStmt]
  /\ wg      = [d \in Stmts |-> 0]
  /\ stmt    = [d \in Stmts |-> "none"]
  /\ reaper  = [d \in Stmts |-> "none"]

Goto(c, label) == pc' = [pc EXCEPT ![c] = label]

\* ExecContext, QueryContext and QueryRowContext are called with a query.
Call(c) ==
  /\ pc[c] = "idle"
  /\ \E q \in Queries : query' = [query EXCEPT ![c] = q]
  /\ Goto(c, "lookup")
  /\ UNCHANGED <<held, readers, writer, lruVars, stmtVars>>

\* Mutant: the read lock is given up before the decorator is acquired.
ReadLookupUnlocked(c) ==
  /\ pc[c] = "lookup"
  /\ writer = {}
  /\ \/ /\ Cached(query[c])
        /\ rank' = Touch(query[c])
        /\ held' = [held EXCEPT ![c] = cached[query[c]]]
        /\ Goto(c, "hit")
     \/ /\ ~Cached(query[c])
        /\ Goto(c, "miss")
        /\ UNCHANGED <<rank, held>>
  /\ UNCHANGED <<query, readers, writer, cached, stmtVars>>

\* d.RLock(); c, ok := d.stmtDecorators.Get(query).  On a hit the read lock
\* stays held until the decorator is acquired; on a miss it is given up.
ReadLookup(c) ==
  /\ pc[c] = "lookup"
  /\ writer = {}
  /\ \/ /\ Cached(query[c])
        /\ rank' = Touch(query[c])
        /\ held' = [held EXCEPT ![c] = cached[query[c]]]
        /\ readers' = readers \cup {c}
        /\ Goto(c, "hit")
     \/ /\ ~Cached(query[c])
        /\ Goto(c, "miss")
        /\ UNCHANGED <<rank, held, readers>>
  /\ UNCHANGED <<query, writer, cached, stmtVars>>

\* c.(*stmtDecorator).acquire(); d.RUnlock()
AcquireHit(c) ==
  /\ pc[c] = "hit"
  /\ wg' = [wg EXCEPT ![held[c]] = @ + 1]
  /\ readers' = readers \ {c}
  /\ Goto(c, "using")
  /\ UNCHANGED <<query, held, writer, lruVars, stmt, reaper>>

\* d.Lock()
WriteLock(c) ==
  /\ pc[c] = "miss"
  /\ writer = {} /\ readers = {}
  /\ writer' = {c}
  /\ Goto(c, "locked")
  /\ UNCHANGED <<query, held, readers, lruVars, stmtVars>>

\* The second Get, under the write lock, finds what another client added.
WriteHit(c) ==
  /\ pc[c] = "locked"
  /\ Cached(query[c])
  /\ rank' = Touch(query[c])
  /\ held' = [held EXCEPT ![c] = cached[query[c]]]
  /\ wg'   = [wg EXCEPT ![cached[query[c]]] = @ + 1]
  /\ writer' = {}
  /\ Goto(c, "using")
  /\ UNCHANGED <<query, readers, cached, stmt, reaper>>

\* d.Prepare(query) succeeds; the new decorator has one user.
Prepare(c) ==
  /\ pc[c] = "locked"
  /\ ~Cached(query[c])
  /\ \E d \in Stmts :
       /\ stmt[d] = "none"
       /\ stmt' = [stmt EXCEPT ![d] = "open"]
       /\ wg'   = [wg EXCEPT ![d] = @ + 1]
       /\ held' = [held EXCEPT ![c] = d]
  /\ Goto(c, "prepared")
  /\ UNCHANGED <<query, readers, writer, lruVars, reaper>>

\* Mutant: the decorator is cached before the error is looked at.
PrepareFailsCached(c) ==
  /\ pc[c] = "locked"
  /\ ~Cached(query[c])
  /\ rank'   = PushFront(query[c])
  /\ cached' = [cached EXCEPT ![query[c]] = NoStmt]
  /\ writer' = {}
  /\ Goto(c, "idle")
  /\ UNCHANGED <<query, held, readers, stmtVars>>

\* d.Prepare(query) fails: unlock and return the error (QueryRowContext
\* panics with it).
PrepareFails(c) ==
  /\ pc[c] = "locked"
  /\ ~Cached(query[c])
  /\ writer' = {}
  /\ Goto(c, "idle")
  /\ UNCHANGED <<query, held, readers, lruVars, stmtVars>>

\* Mutant: the LRU is created without the eviction callback.
AddWithoutEvictCallback(c) ==
  /\ pc[c] = "prepared"
  /\ rank'   = PushFront(query[c])
  /\ cached' = [p \in Queries |-> IF p = query[c] THEN held[c]
                                  ELSE IF p \in Evicted(query[c]) THEN NoStmt
                                  ELSE cached[p]]
  /\ writer' = {}
  /\ Goto(c, "using")
  /\ UNCHANGED <<query, held, readers, wg, stmt, reaper>>

\* d.stmtDecorators.Add(query, sd), whose eviction callback calls destroy()
\* on the entry that falls out of the list, and d.Unlock().
AddToCache(c) ==
  /\ pc[c] = "prepared"
  /\ LET out == {cached[p] : p \in Evicted(query[c])} IN
       reaper' = [d \in Stmts |-> IF d \in out THEN "waiting" ELSE reaper[d]]
  /\ rank'   = PushFront(query[c])
  /\ cached' = [p \in Queries |-> IF p = query[c] THEN held[c]
                                  ELSE IF p \in Evicted(query[c]) THEN NoStmt
                                  ELSE cached[p]]
  /\ writer' = {}
  /\ Goto(c, "using")
  /\ UNCHANGED <<query, held, readers, wg, stmt>>

\* Mutant: a statement that has left the cache is not released.
ReleaseForgotten(c) ==
  /\ pc[c] = "using"
  /\ wg'   = [wg EXCEPT ![held[c]] = IF reaper[held[c]] = "none" THEN @ - 1 ELSE @]
  /\ held' = [held EXCEPT ![c] = NoStmt]
  /\ Goto(c, "idle")
  /\ UNCHANGED <<query, readers, writer, lruVars, stmt, reaper>>

\* The statement has run: the deferred sd.release().
Release(c) ==
  /\ pc[c] = "using"
  /\ wg'   = [wg EXCEPT ![held[c]] = @ - 1]
  /\ held' = [held EXCEPT ![c] = NoStmt]
  /\ Goto(c, "idle")
  /\ UNCHANGED <<query, readers, writer, lruVars, stmt, reaper>>

\* Mutant: destroy() closes the statement without waiting for its users.
WaitSkipped(d) ==
  /\ reaper[d] = "waiting"
  /\ reaper' = [reaper EXCEPT ![d] = "closing"]
  /\ UNCHANGED <<pc, query, held, readers, writer, lruVars, wg, stmt>>

\* s.wg.Wait() returns in the goroutine of destroy().
WaitReturns(d) ==
  /\ reaper[d] = "waiting"
  /\ wg[d] = 0
  /\ reaper' = [reaper EXCEPT ![d] = "closing"]
  /\ UNCHANGED <<pc, query, held, readers, writer, lruVars, wg, stmt>>

\* s.stmt.Close() in the goroutine of destroy(), which then ends.
CloseStmt(d) ==
  /\ reaper[d] = "closing"
  /\ stmt'   = [stmt EXCEPT ![d] = "closed"]
  /\ reaper' = [reaper EXCEPT ![d] = "done"]
  /\ UNCHANGED <<pc, query, held, readers, writer, lruVars, wg>>

Get(c) ==
  \/ ReadLookup(c) \/ AcquireHit(c) \/ WriteLock(c) \/ WriteHit(c)
  \/ Prepare(c) \/ PrepareFails(c) \/ AddToCache(c)

Next ==
  \/ \E c \in Clients : Call(c) \/ Get(c) \/ Release(c)
  \/ \E d \in Stmts : WaitReturns(d) \/ CloseStmt(d)

\* A goroutine inside getStmtDecorator or past its query keeps running, and
\* the runtime schedules the goroutines destroy() starts.  The mutex is what
\* makes ReadLookup and WriteLock intermittent; Go's RWMutex starves neither
\* side, hence strong fairness for them.  Nobody has to call.
Fairness ==
  /\ \A c \in Clients :
       /\ SF_vars(ReadLookup(c)) /\ SF_vars(WriteLock(c))
       /\ WF_vars(AcquireHit(c)) /\ WF_vars(AddToCache(c))
       /\ WF_vars(WriteHit(c) \/ Prepare(c) \/ PrepareFails(c))
       /\ WF_vars(Release(c))
  /\ \A d \in Stmts : WF_vars(WaitReturns(d)) /\ WF_vars(CloseStmt(d))

Spec == Init /\ [][Next]_vars
FairSpec == Spec /\ Fairness

-----------------------------------------------------------------------------
(* Properties.                                                             *)

\* Every variable has its type.  The part that a caller could break is that
\* the WaitGroup of a decorator never goes below zero (Done would panic).
TypeOK ==
  /\ pc \in [Clients -> PC]
  /\ query \in [Clients -> Queries]
  /\ held \in [Clients -> Stmts \cup {NoStmt}]
  /\ readers \subseteq Clients
  /\ writer \subseteq Clients
  /\ rank \in [Queries -> 0 .. Limit]
  /\ cached \in [Queries -> Stmts \cup {NoStmt}]
  /\ wg \in [Stmts -> Nat]
  /\ stmt \in [Stmts -> {"none", "open", "closed"}]
  /\ reaper \in [Stmts -> {"none", "waiting", "closing", "done"}]

\* From the moment getStmtDecorator finds or prepares a statement until the
\* caller has run it, the statement is open: no eviction closes it under a
\* user, not even between the lookup and acquire().
NoUseAfterClose ==
  \A c \in Clients :
    pc[c] \in {"hit", "prepared", "using"} =>
      held[c] \in Stmts /\ stmt[held[c]] = "open"

\* An open statement is always reachable by somebody who will close it: the
\* cache has it, the goroutine of destroy() has it, or the client that
\* prepared it is about to add it.  No path leaks a server-side statement.
NoLeakedStmt ==
  \A d \in Stmts : stmt[d] = "open" =>
    \/ \E q \in Queries : Cached(q) /\ cached[q] = d
    \/ reaper[d] \in {"waiting", "closing"}
    \/ \E c \in Clients : pc[c] = "prepared" /\ held[c] = d

\* A query has at most one statement in the cache: what is cached is open and
\* not yet given up, no two queries share a statement, and the recency list
\* has no gaps or repeated places.
CacheWellFormed ==
  /\ \A p, q \in Queries : Cached(p) /\ Cached(q) /\ p # q =>
       rank[p] # rank[q] /\ cached[p] # cached[q]
  /\ \A q \in Queries : Cached(q) =>
       cached[q] \in Stmts /\ stmt[cached[q]] = "open" /\ reaper[cached[q]] = "none"
  /\ \A q \in Queries : \A i \in 1 .. rank[q] : \E p \in Queries : rank[p] = i

\* Once destroy() has started waiting for a decorator nobody acquires it any
\* more.  WaitGroup forbids an Add that races with Wait from zero, and a late
\* acquire would get a statement that is about to be closed.
NoAcquireAfterEviction ==
  [][\A d \in Stmts : reaper[d] # "none" => wg'[d] <= wg[d]]_vars

\* An evicted statement is closed in the end, however long its users take.
EvictedStmtIsClosed ==
  \A d \in Stmts : (reaper[d] = "waiting") ~> (stmt[d] = "closed")

\* A query that starts gets its statement or an error: neither lock is kept
\* on any path out of getStmtDecorator.
QueryGetsStmt ==
  \A c \in Clients : (pc[c] = "lookup") ~> (pc[c] \in {"using", "idle"})

\* Neither waits for ever: the closing of an evicted statement for its users,
\* a query for a lock of getStmtDecorator.
StmtProgress == EvictedStmtIsClosed /\ QueryGetsStmt

=============================================================================
