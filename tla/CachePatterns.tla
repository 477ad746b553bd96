--------------------------- MODULE CachePatterns ----------------------------
(***************************************************************************)
(* The cache decorators of client/cache over the memory cache, with the    *)
(* database they load from and store to: a read decorator (read through,   *)
(* single flight or bloom filter) and a write decorator (write through,    *)
(* write delete or write double delete), used by concurrent readers and    *)
(* writers of one key.                                                     *)
(***************************************************************************)
EXTENDS MemoryCache

CONSTANTS Readers,    \* goroutines that call Get
          Writers,    \* goroutines that call Set
          ReadBy,     \* read decorators: of "through", "flight", "bloom"
          WriteBy,    \* write decorators: of "through", "delete", "double"
          expiration, \* the decorators' expiration
          Offsets,    \* what RandomExpireCache adds to a timeout
          MaxTimers   \* second deletes that are pending at a time: a bound

ASSUME PatternAssumption ==
  /\ ReadBy \subseteq {"through", "flight", "bloom"}
  /\ WriteBy \subseteq {"through", "delete", "double"}
  /\ expiration \in Nat /\ Offsets \subseteq Nat /\ MaxTimers \in Nat \ {0}

VARIABLES
  rd, wr,     \* the decorators this program uses
  random,     \* is RandomExpireCache between them and the adapter
  db,         \* the value in the database
  rpc,        \* where a Get is
  loaded,     \* what its loadFunc returned
  flight,     \* singleflight: a call of the key is in progress
  wpc,        \* where a Set is
  val,        \* the value it will put
  timers,     \* pending AfterFunc deletes
  late,       \* stores that timed out and may still take effect
  held,       \* history: values the database has held
  crossed     \* history: the last delete of a Set met a load it did not cover,
              \* or came before its store

readVars  == <<rpc, loaded, flight>>
writeVars == <<wpc, val, timers, late, db, held>>
config    == <<rd, wr, random>>
patternVars == <<cacheVars, config, readVars, writeVars, crossed>>

AnyVal == CHOOSE v \in Vals : TRUE

PatternInit ==
  /\ CacheInit
  /\ rd \in ReadBy /\ wr \in WriteBy /\ random \in BOOLEAN
  /\ db = AnyVal /\ held = {AnyVal}
  /\ rpc = [r \in Readers |-> "idle"] /\ loaded = [r \in Readers |-> AnyVal]
  /\ flight = FALSE
  /\ wpc = [w \in Writers |-> "idle"] /\ val = [w \in Writers |-> AnyVal]
  /\ timers = 0 /\ late = {} /\ crossed = FALSE

\* Put of the adapter, decorated by RandomExpireCache or not.
PutRandomExpire(v) == \E o \in IF random THEN Offsets ELSE {0} : Put(v, expiration + o)

-----------------------------------------------------------------------------
(* Get.                                                                    *)

\* What a decorator takes for a miss: the bloom filter cache, which finds the
\* key in its filter, hands on the error of an expired item.
Miss == IF rd = "bloom" THEN Absent ELSE ~Hit

\* The lookup misses.  A hit, or an error, returns at once.
Get(r) ==
  /\ rpc[r] = "idle" /\ Miss
  /\ rpc' = [rpc EXCEPT ![r] = IF rd = "flight" THEN "do" ELSE "load"]
  /\ UNCHANGED <<cacheVars, config, loaded, flight, writeVars, crossed>>

\* Mutant: nobody joins a flight.
DoAlone(r) ==
  /\ rpc[r] = "do"
  /\ rpc' = [rpc EXCEPT ![r] = "load"] /\ flight' = TRUE
  /\ UNCHANGED <<cacheVars, config, loaded, writeVars, crossed>>

\* group.Do joins the load of another reader, or begins one: without another
\* look at the cache, which may have the key by now.
Do(r) ==
  /\ rpc[r] = "do"
  /\ rpc' = [rpc EXCEPT ![r] = IF flight THEN "join" ELSE "load"] /\ flight' = TRUE
  /\ UNCHANGED <<cacheVars, config, loaded, writeVars, crossed>>

\* The call of the key ends: everyone who joined returns with it.
Return(r) ==
  /\ rpc' = [q \in Readers |-> IF q = r \/ rpc[q] = "join" THEN "idle" ELSE rpc[q]]
  /\ flight' = FALSE

\* loadFunc fails.
LoadFails(r) ==
  /\ rpc[r] = "load"
  /\ Return(r)
  /\ UNCHANGED <<cacheVars, config, loaded, writeVars, crossed>>

\* loadFunc reads the database.
Load(r) ==
  /\ rpc[r] = "load"
  /\ loaded' = [loaded EXCEPT ![r] = db]
  /\ rpc' = [rpc EXCEPT ![r] = "put"]
  /\ UNCHANGED <<cacheVars, config, flight, writeVars, crossed>>

\* The loaded value goes into the cache, and Get returns.
PutLoaded(r) ==
  /\ rpc[r] = "put"
  /\ PutRandomExpire(loaded[r])
  /\ loaded' = [loaded EXCEPT ![r] = AnyVal]
  /\ Return(r)
  /\ UNCHANGED <<vacuum, config, writeVars, crossed>>

-----------------------------------------------------------------------------
(* Set.                                                                    *)

\* A reader is about to put a value that the database no longer has.
StaleLoad == \E r \in Readers : rpc[r] = "put" /\ loaded[r] # db

Stored(v) ==
  /\ db' = v
  /\ held' = held \cup {v}

\* The step after storeFunc.
AfterStore == IF wr = "through" THEN "put" ELSE IF wr = "delete" THEN "delete" ELSE "arm"

\* storeFunc stores the value.  A Set that has not come so far has changed
\* nothing yet.
Set(w) ==
  \E v \in Vals :
    /\ wpc[w] = "idle"
    /\ Stored(v)
    /\ wpc' = [wpc EXCEPT ![w] = AfterStore] /\ val' = [val EXCEPT ![w] = IF wr = "through" THEN v ELSE @]
    /\ UNCHANGED <<cacheVars, config, readVars, timers, late, crossed>>

\* Mutant: write through puts the value all the same.
FailsAndPuts(w) ==
  /\ wpc[w] = "idle"
  /\ IF wr = "through" THEN \E v \in Vals : Put(v, expiration) ELSE UNCHANGED item
  /\ UNCHANGED <<vacuum, config, readVars, wpc, val, timers, late, db, held, crossed>>

\* storeFunc fails and has stored nothing: Set returns the error.
StoreFails(w) ==
  /\ wpc[w] = "idle"
  /\ UNCHANGED patternVars

\* What becomes of a store that times out: it has taken effect, it never will,
\* or it may later.  One of these is pending at a time: a bound.
Overdue ==
  \/ \E v \in Vals : Stored(v) /\ UNCHANGED late
  \/ UNCHANGED <<db, held, late>>
  \/ late = {} /\ (\E v \in Vals : late' = {v}) /\ UNCHANGED <<db, held>>

\* Mutant: a timeout is an error like any other.
TimeoutIsError(w) ==
  /\ wpc[w] = "idle"
  /\ Overdue
  /\ wpc' = [wpc EXCEPT ![w] = "idle"]
  /\ UNCHANGED <<cacheVars, config, readVars, val, timers, crossed>>

\* storeFunc returns context.DeadlineExceeded.  The two deleting decorators go
\* on to delete, write through returns.
StoreTimesOut(w) ==
  /\ wpc[w] = "idle"
  /\ Overdue
  /\ wpc' = [wpc EXCEPT ![w] = IF wr = "through" THEN "idle" ELSE AfterStore]
  /\ UNCHANGED <<cacheVars, config, readVars, val, timers, crossed>>

\* The last delete of a Set is still to come: of a double delete the second.
LastOwed ==
  \/ wr = "delete" /\ \E w \in Writers : wpc[w] = "delete"
  \/ wr = "double" /\ (timers > 0 \/ \E w \in Writers : wpc[w] = "arm")

\* A store that timed out takes effect, with or without a delete behind it.
StoreLate ==
  \E v \in late :
    /\ Stored(v) /\ late' = {}
    /\ crossed' = (crossed \/ (wr # "through" /\ ~LastOwed))
    /\ UNCHANGED <<cacheVars, config, readVars, wpc, val, timers>>

\* time.AfterFunc(c.interval, ...)
Arm(w) ==
  /\ wpc[w] = "arm" /\ timers < MaxTimers
  /\ timers' = timers + 1
  /\ wpc' = [wpc EXCEPT ![w] = "delete"]
  /\ UNCHANGED <<cacheVars, config, readVars, val, late, db, held, crossed>>

\* Write through puts the value, the others delete the key.
Finish(w) ==
  /\ \/ wpc[w] = "put" /\ PutRandomExpire(val[w]) /\ UNCHANGED crossed
     \/ /\ wpc[w] = "delete" /\ Delete
        /\ crossed' = (StaleLoad /\ (crossed \/ wr = "delete"))
  /\ wpc' = [wpc EXCEPT ![w] = "idle"] /\ val' = [val EXCEPT ![w] = AnyVal]
  /\ UNCHANGED <<vacuum, config, readVars, timers, late, db, held>>

\* The second delete.
DeleteAgain ==
  /\ timers > 0
  /\ timers' = timers - 1
  /\ Delete
  /\ crossed' = StaleLoad
  /\ UNCHANGED <<vacuum, config, readVars, wpc, val, late, db, held>>

-----------------------------------------------------------------------------

Cache == (Age \/ expiredKeys \/ clearItems) /\ UNCHANGED <<config, readVars, writeVars, crossed>>

\* The embedded cache's own Delete and ClearAll.
ClearAll ==
  /\ item # NoItem /\ Delete
  /\ UNCHANGED <<vacuum, config, readVars, writeVars, crossed>>

Read(r)  == Get(r) \/ Do(r) \/ LoadFails(r) \/ Load(r) \/ PutLoaded(r)
Write(w) == Set(w) \/ StoreFails(w) \/ StoreTimesOut(w) \/ Arm(w) \/ Finish(w)

PatternNext ==
  \/ Cache \/ ClearAll \/ DeleteAgain \/ StoreLate
  \/ \E r \in Readers : Read(r)
  \/ \E w \in Writers : Write(w)

PatternSpec == PatternInit /\ [][PatternNext]_patternVars

\* Time passes, the vacuum runs, loads end; nobody has to call Get or Set.
PatternFairness ==
  /\ WF_patternVars(Cache /\ Age)
  /\ WF_patternVars(Cache /\ expiredKeys) /\ WF_patternVars(Cache /\ clearItems)
  /\ \A r \in Readers : WF_patternVars(Do(r) \/ LoadFails(r) \/ Load(r) \/ PutLoaded(r))

PatternFairSpec == PatternSpec /\ PatternFairness

-----------------------------------------------------------------------------
(* Properties.                                                             *)

\* Every variable has its type; somebody is on the way with the call that
\* others have joined.
PatternTypeOK ==
  /\ CacheTypeOK
  /\ rd \in ReadBy /\ wr \in WriteBy /\ random \in BOOLEAN
  /\ db \in Vals /\ held \subseteq Vals
  /\ rpc \in [Readers -> {"idle", "do", "load", "join", "put"}] /\ loaded \in [Readers -> Vals]
  /\ flight \in BOOLEAN
  /\ flight <=> (rd = "flight" /\ \E r \in Readers : rpc[r] \in {"load", "put"})
  /\ wpc \in [Writers -> {"idle", "arm", "delete", "put"}] /\ val \in [Writers -> Vals]
  /\ timers \in 0 .. MaxTimers /\ late \subseteq Vals /\ crossed \in BOOLEAN

\* The single-flight decorator never has two loads of a key under way.  One
\* after the other they may be: readers that missed together each load if the
\* first has returned before the second calls group.Do.
SingleLoad ==
  rd = "flight" =>
    \A q, r \in Readers : rpc[q] \in {"load", "put"} /\ rpc[r] \in {"load", "put"} => q = r

\* The cache never runs ahead of the database: what it holds was in the
\* database at some time, also when storeFunc fails or times out.
CachedWasStored == item # NoItem => item.val \in held

Stale == Hit /\ item.val # db

\* What deleting buys: the cache is stale only while a Set or its second
\* delete is under way, or after the last delete of a Set met a load that was
\* older than the Set, or came before a store that had timed out.  A load or a
\* late store that the first delete of a double delete met does no lasting harm.
DeleteHeals ==
  wr # "through" /\ Stale =>
    crossed \/ timers > 0 \/ \E w \in Writers : wpc[w] \in {"arm", "delete"}

\* A stale value that has a lifespan is not served for good: it comes to an end
\* unless another Set begins.  While Sets overlap it need not: two of write
\* through that put in the other order than they store keep the item stale, and
\* young.
Settled == late = {} /\ \A w \in Writers : wpc[w] = "idle"
StaleEnds == (Settled /\ Stale /\ item.lifespan # 0) ~> (~Stale \/ ~Settled)

\* Every Get returns, also those that joined the load of another.
GetReturns == \A r \in Readers : (rpc[r] # "idle") ~> (rpc[r] = "idle")

\* An expired item, for which the bloom filter cache reports an error instead
\* of loading, is cleared or replaced.
ExpiredIsCleared == isExpire ~> ~isExpire

\* What the vacuum, the lifespans and singleflight owe a reader: waiting for
\* another's load, an expired item, and staleness once the Sets have ended, all
\* come to an end.
CacheProgress == StaleEnds /\ GetReturns /\ ExpiredIsCleared

=============================================================================
