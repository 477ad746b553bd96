---------------------------- MODULE MemoryCache -----------------------------
(***************************************************************************)
(* The memory cache adapter (client/cache/memory.go) seen from one key:    *)
(* the item of the key, its lifespan, and the vacuum goroutine, which      *)
(* collects the expired keys under the read lock and deletes them later    *)
(* under the write lock, whatever they hold by then.                       *)
(***************************************************************************)
EXTENDS Integers

CONSTANTS Vals,       \* values
          NoItem      \* absent

ASSUME CacheAssumption == Vals # {}

VARIABLES
  item,       \* bc.items[key]
  vacuum      \* where the vacuum goroutine is

cacheVars == <<item, vacuum>>

\* age is the time since createdTime, which does not matter beyond expiry.
Items == [val : Vals, age : Nat, lifespan : Nat]

CacheInit == item = NoItem /\ vacuum = "idle"

\* A lifespan of 0 means forever.
isExpire == item # NoItem /\ item.lifespan # 0 /\ item.age > item.lifespan

Absent == item = NoItem
Hit    == item # NoItem /\ ~isExpire

Put(v, l) == item' = [val |-> v, age |-> 0, lifespan |-> l]
Delete    == item' = NoItem

\* Mutant: createdTime is renewed whenever it is looked at.
AgeForever ==
  /\ item # NoItem /\ item.lifespan # 0 /\ ~isExpire
  /\ item' = [item EXCEPT !.age = 0]
  /\ UNCHANGED vacuum

\* Time passes.
Age ==
  /\ item # NoItem /\ item.lifespan # 0 /\ ~isExpire
  /\ item' = [item EXCEPT !.age = @ + 1]
  /\ UNCHANGED vacuum

\* vacuum: expiredKeys under the read lock ...
expiredKeys ==
  /\ vacuum = "idle" /\ isExpire
  /\ vacuum' = "found"
  /\ UNCHANGED item

\* ... and clearItems under the write lock, without looking again.
clearItems ==
  /\ vacuum = "found"
  /\ Delete
  /\ vacuum' = "idle"

CacheTypeOK ==
  /\ item = NoItem \/ item \in Items
  /\ vacuum \in {"idle", "found"}

=============================================================================
