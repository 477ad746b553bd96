---------------------------- MODULE CacheAdapters ----------------------------
(***************************************************************************)
(* The cache adapters that keep their values outside the process           *)
(* (client/cache: file.go, redis, memcache, ssdb) and the arithmetic of    *)
(* their counters (calc_utils.go).  The servers are external: each command *)
(* is one step, and scanning gives the keys that are there all the time.   *)
(* Keys are numbers, in the order ssdb scans them.  On a redis server other *)
(* caches have a key each; the names there are short sequences of          *)
(* characters, in which a ? stands for those a pattern gives a meaning.    *)
(***************************************************************************)
EXTENDS Integers, Sequences, FiniteSets, Functions

CONSTANTS NKeys,      \* the keys are 1 .. NKeys
          Page,       \* keys a scan gives at once (1024 and 50 in the code)
          Half,       \* half the values of a counter: 2^31 or 2^63 in the code
          Nil,        \* no value
          MaxCalls    \* calls: a bound

AdapterAssumption ==
  /\ NKeys \in Nat /\ Page \in Nat \ {0} /\ Nil \notin Int
  /\ Half \in Nat /\ Half >= 2

VARIABLES adapter,  \* "file", "redis", "memcache" or "ssdb"
          redis,    \* its options key, the prefix, and skipEmptyPrefix
          ctype,    \* the Go type of a counter in a file: int, int32 or uint, uint32
          store,    \* the values; Nil where there is none
          expired,  \* keys whose time is over; a server forgets them at once
          incring,  \* file: the Incr that has read and will write
          clear,    \* ClearAll: its step, the cursor, the keys it has found
          todo,     \* history: keys it has to remove
          asked,    \* history: the last GetMulti, its answer and its errors
          exist,    \* history: the last IsExist
          calls

cacheAdapterVars == <<adapter, redis, ctype, store, expired, incring, clear, todo, asked, exist, calls>>

CacheKeys == 1 .. NKeys

\* The prefixes of the other caches; the key of the first is NKeys + 1.
Prefixes == <<<<"b">>, <<"a", "b">>, <<"a", ":", "b">>>>
Others == NKeys + 1 .. NKeys + 3
AllKeys == CacheKeys \cup Others

Idle == [step |-> "idle", cursor |-> 0, found |-> {}]
Nobody == [key |-> 0, val |-> 0]

\* Counters: a signed or an unsigned number.
MaxOf(t) == IF t \in {"int", "int32"} THEN Half - 1 ELSE 2 * Half - 1
MinOf(t) == IF t \in {"int", "int32"} THEN -Half ELSE 0
Wrap(t, v) == IF v > MaxOf(t) THEN v - 2 * Half ELSE IF v < MinOf(t) THEN v + 2 * Half ELSE v

\* incr: int and uint look at the sum, the others at the value.  Nil: overflow.
IncrVal(t, v) ==
  LET tmp == Wrap(t, v + 1)
      over == CASE t = "int" -> v > 0 /\ tmp < 0
                [] t = "uint" -> tmp < v
                [] t \in {"int32", "uint32"} -> v = MaxOf(t)
  IN  IF over THEN Nil ELSE tmp

\* decr.
DecrVal(t, v) ==
  LET tmp == Wrap(t, v - 1)
      over == CASE t = "int" -> v < 0 /\ tmp > 0
                [] t = "uint" -> v = 0
                [] t \in {"int32", "uint32"} -> v = MinOf(t)
  IN  IF over THEN Nil ELSE tmp

Init ==
  /\ adapter \in {"file", "redis", "memcache", "ssdb"}
  /\ IF adapter = "file" THEN ctype \in {"int", "int32", "uint", "uint32"} ELSE ctype = "int"
  /\ redis \in [key : {<<"a">>, <<"?">>, <<>>}, skipEmptyPrefix : BOOLEAN]
  /\ adapter # "redis" => redis = [key |-> <<"a">>, skipEmptyPrefix |-> FALSE]
  /\ store \in {[k \in AllKeys |-> IF k \in Others \/ k \in s THEN 0 ELSE Nil] : s \in SUBSET CacheKeys}
  /\ expired = {} /\ incring = Nobody /\ clear = Idle /\ todo = {} /\ asked = <<>> /\ exist = <<>> /\ calls = 0

Call == calls < MaxCalls /\ calls' = calls + 1 /\ asked' = <<>> /\ exist' = <<>>

-----------------------------------------------------------------------------
(* One key.                                                                *)

\* What Get finds: a file that is expired is an error.
Get(k) == IF k \in expired THEN Nil ELSE store[k]

\* Put: writes the value, and lets it live; a string for memcache and ssdb.
Put ==
  \E k \in CacheKeys :
    /\ Call /\ store' = [store EXCEPT ![k] = 0] /\ expired' = expired \ {k} /\ todo' = todo \ {k}
    /\ UNCHANGED <<adapter, redis, ctype, incring, clear>>

Delete ==
  \E k \in CacheKeys :
    /\ Call /\ store' = [store EXCEPT ![k] = Nil] /\ expired' = expired \ {k}
    /\ UNCHANGED <<adapter, redis, ctype, incring, clear, todo>>

\* Time goes by for a key: a server drops it, a file stays.
Expire ==
  \E k \in CacheKeys :
    /\ Call /\ store[k] # Nil
    /\ IF adapter = "file" THEN expired' = expired \cup {k} /\ UNCHANGED store
       ELSE store' = [store EXCEPT ![k] = Nil] /\ UNCHANGED expired
    /\ UNCHANGED <<adapter, redis, ctype, incring, clear, todo>>

\* Incr and Decr on a server: redis and ssdb begin a missing key at zero,
\* memcache refuses it and does not go below zero.
ServerIncr ==
  \E k \in CacheKeys, d \in {1, -1} :
    /\ adapter # "file" /\ Call
    /\ LET was == IF store[k] = Nil THEN 0 ELSE store[k]
           to == IF adapter = "memcache" /\ was + d < 0 THEN 0 ELSE was + d
       IN  /\ adapter = "memcache" => store[k] # Nil
           /\ store' = [store EXCEPT ![k] = to] /\ todo' = todo \ {k}
    /\ UNCHANGED <<adapter, redis, ctype, expired, incring, clear>>

\* On a file it is Get, and a Put that never expires, without a lock.
FileIncrGet ==
  \E k \in CacheKeys, up \in BOOLEAN :
    /\ adapter = "file" /\ incring = Nobody /\ Call /\ Get(k) # Nil
    /\ LET v == IF up THEN IncrVal(ctype, Get(k)) ELSE DecrVal(ctype, Get(k)) IN
         v # Nil /\ incring' = [key |-> k, val |-> v]
    /\ UNCHANGED <<adapter, redis, ctype, store, expired, clear, todo>>

FileIncrPut ==
  /\ incring # Nobody /\ incring' = Nobody
  /\ store' = [store EXCEPT ![incring.key] = incring.val] /\ expired' = expired \ {incring.key}
  /\ todo' = todo \ {incring.key}
  /\ asked' = <<>> /\ exist' = <<>> /\ UNCHANGED <<adapter, redis, ctype, clear, calls>>

\* IsExist: whether there is a file, whatever its age.
IsExist ==
  \E k \in CacheKeys :
    /\ calls < MaxCalls /\ calls' = calls + 1 /\ asked' = <<>>
    /\ exist' = <<k, store[k] # Nil>>
    /\ UNCHANGED <<adapter, redis, ctype, store, expired, incring, clear, todo>>

-----------------------------------------------------------------------------
(* Several keys.                                                           *)

\* ssdb answers multi_get with the keys it has, each with its value.
MultiGet(ks) ==
  LET has == {k \in Range(ks) : store[k] # Nil}
      in == CHOOSE s \in [1 .. Cardinality(has) -> has] : Range(s) = has /\ \A i, j \in DOMAIN s : i < j => s[i] < s[j]
  IN  [i \in 1 .. 2 * Len(in) |-> IF i % 2 = 1 THEN in[(i + 1) \div 2] ELSE store[in[i \div 2]]]

\* The value behind the place of each key in the answer.
SsdbValues(ks) ==
  LET res == MultiGet(ks)
      at(k) == {i \in DOMAIN res : i % 2 = 1 /\ res[i] = k}
  IN  [i \in DOMAIN ks |-> IF at(ks[i]) = {} THEN Nil ELSE res[(CHOOSE j \in at(ks[i]) : TRUE) + 1]]

GetMulti ==
  \E ks \in [1 .. 2 -> CacheKeys] :
    LET vals == IF adapter = "ssdb" THEN SsdbValues(ks) ELSE [i \in DOMAIN ks |-> Get(ks[i])] IN
    /\ calls < MaxCalls /\ calls' = calls + 1 /\ exist' = <<>>
    /\ asked' = [keys |-> ks, vals |-> vals]
    /\ UNCHANGED <<adapter, redis, ctype, store, expired, incring, clear, todo>>

\* ClearAll begins; files are left alone, memcache forgets everything at once.
ClearAll ==
  /\ adapter # "file" /\ clear.step = "idle" /\ Call
  /\ todo' = {k \in CacheKeys : store[k] # Nil}
  /\ IF adapter = "memcache"
     THEN store' = [k \in DOMAIN store |-> Nil] /\ clear' = [Idle EXCEPT !.step = "done"]
     ELSE UNCHANGED store /\ clear' = [Idle EXCEPT !.step = "scan"]
  /\ UNCHANGED <<adapter, redis, ctype, expired, incring>>

Stay == UNCHANGED <<adapter, redis, ctype, expired, incring, todo, calls>> /\ asked' = <<>> /\ exist' = <<>>

\* associate: the prefix, a colon and the key, or the key alone.
Associate(prefix, skip) == IF prefix = <<>> /\ skip THEN <<"k">> ELSE prefix \o <<":", "k">>
Name(k) == IF k \in CacheKeys THEN Associate(redis.key, redis.skipEmptyPrefix)
           ELSE Associate(Prefixes[k - NKeys], FALSE)

\* A name matches a pattern that ends in a star.
Glob(pattern, name) == Len(pattern) <= Len(name) /\ \A i \in DOMAIN pattern : pattern[i] \in {"?", name[i]}

\* The pattern of ClearAll: the prefix, a colon and a star.
RedisMatch(k) == Glob(redis.key \o <<":">>, Name(k))

\* redis: a page of the scan from the cursor on; when the cursor is back at
\* zero, the keys are deleted one at a time.
RedisScan ==
  /\ adapter = "redis" /\ clear.step = "scan"
  /\ LET to == clear.cursor + Page
         page == {k \in clear.cursor + 1 .. to : k \in AllKeys /\ store[k] # Nil /\ RedisMatch(k)}
     IN  clear' = [step |-> IF to >= NKeys + 3 THEN "delete" ELSE "scan", cursor |-> to, found |-> clear.found \cup page]
  /\ UNCHANGED store /\ Stay

RedisDelete ==
  /\ adapter = "redis" /\ clear.step = "delete"
  /\ IF clear.found = {} THEN clear' = [clear EXCEPT !.step = "done"] /\ UNCHANGED store
     ELSE \E k \in clear.found :
            store' = [store EXCEPT ![k] = Nil] /\ clear' = [clear EXCEPT !.found = @ \ {k}]
  /\ Stay

\* The keys after start, at most Page of them.
Scan(start) ==
  LET after == {k \in CacheKeys : k > start /\ store[k] # Nil} IN
  {k \in after : Cardinality({j \in after : j < k}) < Page}

\* Mutant: the next page begins behind the first key after the last.
SsdbCursorNext(keys) == (CHOOSE k \in keys : \A j \in keys : j <= k) + 1

\* Where the next page begins: the last key of this one.
SsdbCursor(keys) == CHOOSE k \in keys : \A j \in keys : j <= k

\* ssdb: a page is scanned, then deleted, until one is empty.
SsdbScan ==
  /\ adapter = "ssdb" /\ clear.step = "scan"
  /\ LET keys == Scan(clear.cursor) IN
     clear' = IF keys = {} THEN [clear EXCEPT !.step = "done"]
              ELSE [step |-> "delete", cursor |-> SsdbCursor(keys), found |-> keys]
  /\ UNCHANGED store /\ Stay

SsdbDelete ==
  /\ adapter = "ssdb" /\ clear.step = "delete"
  /\ store' = [k \in DOMAIN store |-> IF k \in clear.found THEN Nil ELSE store[k]]
  /\ clear' = [clear EXCEPT !.step = "scan", !.found = {}]
  /\ Stay

\* A command fails: ClearAll gives up with an error.
ClearFails ==
  /\ clear.step \in {"scan", "delete"}
  /\ clear' = [clear EXCEPT !.step = "failed"] /\ UNCHANGED store /\ Stay

Next ==
  \/ Put \/ Delete \/ Expire \/ ServerIncr \/ FileIncrGet \/ FileIncrPut \/ IsExist \/ GetMulti
  \/ ClearAll \/ RedisScan \/ RedisDelete \/ SsdbScan \/ SsdbDelete \/ ClearFails

Spec == Init /\ [][Next]_cacheAdapterVars

-----------------------------------------------------------------------------
(* Properties.                                                             *)

\* When ClearAll returns without an error, every key that was there when it
\* began and was not written since is gone, whatever was put or deleted while
\* it went through its pages.  Except on redis with skipEmptyPrefix and no
\* prefix: the keys have no colon then, and the pattern ":*" misses them.
ClearDone ==
  clear.step = "done" /\ (adapter = "redis" => redis.key # <<>> \/ ~redis.skipEmptyPrefix)
    => \A k \in todo : store[k] = Nil

\* ClearAll of a redis cache removes nothing of another cache, unless the
\* prefix of that one begins with this one's and a colon.  Not if the prefix
\* holds a character of patterns: "?:*" matches the keys of the cache "b".
Below(o) == Glob(redis.key \o <<":">>, Prefixes[o - NKeys])
PrefixSafe == adapter = "redis" /\ redis.key # <<"?">> => \A o \in Others : store[o] = Nil => Below(o)

\* GetMulti gives each key its own value at its own place, or none, also if a
\* key is asked for twice or keys in between are missing.
MultiAligned ==
  asked # <<>> => \A i \in DOMAIN asked.keys :
    LET k == asked.keys[i] IN asked.vals[i] = IF k \in expired THEN Nil ELSE store[k]

\* A counter of a file goes up and down by one or not at all: no type wraps
\* around, and none refuses a sum it can hold.
CounterExact ==
  \A v \in MinOf(ctype) .. MaxOf(ctype) :
    /\ IncrVal(ctype, v) = IF v = MaxOf(ctype) THEN Nil ELSE v + 1
    /\ DecrVal(ctype, v) = IF v = MinOf(ctype) THEN Nil ELSE v - 1

\* "IsExist Check if a cached value exists or not. if key is expired, return
\* (false, nil)" (cache.go).
ExistsFresh == exist # <<>> /\ exist[2] => exist[1] \notin expired

\* The adapters keep to their own keys, clear all of them, answer each key with
\* its own value and count exactly.
AdaptersSound == ClearDone /\ PrefixSafe /\ MultiAligned /\ CounterExact

=============================================================================
