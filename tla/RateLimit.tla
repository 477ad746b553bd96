------------------------------ MODULE RateLimit ------------------------------
(***************************************************************************)
(* The rate-limit filter (server/web/filter/ratelimit): one token bucket   *)
(* per session key, created on first use under a read lock and a write     *)
(* lock, and take(), which credits the tokens of the elapsed time, takes   *)
(* one and only then cuts the rest back to the capacity.                   *)
(***************************************************************************)
EXTENDS Integers

CONSTANTS Clients,    \* request goroutines
          Keys,       \* session keys
          Buckets,    \* buckets that may be created: a bound
          NoBucket,   \* absent
          Capacity,   \* limiter.capacity
          Rate,       \* limiter.rate: ticks per token (rate <= 0 means no limit)
          MaxTime     \* the bound on the clock

RateAssumption ==
  /\ Capacity \in Nat /\ Rate \in Nat \ {0} /\ MaxTime \in Nat
  /\ NoBucket \notin Buckets

VARIABLES
  clock,      \* time.Now()
  step,         \* where a request is in limiter.take
  key,        \* the request's session key
  bucket,     \* the bucket it works with
  buckets,    \* limiter.buckets
  free,       \* buckets not created yet
  remaining,  \* tokenBucket.remaining
  last,       \* tokenBucket.lastCheckAt
  granted,    \* history: requests of a key that were let through
  born,       \* history: when the first bucket of a key was created
  mark        \* history: the clock and granted at the start of some window

tokenVars  == <<remaining, last>>
clientVars == <<step, key, bucket>>
vars == <<clock, clientVars, buckets, free, tokenVars, granted, born, mark>>

Init ==
  /\ clock = 0
  /\ step = [c \in Clients |-> "idle"] /\ key \in [Clients -> Keys]
  /\ bucket = [c \in Clients |-> NoBucket]
  /\ buckets = [k \in Keys |-> NoBucket] /\ free = Buckets
  /\ remaining = [b \in Buckets |-> 0] /\ last = [b \in Buckets |-> 0]
  /\ granted = [k \in Keys |-> 0] /\ born = [k \in Keys |-> 0]
  /\ mark = [k \in Keys |-> [at |-> 0, count |-> 0]]

Tick ==
  /\ clock < MaxTime
  /\ clock' = clock + 1
  /\ UNCHANGED <<clientVars, buckets, free, tokenVars, granted, born, mark>>

\* An observer begins a window: what follows is counted from here.
Mark(k) ==
  /\ mark' = [mark EXCEPT ![k] = [at |-> clock, count |-> granted[k]]]
  /\ UNCHANGED <<clock, clientVars, buckets, free, tokenVars, granted, born>>

\* getBucket under the read lock.
GetBucket(c) ==
  /\ step[c] = "idle"
  /\ \E k \in Keys :
       /\ key' = [key EXCEPT ![c] = k]
       /\ bucket' = [bucket EXCEPT ![c] = buckets[k]]
       /\ step' = [step EXCEPT ![c] = IF buckets[k] = NoBucket THEN "create" ELSE "take"]
  /\ UNCHANGED <<clock, buckets, free, tokenVars, granted, born, mark>>

\* newTokenBucket with its options: a full bucket, as of now.
NewBucket(b) ==
  /\ b \in free
  /\ free' = free \ {b}
  /\ remaining' = [remaining EXCEPT ![b] = Capacity]
  /\ last' = [last EXCEPT ![b] = clock]

\* createBucket under the write lock, with its double check.
CreateBucket(c) ==
  /\ step[c] = "create"
  /\ \/ /\ buckets[key[c]] # NoBucket
        /\ bucket' = [bucket EXCEPT ![c] = buckets[key[c]]]
        /\ UNCHANGED <<buckets, free, tokenVars, born>>
     \/ /\ buckets[key[c]] = NoBucket
        /\ \E b \in Buckets :
             /\ NewBucket(b)
             /\ buckets' = [buckets EXCEPT ![key[c]] = b]
             /\ bucket' = [bucket EXCEPT ![c] = b]
        /\ born' = [born EXCEPT ![key[c]] = clock]
  /\ step' = [step EXCEPT ![c] = "take"]
  /\ UNCHANGED <<clock, key, granted, mark>>

\* Tokens of the time since lastCheckAt, and what is there with them.
Times(b) == (clock - last[b]) \div Rate
Tokens(b) == remaining[b] + Times(b)

AtMost(n, m) == IF n > m THEN m ELSE n

\* Mutant: the rest is not cut back to the capacity.
TakeUncapped(c, b) ==
  /\ step[c] = "take" /\ bucket[c] = b
  /\ last' = [last EXCEPT ![b] = @ + Times(b) * Rate]
  /\ \/ /\ Tokens(b) < 1
        /\ remaining' = [remaining EXCEPT ![b] = Tokens(b)]
        /\ UNCHANGED granted
     \/ /\ Tokens(b) >= 1
        /\ remaining' = [remaining EXCEPT ![b] = Tokens(b) - 1]
        /\ granted' = [granted EXCEPT ![key[c]] = @ + 1]
  /\ step' = [step EXCEPT ![c] = "idle"] /\ bucket' = [bucket EXCEPT ![c] = NoBucket]
  /\ UNCHANGED <<clock, key, buckets, free, born, mark>>

\* bucket.take(1) under the bucket's lock: refused, or granted.
Take(c, b) ==
  /\ step[c] = "take" /\ bucket[c] = b
  /\ last' = [last EXCEPT ![b] = @ + Times(b) * Rate]
  /\ \/ /\ Tokens(b) < 1
        /\ remaining' = [remaining EXCEPT ![b] = Tokens(b)]
        /\ UNCHANGED granted
     \/ /\ Tokens(b) >= 1
        /\ remaining' = [remaining EXCEPT ![b] = AtMost(Tokens(b) - 1, Capacity)]
        /\ granted' = [granted EXCEPT ![key[c]] = @ + 1]
  /\ step' = [step EXCEPT ![c] = "idle"] /\ bucket' = [bucket EXCEPT ![c] = NoBucket]
  /\ UNCHANGED <<clock, key, buckets, free, born, mark>>

Next ==
  \/ Tick
  \/ \E k \in Keys : Mark(k)
  \/ \E c \in Clients :
       GetBucket(c) \/ CreateBucket(c) \/ \E b \in Buckets : Take(c, b)

Spec == Init /\ [][Next]_vars

-----------------------------------------------------------------------------
(* Properties.                                                             *)

\* Every variable has its type; the unsigned counter of a bucket never goes
\* below zero nor above the capacity.
TypeOK ==
  /\ clock \in 0 .. MaxTime
  /\ step \in [Clients -> {"idle", "create", "take"}] /\ key \in [Clients -> Keys]
  /\ bucket \in [Clients -> Buckets \cup {NoBucket}]
  /\ buckets \in [Keys -> Buckets \cup {NoBucket}] /\ free \subseteq Buckets
  /\ remaining \in [Buckets -> 0 .. Capacity] /\ last \in [Buckets -> 0 .. MaxTime]
  /\ granted \in [Keys -> Nat] /\ born \in [Keys -> 0 .. MaxTime]
  /\ mark \in [Keys -> [at : 0 .. MaxTime, count : Nat]]

\* Over its whole life a key gets at most its capacity and one request per
\* Rate, however many requests race to create its bucket.
TotalBound ==
  \A k \in Keys : granted[k] <= Capacity + (clock - born[k]) \div Rate

\* In any window a key gets at most capacity + 1 requests more than the tokens
\* of the window: the cut to the capacity comes after the token is taken.
WindowBound ==
  \A k \in Keys :
    granted[k] - mark[k].count <= Capacity + 1 + (clock - mark[k].at + Rate - 1) \div Rate

\* Whatever the interleaving, no more requests pass than the bucket allows.
LimitsHold == TypeOK /\ TotalBound /\ WindowBound

=============================================================================
