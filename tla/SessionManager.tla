--------------------------- MODULE SessionManager ----------------------------
(***************************************************************************)
(* Sessions of web requests (server/web/session/session.go, controller.go) *)
(* over the providers that store them elsewhere: files, redis, memcached,  *)
(* SQL, SSDB, ledis, couchbase, or the cookie itself.  Requests of several *)
(* browsers overlap; each works on an object of its own that the provider  *)
(* read, and saves it whole when it ends.  The stores are external: a map  *)
(* from id to bytes that forgets an id when its time is over.  The memory  *)
(* provider, whose objects are shared, is MemSession.                      *)
(***************************************************************************)
EXTENDS Integers, Sequences, FiniteSets

CONSTANTS Browsers,
          Requests,     \* requests at a time
          Setups,       \* pairs of a provider and of what carries the id, "cookie" or "header"
          MaxSids, MaxRequests, MaxCalls   \* bounds

Sids == 1 .. MaxSids
NoSid == 0
Keep == 0 - 1      \* nothing for the browser to change
Absent == "absent"
Raw == "raw"        \* zero bytes
Empty == "empty"    \* an encoded map without values
\* What a read makes of the bytes, or of none.
Decoded(d) == IF d \in {Absent, Raw} THEN Empty ELSE d

Kinds == {"file", "redis", "redis_cluster", "redis_sentinel", "memcache", "mysql", "postgresql",
          "ssdb", "ledis", "couchbase", "cookie"}

ASSUME SessionAssumption ==
  /\ Setups \subseteq Kinds \X {"cookie", "header"}
  /\ MaxSids \in Nat /\ MaxRequests \in Nat /\ MaxCalls \in Nat
  /\ Browsers \cap {"nobody", "unknown", Absent, Raw, Empty} = {}

VARIABLES
  kind, carrier,
  store,     \* id -> bytes
  owner,     \* history: id -> the browser it was issued to
  jar,       \* browser -> the id it sends
  req,       \* request -> where it is and what it holds
  begun,     \* requests begun so far
  gone, late,   \* history: ids destroyed; those then in use, or saved again by a move
  calm       \* history: browser -> what it should find at its next request

vars == <<kind, carrier, store, owner, jar, req, begun, gone, late, calm>>

\* What a request has: the ids of its Cookie header, its header field, the
\* session object (its connection may be shut) and who refers to it, what it
\* tells the browser.
Fresh == [at |-> "idle", who |-> "nobody", cookies |-> <<>>, field |-> NoSid,
          sid |-> NoSid, val |-> Empty, shut |-> FALSE, inCtx |-> FALSE, inCtl |-> FALSE,
          out |-> Keep, sent |-> FALSE, calls |-> 0, plain |-> TRUE,
          old |-> NoSid, new |-> NoSid, seen |-> Absent, before |-> Empty,
          own |-> NoSid, done |-> FALSE, got |-> Empty]

TypeOK ==
  /\ store \in [Sids -> {Absent, Raw, Empty} \cup Browsers]
  /\ owner \in [Sids -> {"nobody"} \cup Browsers]
  /\ jar \in [Browsers -> Sids \cup {NoSid}]
  /\ \A r \in Requests : req[r].inCtx \/ req[r].inCtl => req[r].sid # NoSid
  /\ gone \subseteq Sids /\ late \subseteq Sids

Init ==
  /\ \E setup \in Setups : kind = setup[1] /\ carrier = setup[2]
  /\ store = [s \in Sids |-> Absent] /\ owner = [s \in Sids |-> "nobody"]
  /\ jar = [b \in Browsers |-> NoSid]
  /\ req = [r \in Requests |-> Fresh] /\ begun = 0
  /\ gone = {} /\ late = {} /\ calm = [b \in Browsers |-> Empty]

-----------------------------------------------------------------------------
(* Providers.  missing: what SessionExist says of an id that is not there; *)
(* read: what SessionRead does about it; regen: SessionRegenerate; save,   *)
(* ifPresent: SessionRelease and SessionReleaseIfPresent of an object,     *)
(* which Set, Delete and Flush change and nobody else sees; closes: a      *)
(* release closes the connection of the object, so that the next one saves *)
(* nothing.                                                                *)

FileStore == [save |-> "upsert", ifPresent |-> "update", closes |-> FALSE]
FileProvider == [missing |-> "no", hasRaw |-> TRUE, read |-> "make", regen |-> "atomic"]
RedisStore == [save |-> "upsert", ifPresent |-> "update", closes |-> FALSE]
RedisProvider == [missing |-> "no", hasRaw |-> TRUE, read |-> "new", regen |-> "rename"]
RedisClusterStore == RedisStore
RedisClusterProvider == RedisProvider
RedisSentinelStore == RedisStore
RedisSentinelProvider == RedisProvider
MemcacheStore == [save |-> "upsert", ifPresent |-> "update", closes |-> FALSE]
MemcacheProvider == [missing |-> "error", hasRaw |-> FALSE, read |-> "new", regen |-> "panic"]
MysqlStore == [save |-> "update", ifPresent |-> "update", closes |-> TRUE]
MysqlProvider == [missing |-> "no", hasRaw |-> TRUE, read |-> "make", regen |-> "rekey"]
PostgresStore == MysqlStore
PostgresProvider == MysqlProvider
SsdbStore == [save |-> "upsert", ifPresent |-> "upsert", closes |-> FALSE]
SsdbProvider == [missing |-> "no", hasRaw |-> FALSE, read |-> "new", regen |-> "copy"]
LedisStore == [save |-> "upsert", ifPresent |-> "upsert", closes |-> FALSE]
LedisProvider == [missing |-> "no", hasRaw |-> TRUE, read |-> "new", regen |-> "empty"]
CouchbaseStore == [save |-> "upsert", ifPresent |-> "upsert", closes |-> TRUE]
CouchbaseProvider == [missing |-> "error", hasRaw |-> TRUE, read |-> "error", regen |-> "error"]
CookieStore == [save |-> "cookie", ifPresent |-> "cookie", closes |-> FALSE]
CookieProvider == [missing |-> "yes", hasRaw |-> TRUE, read |-> "new", regen |-> "nil"]

Provider ==
  CASE kind = "file" -> FileProvider [] kind = "redis" -> RedisProvider
    [] kind = "redis_cluster" -> RedisClusterProvider [] kind = "redis_sentinel" -> RedisSentinelProvider
    [] kind = "memcache" -> MemcacheProvider [] kind = "mysql" -> MysqlProvider
    [] kind = "postgresql" -> PostgresProvider [] kind = "ssdb" -> SsdbProvider
    [] kind = "ledis" -> LedisProvider [] kind = "couchbase" -> CouchbaseProvider
    [] kind = "cookie" -> CookieProvider
Store ==
  CASE kind = "file" -> FileStore [] kind = "redis" -> RedisStore
    [] kind = "redis_cluster" -> RedisClusterStore [] kind = "redis_sentinel" -> RedisSentinelStore
    [] kind = "memcache" -> MemcacheStore [] kind = "mysql" -> MysqlStore
    [] kind = "postgresql" -> PostgresStore [] kind = "ssdb" -> SsdbStore
    [] kind = "ledis" -> LedisStore [] kind = "couchbase" -> CouchbaseStore
    [] kind = "cookie" -> CookieStore

\* Mutant: every id exists.
ExistsAlways(s) == "yes"

\* SessionExist: "yes", "no" or "error".
Exists(s) ==
  IF store[s] = Absent THEN Provider.missing
  ELSE IF store[s] = Raw /\ ~Provider.hasRaw THEN "no" ELSE "yes"

\* Others that work with an id, or are about to.
InUse(r, s) == \E q \in Requests \ {r} : req[q].at # "idle" /\ s \in {req[q].sid, req[q].old}

Put(s, d) == [store EXCEPT ![s] = d]
FirstCookie(q) == IF q.cookies = <<>> THEN NoSid ELSE q.cookies[1]
Unused == {s \in Sids : owner[s] = "nobody"}

\* Mutant: an id that is not stored is taken for unused.
NewSidReused == CHOOSE s \in Sids : store[s] = Absent

\* sessionID: one that nobody has.
NewSid == CHOOSE s \in Unused : \A t \in Unused : s <= t

\* Release of an object, and what is left of it: an error of a connection that
\* is closed is ignored.
Saved(how, q) ==
  IF q.shut \/ (how = "update" /\ store[q.sid] = Absent) THEN store ELSE Put(q.sid, q.val)
Released(q) == Saved(Store.save, q)
Shut(q) == [q EXCEPT !.shut = Store.closes]

\* The values as a cookie: under a name of its own, by time, iv and MAC.
EncodedCookie(q) == Put(NewSid, q.val)

\* The id goes into the answer unless its header is out, and into the request.
Tell(q, s) ==
  [q EXCEPT !.out = IF q.sent THEN @ ELSE s, !.plain = @ /\ ~q.sent,
            !.cookies = Append(@, s), !.field = IF carrier = "header" THEN s ELSE NoSid]

\* A request ends.  The browser takes what it was told, if it was.
Gone(r, expected) ==
  LET q == req[r] IN
  /\ jar' = IF q.out = Keep THEN jar
            ELSE [jar EXCEPT ![q.who] = q.out]
  /\ calm' = [calm EXCEPT ![q.who] = IF q.plain THEN expected ELSE "unknown"]
  /\ req' = [req EXCEPT ![r] = Fresh]

Same == UNCHANGED <<kind, carrier, begun>>
Quiet == UNCHANGED <<jar, calm, gone, late>>

-----------------------------------------------------------------------------
(* SessionStart.                                                           *)

\* getSid and SessionExist; a request that carries no id that is known gets
\* a session of its own at once.
Begin(r, b) ==
  LET q0 == [Fresh EXCEPT !.who = b, !.at = "read",
               !.cookies = IF carrier = "cookie" /\ jar[b] # NoSid THEN <<jar[b]>> ELSE <<>>,
               !.field = IF carrier = "header" THEN jar[b] ELSE NoSid,
               !.plain = \A p \in Requests : req[p].who # b]
      sid == IF FirstCookie(q0) # NoSid THEN FirstCookie(q0) ELSE q0.field
      others == [p \in Requests |-> IF req[p].who = b THEN [req[p] EXCEPT !.plain = FALSE] ELSE req[p]]
      known == IF sid = NoSid THEN "no" ELSE Exists(sid)
  IN
  /\ req[r].at = "idle" /\ begun < MaxRequests /\ begun' = begun + 1
  /\ \/ known = "yes" /\ req' = [others EXCEPT ![r] = [q0 EXCEPT !.old = sid]]
        /\ UNCHANGED <<store, owner>>
     \/ known = "error" /\ req' = others /\ UNCHANGED <<store, owner>>
     \/ /\ known = "no" /\ Unused # {}
        /\ owner' = [owner EXCEPT ![NewSid] = b]
        /\ store' = IF Provider.read = "make" THEN Put(NewSid, Raw) ELSE store
        /\ req' = IF Provider.read = "error" THEN others
                  ELSE [others EXCEPT ![r] =
                         Tell([q0 EXCEPT !.at = "handler", !.sid = NewSid, !.inCtx = TRUE], NewSid)]
  /\ UNCHANGED <<kind, carrier>> /\ Quiet

\* SessionRead of an id that was there a moment ago.
StartRead(r) ==
  LET q == req[r] IN
  /\ q.at = "read"
  /\ store' = IF store[q.old] = Absent /\ Provider.read = "make" THEN Put(q.old, Raw) ELSE store
  /\ req' = [req EXCEPT ![r] = IF store[q.old] = Absent /\ Provider.read = "error" THEN Fresh
       ELSE [q EXCEPT !.at = "handler", !.sid = q.old, !.old = NoSid, !.inCtx = TRUE,
                      !.val = Decoded(store[q.old])]]
  /\ Same /\ Quiet /\ UNCHANGED owner

-----------------------------------------------------------------------------
(* What a handler does with its session (controller.go).                   *)

Handles(r) == req[r].at = "handler" /\ req[r].calls < MaxCalls
Called(q) == [q EXCEPT !.calls = @ + 1]

\* SetSession.  A session that was destroyed stays in the controller if it
\* was used there before; otherwise there is none, and a panic.  Nobody may
\* rely on what is set after the connection was shut: it is never saved.
SetSession(r) ==
  LET q == req[r] IN
  /\ Handles(r)
  /\ \/ /\ q.inCtl \/ q.inCtx
        /\ req' = [req EXCEPT ![r] = [Called(q) EXCEPT !.inCtl = TRUE, !.val = q.who,
                                                        !.plain = @ /\ ~q.shut]]
        /\ UNCHANGED <<jar, calm>>
     \/ ~q.inCtl /\ ~q.inCtx /\ Gone(r, "unknown")
  /\ Same /\ UNCHANGED <<store, owner, gone, late>>

\* The answer's header is written: cookies that follow are lost.
Render(r) ==
  /\ req[r].at = "handler" /\ ~req[r].sent
  /\ req' = [req EXCEPT ![r].sent = TRUE]
  /\ Same /\ Quiet /\ UNCHANGED <<store, owner>>

\* A handler saves its session early, by SessionReleaseIfPresent.
ReleaseIfPresent(r) ==
  LET q == req[r] IN
  /\ Handles(r) /\ q.inCtl /\ kind # "cookie"
  /\ store' = Saved(Store.ifPresent, q)
  /\ late' = IF Store.ifPresent = "upsert" THEN late \cup ({q.sid} \cap gone) ELSE late
  /\ req' = [req EXCEPT ![r] = Shut(Called(q))]
  /\ Same /\ UNCHANGED <<owner, jar, calm, gone>>

\* DestroySession: the session of the first cookie, whichever that is.
DestroySession(r) ==
  LET q == req[r]
      o == FirstCookie(q)
  IN
  /\ Handles(r) /\ q.inCtx
  /\ store' = IF o = NoSid \/ kind = "cookie" THEN store ELSE Put(o, Absent)
  /\ gone' = IF o = NoSid \/ kind = "cookie" THEN gone ELSE gone \cup {o}
  /\ late' = IF o # NoSid /\ InUse(r, o) THEN late \cup {o} ELSE late
  /\ req' = [req EXCEPT ![r] = [Called(q) EXCEPT !.inCtx = FALSE, !.val = Empty, !.field = NoSid,
       !.out = IF o = NoSid \/ q.sent THEN @ ELSE NoSid,
       !.plain = @ /\ ~q.sent /\ carrier = "cookie"]]
  /\ Same /\ UNCHANGED <<owner, jar, calm>>

\* SessionRegenerateID saves what it has under the old id, if the controller
\* used it,
RegenerateID(r) ==
  LET q == req[r] IN
  /\ Handles(r)
  /\ store' = IF q.inCtl /\ kind # "cookie" THEN Released(q) ELSE store
  /\ late' = IF q.inCtl /\ ~q.shut THEN late \cup ({q.sid} \cap gone) ELSE late
  /\ req' = [req EXCEPT ![r] = [(IF q.inCtl THEN Shut(Called(q)) ELSE Called(q)) EXCEPT !.at = "ask", !.before = q.val, !.own = q.sid, !.done = FALSE]]
  /\ Same /\ UNCHANGED <<owner, jar, calm, gone>>

\* No session in the controller nor in the context: nobody may rely on any.
Bare(q) == [q EXCEPT !.at = "handler", !.inCtx = FALSE, !.inCtl = FALSE, !.plain = FALSE]

\* and asks the provider to move the session of the first cookie, or without
\* one for a session without a past.  After an error nobody is told of the new
\* id; a provider that returns nothing and no error leaves an id without a
\* session.
AskProvider(r) ==
  LET q == [req[r] EXCEPT !.old = FirstCookie(req[r]), !.new = NewSid] IN
  /\ req[r].at = "ask" /\ Unused # {}
  /\ owner' = [owner EXCEPT ![NewSid] = q.who]
  /\ \/ /\ q.old = NoSid /\ Provider.read # "error"
        /\ store' = IF Provider.read = "make" THEN Put(q.new, Raw) ELSE store
        /\ req' = [req EXCEPT ![r] =
             Tell([q EXCEPT !.at = "handler", !.sid = q.new, !.val = Empty, !.shut = FALSE,
                            !.inCtx = TRUE, !.inCtl = TRUE], q.new)]
     \/ /\ IF q.old = NoSid THEN Provider.read = "error" ELSE Provider.regen = "error"
        /\ req' = [req EXCEPT ![r] = Bare(q)] /\ UNCHANGED store
     \/ /\ q.old # NoSid /\ Provider.regen = "nil"
        /\ req' = [req EXCEPT ![r] = Tell(Bare(q), q.new)] /\ UNCHANGED store
     \/ /\ q.old # NoSid /\ Provider.regen \notin {"nil", "error"}
        /\ req' = [req EXCEPT ![r] = [q EXCEPT !.at = "regen"]] /\ UNCHANGED store
  /\ Same /\ Quiet

Moved(q, val) ==
  Tell([q EXCEPT !.at = "handler", !.sid = q.new, !.val = val, !.shut = FALSE,
                 !.got = val, !.done = TRUE, !.inCtx = TRUE, !.inCtl = TRUE], q.new)

\* SessionRegenerate, as far as one call of the store goes.
RegenLook(r) ==
  LET q == req[r]
      there == store[q.old] # Absent
      go(f) == req' = [req EXCEPT ![r] = f]
  IN
  /\ q.at = "regen"
  /\ \/ /\ Provider.regen = "atomic"
        /\ store' = [store EXCEPT ![q.new] = IF there THEN store[q.old] ELSE Raw, ![q.old] = Absent]
        /\ go(Moved(q, Decoded(store[q.old]))) /\ UNCHANGED <<jar, calm>>
     \/ /\ Provider.regen = "empty"
        /\ store' = Put(q.new, Raw) /\ go(Moved(q, Empty)) /\ UNCHANGED <<jar, calm>>
     \/ /\ Provider.regen = "panic"           \* the request ends, its session is saved
        /\ store' = IF q.inCtx THEN Released(q) ELSE store
        /\ Gone(r, "unknown")
     \/ /\ Provider.regen \in {"rename", "copy"}
        /\ go([q EXCEPT !.seen = store[q.old],
             !.at = IF Provider.regen = "copy" /\ store[q.old] \in {Absent, Raw} THEN "take" ELSE "move"])
        /\ UNCHANGED <<store, jar, calm>>
     \/ /\ Provider.regen = "rekey"
        /\ store' = IF there THEN store ELSE Put(q.old, Raw)
        /\ go([q EXCEPT !.seen = store[q.old], !.at = "move"]) /\ UNCHANGED <<jar, calm>>
  /\ late' = IF Provider.regen = "rekey" THEN late \cup ({q.old} \cap gone) ELSE late
  /\ Same /\ UNCHANGED <<owner, gone>>

\* RENAME, UPDATE of the key, or DEL.
Renamed(q) ==
  IF store[q.old] = Absent THEN store
  ELSE [store EXCEPT ![q.new] = store[q.old], ![q.old] = Absent]

RegenMove(r) ==
  LET q == req[r] IN
  /\ q.at = "move"
  /\ CASE Provider.regen = "rename" ->
            /\ store' = IF q.seen = Absent THEN Put(q.new, Raw) ELSE Renamed(q)
            /\ req' = [req EXCEPT ![r].at = "take"]
       [] Provider.regen = "rekey" ->
            /\ store' = Renamed(q)
            /\ req' = [req EXCEPT ![r] = Moved(q, Decoded(q.seen))]
       [] Provider.regen = "copy" ->
            /\ store' = Put(q.old, Absent) /\ req' = [req EXCEPT ![r].at = "take"]
  /\ Same /\ Quiet /\ UNCHANGED owner

\* GET of the new key, or SETX of it.
RegenTake(r) ==
  LET q == req[r]
      kept == IF q.seen = Absent THEN Raw ELSE q.seen
  IN
  /\ q.at = "take"
  /\ IF Provider.regen = "rename"
     THEN /\ req' = [req EXCEPT ![r] = Moved(q, Decoded(store[q.new]))]
          /\ UNCHANGED store
     ELSE /\ req' = [req EXCEPT ![r] = Moved(q, Decoded(kept))]
          /\ store' = Put(q.new, kept)
  /\ Same /\ Quiet /\ UNCHANGED owner

\* The deferred SessionRelease of serveHttp, or of the session filter.  The
\* cookie provider puts the values into a cookie, if there still is a header.
End(r) ==
  LET q == req[r] IN
  /\ q.at = "handler"
  /\ \/ /\ ~q.inCtx /\ Gone(r, IF q.out = NoSid THEN Empty ELSE "unknown") /\ UNCHANGED <<store, owner>>
     \/ /\ q.inCtx /\ kind # "cookie"
        /\ store' = Released(q) /\ Gone(r, q.val) /\ UNCHANGED owner
     \/ /\ q.inCtx /\ kind = "cookie" /\ Unused # {}
        /\ owner' = [owner EXCEPT ![NewSid] = q.who]
        /\ store' = EncodedCookie(q)
        /\ jar' = IF q.sent THEN (IF q.out = Keep THEN jar ELSE [jar EXCEPT ![q.who] = q.out])
                  ELSE [jar EXCEPT ![q.who] = NewSid]
        /\ calm' = [calm EXCEPT ![q.who] = IF q.plain /\ ~q.sent THEN q.val ELSE "unknown"]
        /\ req' = [req EXCEPT ![r] = Fresh]
  /\ Same /\ UNCHANGED <<gone, late>>

\* The store forgets a session whose time is over; SessionGC where it has to.
Expire(s) ==
  /\ store[s] # Absent
  /\ store' = Put(s, Absent)
  /\ calm' = [calm EXCEPT ![owner[s]] = "unknown"]
  /\ req' = [p \in Requests |-> IF req[p].who = owner[s] THEN [req[p] EXCEPT !.plain = FALSE] ELSE req[p]]
  /\ Same /\ UNCHANGED <<owner, jar, gone, late>>

Next ==
  \/ \E r \in Requests, b \in Browsers : Begin(r, b)
  \/ \E r \in Requests : \/ StartRead(r) \/ SetSession(r) \/ Render(r) \/ DestroySession(r)
                         \/ ReleaseIfPresent(r)
                         \/ RegenerateID(r) \/ AskProvider(r) \/ RegenLook(r) \/ RegenMove(r) \/ RegenTake(r) \/ End(r)
  \/ \E s \in Sids : Expire(s)

Spec == Init /\ [][Next]_vars

-----------------------------------------------------------------------------
(* Properties.                                                             *)

\* A session that was destroyed does not come back unless another request was
\* using it at that time, or SessionRegenerateID saved or inserted it again:
\* SessionStart never brings an id back to life.
DestroyedStaysGone == \A s \in gone \ late : store[s] = Absent

\* A browser whose request ran by itself finds at its next request what that
\* request left, whether the session was moved, destroyed or just used; but not
\* what it set after a release that shut the connection, nor anything of a
\* session that the cookie provider was asked to regenerate.
Continuity ==
  \A b \in Browsers :
    (\A r \in Requests : req[r].who # b) /\ calm[b] # "unknown" =>
      calm[b] = IF jar[b] = NoSid THEN Empty ELSE Decoded(store[jar[b]])

\* Regenerating the id keeps the values and leaves nothing under the old id,
\* if the request came with the id of its session, which had not been
\* destroyed, and nobody interfered.
RegenerateKeeps ==
  \A r \in Requests :
    LET q == req[r] IN
      q.done /\ q.plain /\ q.old = q.own /\ q.old \notin gone /\ kind # "ledis" =>
        q.got = q.before /\ store[q.old] = Absent

\* "the session data have no changes": also if the request came with an id
\* that had expired.
RegenerateKeepsData ==
  \A r \in Requests : req[r].done /\ req[r].plain => req[r].got = req[r].before

\* Between DEL of the old key and SETX of the new one the session is in the
\* hands of a request.
InHand(r, s) ==
  /\ req[r].at = "take" /\ Provider.regen = "copy"
  /\ req[r].new = s /\ req[r].seen \notin {Absent, Raw}

Live == [s \in Sids |->
          IF \E r \in Requests : InHand(r, s)
          THEN req[CHOOSE r \in Requests : InHand(r, s)].seen ELSE store[s]]

\* What the package promises.
Api == INSTANCE SessionApi WITH live <- Live
ImplementsApi == Api!Spec

\* What a browser may rely on: its values are there at the next request, also
\* under a new id, and what it destroyed is not.
SessionsSound == TypeOK /\ DestroyedStaysGone /\ Continuity /\ RegenerateKeeps

=============================================================================
