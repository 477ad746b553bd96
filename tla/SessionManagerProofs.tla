------------------------ MODULE SessionManagerProofs -------------------------
(***************************************************************************)
(* What a browser may rely on (SessionsSound), and that the package keeps  *)
(* the promise of SessionApi, for any number of browsers, requests, ids    *)
(* and calls, and for every provider.                                      *)
(*                                                                         *)
(* The order of the argument:                                              *)
(*   IInv, whose heart is PrivateInv: while SessionRegenerateID moves a    *)
(*     session nobody else knows the new id, so nobody writes there;       *)
(*     with it every write puts a value of its owner under an id issued    *)
(*     to that owner, and Refinement follows action by action.             *)
(*   SInv, which adds what a request that runs by itself knows of the      *)
(*     store (PlainOk): the values of its session are the ones stored      *)
(*     until it uses them, and they are in the place that the step of the  *)
(*     move it has reached says.  Continuity and RegenerateKeeps speak of  *)
(*     the end of requests and of moves only and are not inductive.        *)
(* Most lemmas are one step of one operation: XKeeps for IInv, XMaps for   *)
(* the refinement, XSound for SInv.                                        *)
(***************************************************************************)
EXTENDS SessionManager, SequenceTheorems, NaturalsInduction, WellFoundedInduction, TLAPS

Data == {Absent, Raw, Empty} \cup Browsers
Values == {Empty} \cup Browsers
Ids == Sids \cup {NoSid}
Places == {"idle", "read", "handler", "ask", "regen", "move", "take"}
Req ==
  [at : Places, who : {"nobody"} \cup Browsers, cookies : Seq(Sids), field : Ids,
   sid : Ids, val : Values, shut : BOOLEAN, inCtx : BOOLEAN, inCtl : BOOLEAN,
   out : Ids \cup {Keep}, sent : BOOLEAN, calls : Nat, plain : BOOLEAN,
   old : Ids, new : Ids, seen : Data, before : Values,
   own : Ids, done : BOOLEAN, got : Values]

Regenerates(q) == q.at \in {"regen", "move", "take"}

\* The ids a request may send, save or tell.
Uses(q) == {FirstCookie(q), q.field, q.sid, q.old, q.out}
\* The ids issued to browser b, and the values that stand for none.
Mine(b, o) == {s \in Sids : o[s] = b} \cup {NoSid, Keep}

\* What a request knows at each point: only ids issued to its own browser.
ReqOk(q, o, regen) ==
  /\ q.at = "idle" => /\ q.who = "nobody" /\ ~q.inCtx /\ ~q.inCtl /\ ~q.done
                      /\ Uses(q) \cup {q.new, q.own} \subseteq {NoSid, Keep}
  /\ q.at # "idle" => /\ q.who \in Browsers
                      /\ Uses(q) \cup {q.new, q.own} \subseteq Mine(q.who, o)
                      /\ {q.val, q.before, q.got} \subseteq {Empty, q.who}
                      /\ q.seen \in {Absent, Raw, Empty, q.who}
  /\ q.at = "read" => q.old # NoSid /\ ~q.inCtx /\ ~q.inCtl /\ ~q.shut
  /\ q.at \notin {"idle", "read"} => q.sid # NoSid
  /\ Regenerates(q) => q.old # NoSid /\ q.new # NoSid /\ q.old # q.new /\ FirstCookie(q) = q.old
  /\ q.at = "move" => /\ regen \in {"rename", "rekey", "copy"}
                      /\ regen = "copy" => q.seen \notin {Absent, Raw}
  /\ q.at = "take" => regen \in {"rename", "copy"}
  /\ q.done => q.at = "handler" /\ q.old # NoSid /\ q.sid # q.old /\ FirstCookie(q) = q.old
  /\ (Regenerates(q) \/ q.done) => regen # "nil"

Types ==
  /\ kind \in Kinds
  /\ store \in [Sids -> Data] /\ owner \in [Sids -> {"nobody"} \cup Browsers]
  /\ jar \in [Browsers -> Ids] /\ calm \in [Browsers -> Values \cup {"unknown"}]
  /\ req \in [Requests -> Req]
  /\ gone \subseteq Sids /\ late \subseteq Sids

\* Every request, every jar and every stored value belongs to one browser.
ReqsOk == \A r \in Requests : ReqOk(req[r], owner, Provider.regen)
JarOk == \A b \in Browsers : jar[b] \in Mine(b, owner)
StoreOk ==
  \A s \in Sids : \/ store[s] = Absent
                  \/ owner[s] # "nobody" /\ store[s] \in {Raw, Empty, owner[s]}
GoneOk == \A s \in gone : owner[s] # "nobody"

\* Nobody but the request that moves a session there knows the new id.
Private(r) ==
  LET s == req[r].new IN
  /\ s \notin gone /\ \A b \in Browsers : jar[b] # s
  /\ \A p \in Requests : s \notin Uses(req[p]) /\ (p # r => req[p].new # s)
PrivateInv == \A r \in Requests : Regenerates(req[r]) => Private(r)

IInv == Types /\ ReqsOk /\ JarOk /\ StoreOk /\ GoneOk /\ PrivateInv

\* A record that differs in some fields only.
Fields == {"at", "who", "cookies", "field", "sid", "val", "shut", "inCtx", "inCtl", "out", "sent",
           "calls", "plain", "old", "new", "seen", "before", "own", "done", "got"}
SameBut(p, q, S) == p \in Req /\ \A f \in Fields \ S : p[f] = q[f]

USE DEF NoSid, Keep, Absent, Raw, Empty

\* An idle request fits everywhere.
LEMMA FreshOk ==
  ASSUME NEW o, NEW regen
  PROVE  Fresh \in Req /\ ReqOk(Fresh, o, regen) /\ FirstCookie(Fresh) = NoSid
<1> QED BY DEF Fresh, Req, ReqOk, Uses, FirstCookie, Regenerates, Places, Ids, Values, Data

\* What the tables of providers and stores have in common.
LEMMA ProviderFacts ==
  ASSUME IInv
  PROVE  /\ Store.save = "update" => Provider.regen = "rekey" /\ Provider.read = "make"
         /\ Provider.read = "make" => Provider.hasRaw
         /\ Provider.regen = "copy" => ~Provider.hasRaw
         /\ Provider.regen = "empty" => kind = "ledis"
         /\ Provider.missing = "yes" => kind = "cookie"
         /\ kind = "cookie" => Provider.regen = "nil"
         /\ kind # "cookie" => /\ Store.save \in {"update", "upsert"}
                               /\ Store.ifPresent \in {"update", "upsert"}
         /\ Store.closes \in BOOLEAN /\ (Store.closes => Store.ifPresent = Store.save)
<1>1. kind \in Kinds BY DEF IInv, Types
<1>2. CASE kind = "file"
  BY <1>2 DEF Provider, Store, FileProvider, FileStore
<1>3. CASE kind = "redis"
  BY <1>3 DEF Provider, Store, RedisProvider, RedisStore
<1>4. CASE kind = "redis_cluster"
  BY <1>4 DEF Provider, Store, RedisClusterProvider, RedisClusterStore, RedisProvider, RedisStore
<1>5. CASE kind = "redis_sentinel"
  BY <1>5 DEF Provider, Store, RedisSentinelProvider, RedisSentinelStore, RedisProvider, RedisStore
<1>6. CASE kind = "memcache"
  BY <1>6 DEF Provider, Store, MemcacheProvider, MemcacheStore
<1>7. CASE kind = "mysql"
  BY <1>7 DEF Provider, Store, MysqlProvider, MysqlStore
<1>8. CASE kind = "postgresql"
  BY <1>8 DEF Provider, Store, PostgresProvider, PostgresStore, MysqlProvider, MysqlStore
<1>9. CASE kind = "ssdb"
  BY <1>9 DEF Provider, Store, SsdbProvider, SsdbStore
<1>10. CASE kind = "ledis"
  BY <1>10 DEF Provider, Store, LedisProvider, LedisStore
<1>11. CASE kind = "couchbase"
  BY <1>11 DEF Provider, Store, CouchbaseProvider, CouchbaseStore
<1>12. CASE kind = "cookie"
  BY <1>12 DEF Provider, Store, CookieProvider, CookieStore
<1> QED BY <1>1, <1>2, <1>3, <1>4, <1>5, <1>6, <1>7, <1>8, <1>9, <1>10, <1>11, <1>12 DEF Kinds

\* The first cookie is an id or none.
LEMMA FirstCookieOk ==
  ASSUME NEW q \in Req
  PROVE  FirstCookie(q) \in Ids /\ FirstCookie(q) # Keep
<1>1. q.cookies \in Seq(Sids) BY DEF Req
<1>2. q.cookies # <<>> => q.cookies[1] \in Sids BY <1>1
<1> QED BY <1>2, SessionAssumption DEF FirstCookie, Ids, Sids

\* A new id goes behind the cookies the request came with.
LEMMA TellOk ==
  ASSUME NEW q \in Req, NEW s \in Sids, NEW p, p = Tell(q, s)
  PROVE  /\ SameBut(p, q, {"cookies", "field", "out", "plain"})
         /\ FirstCookie(p) = IF FirstCookie(q) = NoSid THEN s ELSE FirstCookie(q)
         /\ p.field \in {s, NoSid} /\ p.out = (IF q.sent THEN q.out ELSE s)
         /\ p.plain = (q.plain /\ ~q.sent)
<1>1. s # NoSid /\ s \in Ids BY SessionAssumption DEF Sids, Ids
<1>2. q.cookies \in Seq(Sids) BY DEF Req
<1> DEFINE c == Append(q.cookies, s)
<1>3. c \in Seq(Sids) /\ c # <<>> /\ c[1] = IF q.cookies = <<>> THEN s ELSE q.cookies[1]
  BY <1>2, AppendProperties, EmptySeq
<1>4. q.cookies # <<>> => q.cookies[1] \in Sids /\ q.cookies[1] # NoSid
  BY <1>2, SessionAssumption DEF Sids
<1> HIDE DEF c
<1>5. p = [q EXCEPT !.out = IF q.sent THEN @ ELSE s, !.plain = @ /\ ~q.sent,
            !.cookies = c, !.field = IF carrier = "header" THEN s ELSE NoSid]
  BY DEF Tell, c
<1>6. p.cookies = c BY <1>5 DEF Req
<1>7. FirstCookie(p) = IF FirstCookie(q) = NoSid THEN s ELSE FirstCookie(q)
  BY <1>3, <1>4, <1>6 DEF FirstCookie
<1>8. p \in Req BY ZenonT(30), <1>1, <1>3, <1>5 DEF Req, Ids
<1>9. SameBut(p, q, {"cookies", "field", "out", "plain"}) BY <1>5, <1>8 DEF SameBut, Fields, Req
<1> QED BY <1>5, <1>7, <1>8, <1>9 DEF Req
-----------------------------------------------------------------------------
(* What a step of one request may do to the rest.                          *)

\* The same request, or one that does not run by itself any more.
Twin(p, q) == p \in {q, [q EXCEPT !.plain = FALSE]}

\* A request that lost its calm is the same otherwise.
LEMMA TwinOk ==
  ASSUME NEW q \in Req, NEW p, Twin(p, q)
  PROVE  /\ SameBut(p, q, {"plain"}) /\ (p.plain => q.plain /\ p = q)
         /\ Uses(p) = Uses(q) /\ FirstCookie(p) = FirstCookie(q)
<1>1. CASE p = q BY <1>1 DEF SameBut
<1>2. CASE p = [q EXCEPT !.plain = FALSE]
  <2>1. p \in Req BY <1>2 DEF Req
  <2>2. SameBut(p, q, {"plain"}) BY <1>2, <2>1 DEF Req, SameBut, Fields
  <2> QED BY <1>2, <2>2 DEF Req, Uses, FirstCookie
<1> QED BY <1>1, <1>2 DEF Twin

\* ... and as well formed,
LEMMA TwinReqOk ==
  ASSUME NEW q \in Req, NEW p, Twin(p, q), NEW o, NEW regen, ReqOk(q, o, regen)
  PROVE  ReqOk(p, o, regen)
<1>1. SameBut(p, q, {"plain"}) /\ Uses(p) = Uses(q) /\ FirstCookie(p) = FirstCookie(q) BY TwinOk
<1>2. /\ p.at = q.at /\ p.who = q.who /\ p.sid = q.sid /\ p.val = q.val /\ p.inCtx = q.inCtx
      /\ p.inCtl = q.inCtl /\ p.shut = q.shut /\ p.old = q.old /\ p.new = q.new /\ p.seen = q.seen
      /\ p.before = q.before /\ p.own = q.own /\ p.done = q.done /\ p.got = q.got
  BY <1>1 DEF SameBut, Fields
<1> QED BY <1>1, <1>2 DEF ReqOk, Regenerates

\* as it stays when more ids are issued.
LEMMA ReqOkGrows ==
  ASSUME NEW q \in Req, NEW regen,
         NEW o, NEW o2, \A s \in Sids : o[s] # "nobody" => o2[s] = o[s],
         ReqOk(q, o, regen)
  PROVE  ReqOk(q, o2, regen)
<1>1. \A b \in Browsers : Mine(b, o) \subseteq Mine(b, o2) BY SessionAssumption DEF Mine
<1> QED BY <1>1 DEF ReqOk

Free(s) == s \in Sids /\ owner[s] = "nobody"

\* Ids are issued, never taken back.
Grows ==
  /\ kind' = kind /\ owner' \in [Sids -> {"nobody"} \cup Browsers]
  /\ \A s \in Sids : owner[s] # "nobody" => owner'[s] = owner[s]

\* What the record f that r has next may refer to.
Fits(r, f) ==
  LET q == req[r] IN
  /\ f \in Req /\ ReqOk(f, owner', Provider.regen)
  /\ f.new \in {q.new, NoSid} \/ Free(f.new)
  /\ Regenerates(f) => f.new \notin Uses(f) /\ (Free(f.new) \/ (Regenerates(q) /\ f.new = q.new))
  /\ \A s \in Uses(f) :
       \/ s \in Uses(q) \cup {NoSid, Keep} \/ Free(s)
       \/ Regenerates(q) /\ s = q.new
       \/ \E b \in Browsers : s = jar[b]

\* What a browser is told is its own.
JarFits(r, f) ==
  \A b \in Browsers :
    \/ jar'[b] = jar[b]
    \/ /\ jar'[b] \in Mine(b, owner')
       /\ jar'[b] \in Uses(req[r]) \/ (Free(jar'[b]) /\ f.new = NoSid)

Others(r) == \A p \in Requests \ {r} : Twin(req'[p], req[p])

\* r does not hold the values of a session that is nowhere else.
HandsOff(r) == req'[r].at = "take" => req'[r].seen \in {Absent, Raw}

\* A process keeps its provider.
LEMMA SameProvider ==
  ASSUME kind' = kind
  PROVE  Provider' = Provider /\ Store' = Store
<1> QED BY DEF Provider, Store

\* The requests after a step of r.
LEMMA ReqsStep ==
  ASSUME IInv, Grows, NEW r \in Requests, NEW f, Fits(r, f), Others(r),
         req' \in [Requests -> Req], req'[r] = f
  PROVE  ReqsOk'
<1> SUFFICES ASSUME NEW p \in Requests PROVE ReqOk(req'[p], owner', Provider.regen)
  BY SameProvider DEF ReqsOk, Grows
<1>1. CASE p = r BY <1>1 DEF Fits
<1>2. CASE p # r
  <2>1. req[p] \in Req /\ ReqOk(req[p], owner, Provider.regen) BY DEF IInv, Types, ReqsOk
  <2>2. Twin(req'[p], req[p]) BY <1>2 DEF Others
  <2>3. ReqOk(req'[p], owner, Provider.regen) BY <2>1, <2>2, TwinReqOk
  <2>4. req'[p] \in Req OBVIOUS
  <2> QED BY <2>3, <2>4, ReqOkGrows DEF Grows
<1> QED BY <1>1, <1>2

\* What somebody knows was issued.
LEMMA Owned ==
  ASSUME IInv
  PROVE  /\ \A p \in Requests : ~Free(req[p].new) /\ \A s \in Uses(req[p]) : ~Free(s)
         /\ \A b \in Browsers : ~Free(jar[b])
         /\ \A s \in gone : ~Free(s)
<1>1. \A b \in Browsers : \A s \in Mine(b, owner) : ~Free(s)
  BY SessionAssumption DEF Mine, Free, Sids
<1>2. \A s \in {NoSid, Keep} : ~Free(s) BY SessionAssumption DEF Free, Sids
<1>3. ASSUME NEW p \in Requests PROVE ~Free(req[p].new) /\ \A s \in Uses(req[p]) : ~Free(s)
  <2>1. ReqOk(req[p], owner, Provider.regen) BY DEF IInv, ReqsOk
  <2>2. CASE req[p].at = "idle" BY <1>2, <2>1, <2>2 DEF ReqOk
  <2>3. CASE req[p].at # "idle" BY <1>1, <2>1, <2>3 DEF ReqOk
  <2> QED BY <2>2, <2>3
<1> QED BY <1>1, <1>3 DEF IInv, JarOk, GoneOk, Free

\* A step of r tells nobody an id that another request moves a session to.
LEMMA PrivateStep ==
  ASSUME IInv, Grows, NEW r \in Requests, NEW f, Fits(r, f), Others(r),
         req' \in [Requests -> Req], req'[r] = f,
         JarFits(r, f), gone' \subseteq gone \cup Uses(req[r])
  PROVE  PrivateInv'
<1> DEFINE q == req[r]
<1> SUFFICES ASSUME NEW p \in Requests, Regenerates(req'[p])
             PROVE  LET s == req'[p].new IN
                    /\ s \notin gone' /\ \A b \in Browsers : jar'[b] # s
                    /\ \A t \in Requests : s \notin Uses(req'[t]) /\ (t # p => req'[t].new # s)
  BY DEF PrivateInv, Private, Regenerates, Uses, FirstCookie
<1> DEFINE s == req'[p].new
<1>1. ASSUME NEW t \in Requests \ {r}
      PROVE  req'[t].new = req[t].new /\ req'[t].at = req[t].at /\ Uses(req'[t]) = Uses(req[t])
  <2>1. req[t] \in Req /\ Twin(req'[t], req[t]) BY DEF Others, IInv, Types
  <2>2. SameBut(req'[t], req[t], {"plain"}) /\ Uses(req'[t]) = Uses(req[t]) BY <2>1, TwinOk
  <2> QED BY <2>2 DEF SameBut, Fields
<1>2. s # NoSid /\ s # Keep
  <2>1. ReqsOk' BY ReqsStep
  <2>2. ReqOk(req'[p], owner', Provider'.regen) BY <2>1 DEF ReqsOk
  <2>3. req'[p].new \in Ids BY DEF Req
  <2> QED BY <2>2, <2>3, SessionAssumption DEF ReqOk, Ids, Sids
<1>3. \A b \in Browsers : jar'[b] \in {jar[b]} \cup Uses(q) \/ (Free(jar'[b]) /\ f.new = NoSid)
  BY DEF JarFits
<1>4. CASE p = r /\ Free(f.new)
  <2>1. s = f.new /\ s \notin Uses(f) BY <1>4 DEF Fits
  <2>2. \A t \in Requests : req[t].new # s /\ s \notin Uses(req[t]) BY <1>4, <2>1, Owned
  <2>3. s \notin gone /\ \A b \in Browsers : jar[b] # s BY <1>4, <2>1, Owned
  <2> QED BY <1>1, <1>2, <1>3, <1>4, <2>1, <2>2, <2>3
<1>5. CASE p = r /\ ~Free(f.new)
  <2>1. s = f.new /\ s \notin Uses(f) /\ Regenerates(q) /\ s = q.new BY <1>5 DEF Fits
  <2>2. Private(r) BY <2>1 DEF IInv, PrivateInv
  <2> QED BY <1>1, <1>3, <1>5, <2>1, <2>2 DEF Private
<1>6. CASE p # r
  <2>1. s = req[p].new /\ Regenerates(req[p]) BY <1>1, <1>6 DEF Regenerates
  <2>2. Private(p) BY <2>1 DEF IInv, PrivateInv
  <2>3. ~Free(s) BY <2>1, Owned
  <2>4. f.new # s BY <1>2, <1>6, <2>1, <2>2, <2>3 DEF Fits, Private
  <2>5. s \notin Uses(f) BY <1>2, <1>6, <2>1, <2>2, <2>3 DEF Fits, Private
  <2> QED BY <1>1, <1>3, <1>6, <2>1, <2>2, <2>3, <2>4, <2>5 DEF Private
<1> QED BY <1>4, <1>5, <1>6

\* All of it, for a step of one request.
LEMMA Kept ==
  ASSUME IInv, Grows, NEW r \in Requests, NEW f, Fits(r, f), Others(r),
         req' \in [Requests -> Req], req'[r] = f,
         jar' \in [Browsers -> Ids], JarFits(r, f),
         calm' \in [Browsers -> Values \cup {"unknown"}],
         store' \in [Sids -> Data], StoreOk',
         gone' \subseteq Sids, gone' \subseteq gone \cup Uses(req[r]), late' \subseteq Sids
  PROVE  IInv'
<1>1. Types' BY DEF IInv, Types, Grows
<1>2. ReqsOk' /\ PrivateInv' BY ReqsStep, PrivateStep
<1>3. \A b \in Browsers : jar[b] \in Mine(b, owner') BY SessionAssumption DEF IInv, JarOk, Mine, Grows
<1>4. JarOk' BY <1>3 DEF JarOk, JarFits
<1>5. GoneOk' BY Owned DEF GoneOk, Grows, Free
<1> QED BY <1>1, <1>2, <1>4, <1>5 DEF IInv

\* Writing a value of its owner under an id,
LEMMA StorePut ==
  ASSUME IInv, Grows, NEW s \in Sids, NEW d,
         d = Absent \/ (owner'[s] # "nobody" /\ d \in {Raw, Empty, owner'[s]}),
         store' \in {store, [store EXCEPT ![s] = d]}
  PROVE  store' \in [Sids -> Data] /\ StoreOk'
<1>1. d \in Data BY DEF Grows, Data
<1>2. store \in [Sids -> Data] /\ StoreOk BY DEF IInv, Types
<1> QED BY <1>1, <1>2 DEF StoreOk, Grows

\* moving it to another id of the owner,
LEMMA StoreMove ==
  ASSUME IInv, Grows, NEW s \in Sids, NEW t \in Sids, s # t, NEW d,
         owner'[t] # "nobody", d \in {Raw, Empty, owner'[t]},
         store' = [store EXCEPT ![t] = d, ![s] = Absent]
  PROVE  store' \in [Sids -> Data] /\ StoreOk'
<1>1. d \in Data BY DEF Grows, Data
<1>2. store \in [Sids -> Data] /\ StoreOk BY DEF IInv, Types
<1>3. Absent \in Data BY DEF Data
<1> QED BY <1>1, <1>2, <1>3 DEF StoreOk, Grows

\* or nothing, leaves the store well formed.
LEMMA StoreStays ==
  ASSUME IInv, Grows, store' = store
  PROVE  store' \in [Sids -> Data] /\ StoreOk'
<1> QED BY DEF IInv, Types, StoreOk, Grows

\* Every set of numbers has a smallest one,
LEMMA Smallest ==
  ASSUME NEW S \in SUBSET Nat, S # {}
  PROVE  \E d \in S : \A e \in S : d <= e
<1> DEFINE R == OpToRel(<, Nat)
<1>1. IsWellFoundedOn(R, Nat) BY NatLessThanWellFounded, Zenon
<1>2. \A x, y \in Nat : y < x => <<y, x>> \in R BY DEF OpToRel
<1> HIDE DEF R
<1>3. PICK d \in S : \A y \in S : ~(<<y, d>> \in R) BY <1>1, WFMin
<1>4. \A e \in S : ~(e < d) BY <1>2, <1>3
<1> QED BY <1>4

\* so sessionID finds an id that nobody has.
LEMMA NewSidFree ==
  ASSUME Unused # {}
  PROVE  Free(NewSid) /\ NewSid \in Sids
<1>1. Unused \in SUBSET Nat BY SessionAssumption DEF Unused, Sids
<1>2. \E s \in Unused : \A t \in Unused : s <= t BY <1>1, Smallest
<1>3. NewSid \in Unused BY <1>2 DEF NewSid
<1> QED BY <1>3 DEF Unused, Free
-----------------------------------------------------------------------------
(* IInv, one lemma per action.                                             *)

\* What the invariant says of one request.
LEMMA Mine1 ==
  ASSUME IInv, NEW r \in Requests
  PROVE  /\ req[r] \in Req /\ ReqOk(req[r], owner, Provider.regen)
         /\ Grows => ReqOk(req[r], owner', Provider.regen)
         /\ req[r].at # "idle" => req[r].who \in Browsers
<1>1. req[r] \in Req /\ ReqOk(req[r], owner, Provider.regen) BY DEF IInv, Types, ReqsOk
<1>2. Grows => ReqOk(req[r], owner', Provider.regen) BY <1>1, ReqOkGrows DEF Grows
<1> QED BY <1>1, <1>2 DEF ReqOk

\* A step that changes one request.
LEMMA OneReq ==
  ASSUME IInv, NEW r \in Requests, NEW f \in Req, req' = [req EXCEPT ![r] = f]
  PROVE  Others(r) /\ req' \in [Requests -> Req] /\ req'[r] = f
<1> QED BY DEF IInv, Types, Others, Twin

\* A request that learns no id.
LEMMA FitsUses ==
  ASSUME IInv, Grows, NEW r \in Requests, NEW f \in Req, ReqOk(f, owner', Provider.regen),
         f.new \in {req[r].new, NoSid}, Regenerates(f) => Regenerates(req[r]) /\ f.new = req[r].new,
         Uses(f) \subseteq Uses(req[r]) \cup {NoSid, Keep}
  PROVE  Fits(r, f)
<1>1. ASSUME Regenerates(f) PROVE f.new \notin Uses(f)
  <2>1. Private(r) BY <1>1 DEF IInv, PrivateInv
  <2>2. f.new # NoSid /\ f.new # Keep BY <1>1, SessionAssumption DEF ReqOk, Req, Ids, Sids
  <2> QED BY <1>1, <2>1, <2>2 DEF Private
<1> QED BY <1>1 DEF Fits

\* What a request refers to belongs to its browser.
LEMMA UsedOwned ==
  ASSUME IInv, NEW r \in Requests, req[r].at # "idle",
         NEW s \in Uses(req[r]) \cup {req[r].new, req[r].own}, s \notin {NoSid, Keep}
  PROVE  s \in Sids /\ owner[s] = req[r].who /\ owner[s] # "nobody"
<1> QED BY Mine1, SessionAssumption DEF ReqOk, Mine

\* What is stored under an id was put there by its owner.
LEMMA StoredOwn ==
  ASSUME IInv, NEW s \in Sids
  PROVE  /\ store[s] \in {Absent, Raw, Empty, owner[s]} /\ store[s] \in Data
         /\ store[s] # Absent => owner[s] # "nobody"
         /\ Decoded(store[s]) \in {Empty, owner[s]} /\ Decoded(store[s]) \in Values
<1>1. \/ store[s] = Absent
      \/ owner[s] # "nobody" /\ store[s] \in {Raw, Empty, owner[s]}
  BY DEF IInv, StoreOk
<1>2. owner[s] \in {"nobody"} \cup Browsers /\ store[s] \in Data BY DEF IInv, Types
<1> QED BY <1>1, <1>2 DEF Decoded, Values, Data

\* Steps that issue no id.
LEMMA SameGrows ==
  ASSUME IInv, UNCHANGED <<kind, owner>>
  PROVE  Grows
<1> QED BY DEF IInv, Types, Grows

\* Steps that no browser hears of.
LEMMA NoJar ==
  ASSUME IInv, UNCHANGED <<jar, calm>>, NEW r, NEW f
  PROVE  /\ jar' \in [Browsers -> Ids] /\ JarFits(r, f)
         /\ calm' \in [Browsers -> Values \cup {"unknown"}]
<1> QED BY DEF IInv, Types, JarFits

\* A request may always end.
LEMMA FreshFits ==
  ASSUME IInv, Grows, NEW r \in Requests
  PROVE  Fresh \in Req /\ Fits(r, Fresh) /\ Fresh.at = "idle"
<1>1. Fresh \in Req /\ ReqOk(Fresh, owner', Provider.regen) BY FreshOk
<1>2. /\ Fresh.new = NoSid /\ ~Regenerates(Fresh) /\ Fresh.at = "idle"
      /\ Uses(Fresh) \subseteq {NoSid, Keep}
  BY FreshOk DEF Fresh, Regenerates, Uses
<1> QED BY <1>1, <1>2, FitsUses

\* The end of a request.
LEMMA GoneStep ==
  ASSUME IInv, Grows, NEW r \in Requests, req[r].at # "idle",
         NEW e \in Values \cup {"unknown"}, Gone(r, e)
  PROVE  /\ Fits(r, Fresh) /\ Others(r) /\ req' \in [Requests -> Req] /\ req'[r] = Fresh
         /\ HandsOff(r)
         /\ jar' \in [Browsers -> Ids] /\ JarFits(r, Fresh)
         /\ calm' \in [Browsers -> Values \cup {"unknown"}]
<1> DEFINE q == req[r]
<1>1. q \in Req /\ q.who \in Browsers /\ ReqOk(q, owner', Provider.regen) BY Mine1
<1>2. Fresh \in Req /\ Fits(r, Fresh) /\ Fresh.at = "idle" BY FreshFits
<1>5. req' = [req EXCEPT ![r] = Fresh] BY DEF Gone
<1>6. q.out \in Mine(q.who, owner') /\ q.out \in Uses(q) BY <1>1 DEF ReqOk, Uses
<1>7. q.out # Keep => q.out \in Ids BY <1>1 DEF Req
<1>8. jar' \in [Browsers -> Ids] /\ JarFits(r, Fresh)
  BY <1>1, <1>6, <1>7 DEF Gone, JarFits, IInv, Types
<1>9. calm' \in [Browsers -> Values \cup {"unknown"}] BY <1>1 DEF Gone, IInv, Types
<1> QED BY <1>2, <1>5, <1>8, <1>9, OneReq DEF HandsOff

\* The fields that each operation changes.
LEMMA CalledOk ==
  ASSUME NEW q \in Req, NEW p, p = Called(q)
  PROVE  SameBut(p, q, {"calls"})
<1>1. p \in Req BY DEF Called, Req
<1> QED BY <1>1 DEF Called, SameBut, Fields, Req

\* A release may close the connection.
LEMMA ShutOk ==
  ASSUME IInv, NEW q \in Req, NEW p, p = Shut(q)
  PROVE  SameBut(p, q, {"shut"}) /\ p.shut = Store.closes
<1>1. Store.closes \in BOOLEAN BY ProviderFacts
<1>2. PICK c : c = Store.closes OBVIOUS
<1>3. p = [q EXCEPT !.shut = c] BY <1>2 DEF Shut
<1>4. p \in Req BY <1>1, <1>2, <1>3 DEF Req
<1> QED BY <1>2, <1>3, <1>4 DEF SameBut, Fields, Req

Setting(q) ==
  [Called(q) EXCEPT !.inCtl = TRUE, !.val = q.who, !.plain = @ /\ ~q.shut]

\* SetSession.
LEMMA SettingOk ==
  ASSUME NEW q \in Req, q.who \in Browsers, NEW p, p = Setting(q)
  PROVE  /\ SameBut(p, q, {"inCtl", "val", "plain", "calls"})
         /\ p.inCtl /\ p.val = q.who /\ (p.plain => q.plain /\ ~q.shut)
<1>1. PICK c, b : c = Called(q) /\ b = (c.plain /\ ~q.shut) OBVIOUS
<1>2. SameBut(c, q, {"calls"}) BY <1>1, CalledOk
<1>3. p = [c EXCEPT !.inCtl = TRUE, !.val = q.who, !.plain = b] BY <1>1 DEF Setting
<1>4. b \in BOOLEAN /\ (b => q.plain /\ ~q.shut) BY <1>1, <1>2 DEF SameBut, Fields
<1>5. p \in Req BY <1>2, <1>3, <1>4 DEF SameBut, Fields, Req, Values
<1> QED BY <1>2, <1>3, <1>4, <1>5 DEF SameBut, Fields, Req

Reading(q, v) ==
  [q EXCEPT !.at = "handler", !.sid = q.old, !.old = NoSid, !.inCtx = TRUE, !.val = v]

\* SessionRead.
LEMMA ReadingOk ==
  ASSUME NEW q \in Req, NEW v \in Values, NEW p, p = Reading(q, v)
  PROVE  /\ SameBut(p, q, {"at", "sid", "old", "inCtx", "val"})
         /\ p.at = "handler" /\ p.sid = q.old /\ p.old = NoSid /\ p.inCtx /\ p.val = v
<1>1. p \in Req BY DEF Reading, Req, Places, Ids
<1> QED BY <1>1 DEF Reading, SameBut, Fields, Req

Rendering(q) ==
  [q EXCEPT !.sent = TRUE]

\* WriteHeader.
LEMMA RenderingOk ==
  ASSUME NEW q \in Req, NEW p, p = Rendering(q)
  PROVE  /\ SameBut(p, q, {"sent"})
         /\ p.sent
<1>1. p \in Req BY DEF Rendering, Req
<1> QED BY <1>1 DEF Rendering, SameBut, Fields, Req

Destroying(q, told, by) ==
  [Called(q) EXCEPT !.inCtx = FALSE, !.val = Empty, !.field = NoSid, !.out = told,
                    !.plain = @ /\ ~q.sent /\ by = "cookie"]

\* SessionDestroy.
LEMMA DestroyingOk ==
  ASSUME NEW q \in Req, NEW told \in Ids \cup {Keep}, NEW by, NEW p,
         p = Destroying(q, told, by)
  PROVE  /\ SameBut(p, q, {"inCtx", "val", "field", "out", "plain", "calls"})
         /\ ~p.inCtx /\ p.val = Empty /\ p.field = NoSid /\ p.out = told
         /\ (p.plain => q.plain /\ ~q.sent /\ by = "cookie")
<1>1. PICK c : c = Called(q) OBVIOUS
<1>2. SameBut(c, q, {"calls"}) BY <1>1, CalledOk
<1>3. PICK b : b = (c.plain /\ ~q.sent /\ by = "cookie") OBVIOUS
<1>4. p = [c EXCEPT !.inCtx = FALSE, !.val = Empty, !.field = NoSid, !.out = told, !.plain = b]
  BY <1>1, <1>3 DEF Destroying
<1>5. c \in Req /\ b \in BOOLEAN BY <1>2, <1>3 DEF SameBut
<1>6. p \in Req
  <2>1. NoSid \in Ids /\ Empty \in Values /\ FALSE \in BOOLEAN BY DEF Ids, Values
  <2> QED BY ONLY <1>4, <1>5, <2>1, told \in Ids \cup {Keep} DEF Req
<1> QED BY <1>2, <1>3, <1>4, <1>5, <1>6 DEF SameBut, Fields, Req

Asking(q, c) ==
  [c EXCEPT !.at = "ask", !.before = q.val, !.own = q.sid, !.done = FALSE]
\* What is left of the object after the release.
Left(q) == IF q.inCtl THEN Shut(Called(q)) ELSE Called(q)

\* SessionRegenerateID.
LEMMA AskingOk ==
  ASSUME IInv, NEW q \in Req, NEW p, p = Asking(q, Left(q))
  PROVE  /\ SameBut(p, q, {"at", "before", "own", "done", "calls", "shut"})
         /\ p.at = "ask" /\ p.before = q.val /\ p.own = q.sid /\ ~p.done
<1>1. PICK c, d : c = Left(q) /\ d = Called(q) OBVIOUS
<1>2. SameBut(c, q, {"calls", "shut"})
  <2>1. SameBut(d, q, {"calls"}) BY <1>1, CalledOk
  <2>2. d \in Req BY <2>1 DEF SameBut
  <2>3. c = d \/ c = Shut(d) BY <1>1 DEF Left
  <2>4. SameBut(c, d, {"shut"}) BY <2>2, <2>3, ShutOk DEF SameBut
  <2> QED BY <2>1, <2>4 DEF SameBut, Fields
<1>3. p = [c EXCEPT !.at = "ask", !.before = q.val, !.own = q.sid, !.done = FALSE] BY <1>1 DEF Asking
<1>4. p \in Req BY ZenonT(30), <1>2, <1>3 DEF SameBut, Fields, Req, Places
<1> QED BY <1>2, <1>3, <1>4 DEF SameBut, Fields, Req

Naming(q, s, t) ==
  [q EXCEPT !.old = s, !.new = t]

\* The id to leave and the one to go to.
LEMMA NamingOk ==
  ASSUME NEW q \in Req, NEW s \in Ids, NEW t \in Ids, NEW p, p = Naming(q, s, t)
  PROVE  /\ SameBut(p, q, {"old", "new"})
         /\ p.old = s /\ p.new = t
<1>1. p \in Req BY DEF Naming, Req
<1> QED BY <1>1 DEF Naming, SameBut, Fields, Req

Starting(q) ==
  [q EXCEPT !.at = "handler", !.sid = q.new, !.val = Empty, !.shut = FALSE,
            !.inCtx = TRUE, !.inCtl = TRUE]

\* A session without a past.
LEMMA StartingOk ==
  ASSUME NEW q \in Req, NEW p, p = Starting(q)
  PROVE  /\ SameBut(p, q, {"at", "sid", "val", "shut", "inCtx", "inCtl"})
         /\ p.at = "handler" /\ p.sid = q.new /\ p.val = Empty /\ ~p.shut /\ p.inCtx /\ p.inCtl
<1>1. p \in Req BY DEF Starting, Req, Places, Values
<1> QED BY <1>1 DEF Starting, SameBut, Fields, Req

\* The provider does not regenerate.
LEMMA BareOk ==
  ASSUME NEW q \in Req, NEW p, p = Bare(q)
  PROVE  /\ SameBut(p, q, {"at", "inCtx", "inCtl", "plain"})
         /\ p.at = "handler" /\ ~p.inCtx /\ ~p.inCtl /\ ~p.plain
<1>1. p \in Req BY DEF Bare, Req, Places
<1> QED BY <1>1 DEF Bare, SameBut, Fields, Req

Going(q, at) ==
  [q EXCEPT !.at = at]

\* The next call of the store.
LEMMA GoingOk ==
  ASSUME NEW q \in Req, NEW at \in Places, NEW p, p = Going(q, at)
  PROVE  /\ SameBut(p, q, {"at"})
         /\ p.at = at
<1>1. p \in Req BY DEF Going, Req
<1> QED BY <1>1 DEF Going, SameBut, Fields, Req

Looking(q, d, at) ==
  [q EXCEPT !.seen = d, !.at = at]

\* What the store said.
LEMMA LookingOk ==
  ASSUME NEW q \in Req, NEW d \in Data, NEW at \in Places, NEW p, p = Looking(q, d, at)
  PROVE  /\ SameBut(p, q, {"seen", "at"})
         /\ p.seen = d /\ p.at = at
<1>1. p \in Req BY DEF Looking, Req
<1> QED BY <1>1 DEF Looking, SameBut, Fields, Req

Moving(q, v) ==
  [q EXCEPT !.at = "handler", !.sid = q.new, !.val = v, !.shut = FALSE,
            !.got = v, !.done = TRUE, !.inCtx = TRUE, !.inCtl = TRUE]

\* The session under its new id.
LEMMA MovingOk ==
  ASSUME NEW q \in Req, NEW v \in Values, NEW p, p = Moving(q, v)
  PROVE  /\ SameBut(p, q, {"at", "sid", "val", "shut", "got", "done", "inCtx", "inCtl"})
         /\ p.at = "handler" /\ p.sid = q.new /\ p.val = v /\ ~p.shut /\ p.got = v /\ p.done
         /\ p.inCtx /\ p.inCtl
<1>1. p \in Req BY DEF Moving, Req, Places
<1> QED BY <1>1 DEF Moving, SameBut, Fields, Req

\* Changes of other fields leave the ids of a request alone.
LEMMA SameUses ==
  ASSUME NEW q, NEW p, NEW S, SameBut(p, q, S),
         S \cap {"cookies", "field", "sid", "old", "out"} = {}
  PROVE  Uses(p) = Uses(q) /\ FirstCookie(p) = FirstCookie(q)
<1>1. /\ p.cookies = q.cookies /\ p.field = q.field /\ p.sid = q.sid /\ p.old = q.old
      /\ p.out = q.out
  BY DEF SameBut, Fields
<1> QED BY <1>1 DEF Uses, FirstCookie

\* SetSession puts a value into the object of the request, or panics.
LEMMA SetSessionKeeps ==
  ASSUME IInv, NEW r \in Requests, SetSession(r)
  PROVE  IInv' /\ Others(r) /\ HandsOff(r)
<1> DEFINE q == req[r]
<1>1. q.at = "handler" /\ Grows /\ store' = store /\ gone' = gone /\ late' = late
  BY SameGrows DEF SetSession, Same, Handles
<1>2. q \in Req /\ q.who \in Browsers /\ ReqOk(q, owner', Provider.regen) BY <1>1, Mine1
<1>3. store' \in [Sids -> Data] /\ StoreOk' BY <1>1, StoreStays
<1>4. gone' \subseteq Sids /\ late' \subseteq Sids BY <1>1 DEF IInv, Types
<1>5. CASE q.inCtl \/ q.inCtx
  <2>1. PICK f : /\ f = Setting(q)
                 /\ req' = [req EXCEPT ![r] = f] /\ UNCHANGED <<jar, calm>>
    BY <1>5 DEF SetSession, Setting
  <2>2. /\ SameBut(f, q, {"inCtl", "val", "plain", "calls"}) /\ f.inCtl /\ f.val = q.who
        /\ (f.plain => q.plain /\ ~q.shut)
    BY <1>2, <2>1, SettingOk
  <2>3. f \in Req /\ f.at = "handler" /\ f.new = q.new BY <1>1, <2>2 DEF SameBut, Fields
  <2>4. Uses(f) = Uses(q) /\ FirstCookie(f) = FirstCookie(q) BY <2>2, SameUses
  <2>5. ReqOk(f, owner', Provider.regen)
    BY <1>1, <1>2, <2>2, <2>3, <2>4 DEF ReqOk, Regenerates, SameBut, Fields
  <2>6. Fits(r, f) BY <1>1, <2>3, <2>4, <2>5, FitsUses DEF Regenerates
  <2> QED BY <1>1, <1>3, <1>4, <2>1, <2>3, <2>6, OneReq, NoJar, Kept DEF HandsOff
<1>6. CASE ~(q.inCtl \/ q.inCtx)
  <2>1. Gone(r, "unknown") BY <1>6 DEF SetSession
  <2> QED BY <1>1, <1>3, <1>4, <2>1, GoneStep, Kept DEF HandsOff
<1> QED BY <1>5, <1>6

\* A request that arrives, with a session that is known or with one of its own.
Begun(b, c, h, plain) ==
  [Fresh EXCEPT !.who = b, !.at = "read", !.cookies = c, !.field = h, !.plain = plain]
Knowing(q, s) == [q EXCEPT !.old = s]
Issuing(q, s) == [q EXCEPT !.at = "handler", !.sid = s, !.inCtx = TRUE]

\* The ids of a request that arrives,
LEMMA BegunOk ==
  ASSUME NEW b \in Browsers, NEW c \in Seq(Sids), NEW h \in Ids, NEW plain \in BOOLEAN,
         NEW p, p = Begun(b, c, h, plain)
  PROVE  /\ p \in Req /\ p.who = b /\ p.at = "read" /\ p.cookies = c /\ p.field = h
         /\ p.plain = plain /\ p.sid = NoSid /\ p.old = NoSid /\ p.new = NoSid /\ p.own = NoSid
         /\ p.val = Empty /\ p.before = Empty /\ p.got = Empty /\ p.seen = Absent
         /\ p.out = Keep /\ ~p.inCtx /\ ~p.inCtl /\ ~p.sent /\ ~p.done /\ ~p.shut
<1>1. Fresh \in Req BY FreshOk
<1>2. p \in Req BY <1>1 DEF Begun, Req, Places
<1> QED BY <1>1, <1>2 DEF Begun, Fresh, Req

\* one that is known,
LEMMA KnowingOk ==
  ASSUME NEW q \in Req, NEW s \in Ids, NEW p, p = Knowing(q, s)
  PROVE  SameBut(p, q, {"old"}) /\ p.old = s
<1>1. p \in Req BY DEF Knowing, Req
<1> QED BY <1>1 DEF Knowing, SameBut, Fields, Req

\* or one of its own.
LEMMA IssuingOk ==
  ASSUME NEW q \in Req, NEW s \in Ids, NEW p, p = Issuing(q, s)
  PROVE  SameBut(p, q, {"at", "sid", "inCtx"}) /\ p.at = "handler" /\ p.sid = s /\ p.inCtx
<1>1. p \in Req BY DEF Issuing, Req, Places
<1> QED BY <1>1 DEF Issuing, SameBut, Fields, Req

\* SessionStart: getSid, SessionExist, and an id of its own for who has none.
LEMMA BeginKeeps ==
  ASSUME IInv, NEW r \in Requests, NEW b \in Browsers, Begin(r, b)
  PROVE  IInv' /\ Others(r) /\ HandsOff(r)
<1>1. PICK c, h, plain, q0, sid, others :
        /\ c = (IF carrier = "cookie" /\ jar[b] # NoSid THEN <<jar[b]>> ELSE <<>>)
        /\ h = (IF carrier = "header" THEN jar[b] ELSE NoSid)
        /\ plain = (\A p \in Requests : req[p].who # b)
        /\ q0 = Begun(b, c, h, plain)
        /\ sid = (IF FirstCookie(q0) # NoSid THEN FirstCookie(q0) ELSE q0.field)
        /\ others = [p \in Requests |-> IF req[p].who = b THEN [req[p] EXCEPT !.plain = FALSE]
                                        ELSE req[p]]
  OBVIOUS
<1>2. /\ req[r].at = "idle" /\ UNCHANGED <<kind, jar, calm, gone, late>>
      /\ \/ /\ sid # NoSid /\ req' = [others EXCEPT ![r] = Knowing(q0, sid)]
            /\ UNCHANGED <<store, owner>>
         \/ req' = others /\ UNCHANGED <<store, owner>>
         \/ /\ Unused # {} /\ owner' = [owner EXCEPT ![NewSid] = b]
            /\ store' \in {store, Put(NewSid, Raw)}
            /\ req' \in {others, [others EXCEPT ![r] = Tell(Issuing(q0, NewSid), NewSid)]}
  BY <1>1 DEF Begin, Begun, Knowing, Issuing, Quiet
<1>3. /\ req[r] \in Req /\ req[r].who = "nobody" /\ ReqOk(req[r], owner, Provider.regen)
      /\ jar[b] \in Ids /\ jar[b] \in Mine(b, owner)
  BY <1>2 DEF IInv, Types, ReqsOk, ReqOk, JarOk
<1>4. /\ others \in [Requests -> Req] /\ others[r] = req[r]
      /\ \A p \in Requests : Twin(others[p], req[p])
  <2>1. \A p \in Requests : req[p] \in Req BY DEF IInv, Types
  <2>2. \A p \in Requests : Twin(others[p], req[p]) BY <1>1 DEF Twin
  <2>3. \A p \in Requests : others[p] \in Req BY <2>1, <2>2, TwinOk DEF SameBut
  <2> QED BY <1>1, <1>3, <2>2, <2>3, SessionAssumption
<1>5. c \in Seq(Sids) /\ h \in Ids /\ plain \in BOOLEAN
  <2>1. jar[b] # NoSid => jar[b] \in Sids BY <1>3 DEF Ids
  <2> QED BY <1>1, <1>3, <2>1 DEF Ids
<1>6. /\ q0 \in Req /\ q0.who = b /\ q0.cookies = c /\ q0.field = h /\ q0.sid = NoSid
      /\ q0.old = NoSid /\ q0.new = NoSid /\ q0.own = NoSid /\ q0.val = Empty /\ q0.at = "read"
      /\ q0.before = Empty /\ q0.got = Empty /\ q0.seen = Absent /\ q0.out = Keep
      /\ ~q0.inCtx /\ ~q0.inCtl /\ ~q0.done /\ ~q0.shut
  <2>1. q0 = Begun(b, c, h, plain) BY <1>1
  <2> QED BY ONLY <1>5, <2>1, BegunOk
<1>6a. /\ FirstCookie(q0) \in {jar[b], NoSid} /\ q0.field \in {jar[b], NoSid}
       /\ sid \in {jar[b], NoSid}
  <2>1. c \in {<<>>, <<jar[b]>>} /\ h \in {jar[b], NoSid} BY <1>1
  <2>2. c = <<jar[b]>> => c # <<>> /\ c[1] = jar[b] OBVIOUS
  <2>3. FirstCookie(q0) = IF c = <<>> THEN NoSid ELSE c[1] BY <1>6 DEF FirstCookie
  <2>4. FirstCookie(q0) \in {jar[b], NoSid} BY <2>1, <2>2, <2>3
  <2>5. sid \in {FirstCookie(q0), q0.field} BY <1>1
  <2> QED BY <1>6, <2>1, <2>4, <2>5
<1>7. Grows /\ (Unused # {} => owner[NewSid] = "nobody" /\ NewSid \in Sids)
  BY <1>2, NewSidFree DEF IInv, Types, Grows, Free
<1>8. store' \in [Sids -> Data] /\ StoreOk'
  <2>1. CASE store' = store BY <2>1, <1>7, StoreStays
  <2>2. CASE Unused # {} /\ owner' = [owner EXCEPT ![NewSid] = b] /\ store' = Put(NewSid, Raw)
    <3>1. owner'[NewSid] # "nobody" BY <1>7, <2>2, SessionAssumption DEF IInv, Types
    <3> QED BY <1>7, <2>2, <3>1, StorePut DEF Put
  <2> QED BY <1>2, <2>1, <2>2
<1>9. gone' \subseteq Sids /\ late' \subseteq Sids /\ gone' \subseteq gone \cup Uses(req[r])
  BY <1>2 DEF IInv, Types
<1>10. CASE req' = others
  <2>1. Fits(r, req[r]) BY <1>3, <1>7, Mine1, FitsUses
  <2>2. Others(r) BY <1>4, <1>10 DEF Others
  <2> QED BY <1>2, <1>4, <1>7, <1>8, <1>9, <1>10, <2>1, <2>2, NoJar, Kept DEF HandsOff
<1>11. CASE sid # NoSid /\ req' = [others EXCEPT ![r] = Knowing(q0, sid)]
            /\ UNCHANGED <<store, owner>>
  <2>1. PICK f : f = Knowing(q0, sid) OBVIOUS
  <2>2. SameBut(f, q0, {"old"}) /\ f.old = sid /\ sid \in Ids
    BY <1>3, <1>6, <1>6a, <2>1, KnowingOk DEF Ids
  <2>3. /\ f \in Req /\ f.who = b /\ f.cookies = c /\ f.field \in {jar[b], NoSid}
        /\ f.sid = NoSid /\ f.new = NoSid /\ f.own = NoSid /\ f.val = Empty /\ f.at = "read"
        /\ f.before = Empty /\ f.got = Empty /\ f.seen = Absent /\ f.out = Keep
        /\ ~f.inCtx /\ ~f.inCtl /\ ~f.done /\ ~f.shut
    BY <1>6, <1>6a, <2>2 DEF SameBut, Fields
  <2>4. FirstCookie(f) \in {jar[b], NoSid} BY <1>6, <1>6a, <2>3 DEF FirstCookie
  <2>5. Uses(f) \subseteq {jar[b], NoSid, Keep} BY <1>6a, <2>2, <2>3, <2>4 DEF Uses
  <2>6. NoSid \in Mine(b, owner') /\ Keep \in Mine(b, owner') /\ jar[b] \in Mine(b, owner')
    BY <1>3, <1>11 DEF Mine
  <2>7. ReqOk(f, owner', Provider.regen)
    BY <1>11, <2>2, <2>3, <2>4, <2>5, <2>6 DEF ReqOk, Regenerates
  <2>8. Fits(r, f) BY <2>3, <2>5, <2>7 DEF Fits, Regenerates
  <2>9. Others(r) /\ req' \in [Requests -> Req] /\ req'[r] = f
    BY <1>4, <1>11, <2>1, <2>3 DEF Others
  <2> QED BY <1>2, <1>7, <1>8, <1>9, <2>3, <2>8, <2>9, NoJar, Kept DEF HandsOff
<1>12. CASE /\ Unused # {} /\ owner' = [owner EXCEPT ![NewSid] = b]
            /\ req' = [others EXCEPT ![r] = Tell(Issuing(q0, NewSid), NewSid)]
  <2>1. PICK g, f : g = Issuing(q0, NewSid) /\ f = Tell(g, NewSid) OBVIOUS
  <2>2. NewSid \in Sids /\ NewSid \in Ids /\ owner[NewSid] = "nobody" BY <1>7, <1>12 DEF Ids
  <2>3. SameBut(g, q0, {"at", "sid", "inCtx"}) /\ g.at = "handler" /\ g.sid = NewSid
    BY <1>6, <2>1, <2>2, IssuingOk
  <2>4. /\ g \in Req /\ g.who = b /\ g.cookies = c /\ g.new = NoSid /\ g.own = NoSid
        /\ g.old = NoSid /\ g.val = Empty /\ g.before = Empty /\ g.got = Empty
        /\ g.seen = Absent /\ g.out = Keep /\ ~g.done
    BY <1>6, <2>3 DEF SameBut, Fields
  <2>5. /\ SameBut(f, g, {"cookies", "field", "out", "plain"})
        /\ FirstCookie(f) = (IF FirstCookie(g) = NoSid THEN NewSid ELSE FirstCookie(g))
        /\ f.field \in {NewSid, NoSid} /\ f.out \in {g.out, NewSid}
    BY <2>1, <2>2, <2>4, TellOk
  <2>6. /\ f \in Req /\ f.who = b /\ f.new = NoSid /\ f.own = NoSid /\ f.sid = NewSid
        /\ f.old = NoSid /\ f.val = Empty /\ f.before = Empty /\ f.got = Empty
        /\ f.seen = Absent /\ ~f.done /\ f.at = "handler"
    BY <2>3, <2>4, <2>5 DEF SameBut, Fields
  <2>7. FirstCookie(f) \in {jar[b], NoSid, NewSid} BY <1>6, <1>6a, <2>4, <2>5 DEF FirstCookie
  <2>8. Uses(f) \subseteq {jar[b], NoSid, Keep, NewSid} BY <2>4, <2>5, <2>6, <2>7 DEF Uses
  <2>9. {NoSid, Keep, jar[b], NewSid} \subseteq Mine(b, owner')
    <3>1. owner' \in [Sids -> {"nobody"} \cup Browsers] /\ owner'[NewSid] = b
      BY <1>7, <1>12, <2>2 DEF Grows, IInv, Types
    <3>2. jar[b] \in Mine(b, owner') BY <1>3, <1>7, SessionAssumption DEF Mine, Grows
    <3> QED BY <2>2, <3>1, <3>2 DEF Mine
  <2>10. ReqOk(f, owner', Provider.regen)
    BY <2>2, <2>6, <2>8, <2>9, SessionAssumption DEF ReqOk, Regenerates, Sids
  <2>11. Fits(r, f) BY <2>2, <2>6, <2>8, <2>10 DEF Fits, Regenerates, Free
  <2>12. Others(r) /\ req' \in [Requests -> Req] /\ req'[r] = f
    BY <1>4, <1>12, <2>1, <2>6 DEF Others
  <2> QED BY <1>2, <1>7, <1>8, <1>9, <2>6, <2>11, <2>12, NoJar, Kept DEF HandsOff
<1> QED BY <1>2, <1>10, <1>11, <1>12

\* SessionStart: SessionRead of the id that was there a moment ago.
LEMMA StartReadKeeps ==
  ASSUME IInv, NEW r \in Requests, StartRead(r)
  PROVE  IInv' /\ Others(r) /\ HandsOff(r)
<1> DEFINE q == req[r]
           f == Reading(q, Decoded(store[q.old]))
<1>1. /\ q.at = "read" /\ Grows /\ UNCHANGED <<owner, jar, calm, gone, late>>
      /\ store' \in {store, Put(q.old, Raw)}
      /\ req' = [req EXCEPT ![r] = Fresh] \/ req' = [req EXCEPT ![r] = f]
  BY SameGrows DEF StartRead, Same, Quiet, Reading
<1>2. q \in Req /\ q.who \in Browsers /\ ReqOk(q, owner', Provider.regen) BY <1>1, Mine1
<1>3. q.old # NoSid /\ q.old # Keep /\ q.old \in Uses(q)
  BY <1>1, <1>2, SessionAssumption DEF ReqOk, Req, Uses, Ids, Sids
<1>4. q.old \in Sids /\ owner[q.old] = q.who /\ owner[q.old] # "nobody" BY <1>1, <1>3, UsedOwned
<1>5. store' \in [Sids -> Data] /\ StoreOk' BY <1>1, <1>4, StorePut DEF Put
<1>6. gone' \subseteq Sids /\ late' \subseteq Sids BY <1>1 DEF IInv, Types
<1>7. CASE req' = [req EXCEPT ![r] = Fresh]
  <2> QED BY <1>1, <1>5, <1>6, <1>7, FreshFits, OneReq, NoJar, Kept DEF HandsOff
<1>8. CASE req' = [req EXCEPT ![r] = f]
  <2>1. Decoded(store[q.old]) \in {Empty, q.who} \cap Values BY <1>4, StoredOwn
  <2>2. PICK v : v = Decoded(store[q.old]) /\ f = Reading(q, v) OBVIOUS
  <2> HIDE DEF f
  <2>3. /\ SameBut(f, q, {"at", "sid", "old", "inCtx", "val"})
        /\ f.at = "handler" /\ f.sid = q.old /\ f.old = NoSid /\ f.val = v /\ v \in {Empty, q.who}
    BY <1>2, <2>1, <2>2, ReadingOk
  <2>4. /\ f \in Req /\ f.cookies = q.cookies /\ f.field = q.field /\ f.out = q.out
        /\ f.new = q.new /\ f.own = q.own /\ f.who = q.who /\ f.before = q.before
        /\ f.got = q.got /\ f.seen = q.seen /\ f.done = q.done
    BY <2>3 DEF SameBut, Fields
  <2>5. FirstCookie(f) = FirstCookie(q) BY <2>4 DEF FirstCookie
  <2>6. Uses(f) \subseteq Uses(q) \cup {NoSid, Keep} BY <2>3, <2>4, <2>5 DEF Uses
  <2>7. ReqOk(f, owner', Provider.regen)
    <3>1. NoSid \in Mine(q.who, owner') /\ Keep \in Mine(q.who, owner') BY DEF Mine
    <3> QED BY <1>1, <1>2, <1>3, <2>3, <2>4, <2>5, <2>6, <3>1 DEF ReqOk, Regenerates
  <2>8. Fits(r, f) BY <1>1, <2>3, <2>4, <2>6, <2>7, FitsUses DEF Regenerates
  <2> QED BY <1>1, <1>5, <1>6, <1>8, <2>3, <2>4, <2>8, OneReq, NoJar, Kept DEF HandsOff
<1> QED BY <1>1, <1>7, <1>8

\* The header of the answer is written.
LEMMA RenderKeeps ==
  ASSUME IInv, NEW r \in Requests, Render(r)
  PROVE  IInv' /\ Others(r) /\ HandsOff(r)
<1> DEFINE q == req[r]
           f == Rendering(q)
<1>1. /\ q.at = "handler" /\ Grows /\ UNCHANGED <<owner, store, jar, calm, gone, late>>
      /\ req' = [req EXCEPT ![r] = f]
  BY SameGrows DEF Render, Same, Quiet, Rendering
<1>2. q \in Req /\ q.who \in Browsers /\ ReqOk(q, owner', Provider.regen) BY <1>1, Mine1
<1>3. SameBut(f, q, {"sent"}) BY <1>2, RenderingOk
<1>4. Uses(f) = Uses(q) /\ FirstCookie(f) = FirstCookie(q) BY <1>3, SameUses
<1>5. f \in Req /\ f.new = q.new /\ f.at = q.at BY <1>3 DEF SameBut, Fields
<1>6. ReqOk(f, owner', Provider.regen)
  BY <1>1, <1>2, <1>3, <1>4 DEF ReqOk, Regenerates, SameBut, Fields
<1>7. Fits(r, f) BY <1>1, <1>4, <1>5, <1>6, FitsUses DEF Regenerates
<1>8. gone' \subseteq Sids /\ late' \subseteq Sids BY <1>1 DEF IInv, Types
<1> QED BY <1>1, <1>5, <1>7, <1>8, StoreStays, OneReq, NoJar, Kept DEF HandsOff

\* What a request with a session saves.
LEMMA SavedOk ==
  ASSUME IInv, Grows, NEW r \in Requests, req[r].at \notin {"idle", "read"}, NEW how,
         store' = Saved(how, req[r])
  PROVE  store' \in [Sids -> Data] /\ StoreOk'
<1> DEFINE q == req[r]
<1>1. q \in Req /\ ReqOk(q, owner', Provider.regen) BY Mine1
<1>2. q.sid # NoSid /\ q.sid # Keep /\ q.sid \in Uses(q)
  BY <1>1, SessionAssumption DEF ReqOk, Req, Uses, Ids, Sids
<1>3. q.sid \in Sids /\ owner[q.sid] = q.who /\ owner[q.sid] # "nobody" BY <1>2, UsedOwned
<1>4. q.val \in {Empty, owner'[q.sid]} /\ owner'[q.sid] # "nobody"
  BY <1>1, <1>3 DEF ReqOk, Grows
<1> QED BY <1>3, <1>4, StorePut DEF Saved, Put

\* SessionReleaseIfPresent in the middle of a handler.
LEMMA ReleaseIfPresentKeeps ==
  ASSUME IInv, NEW r \in Requests, ReleaseIfPresent(r)
  PROVE  IInv' /\ Others(r) /\ HandsOff(r)
<1> DEFINE q == req[r]
           c == Called(q)
           f == Shut(c)
<1>1. /\ q.at = "handler" /\ Grows /\ UNCHANGED <<owner, jar, calm, gone>>
      /\ store' = Saved(Store.ifPresent, q) /\ req' = [req EXCEPT ![r] = f]
      /\ late' \subseteq late \cup gone
  BY SameGrows DEF ReleaseIfPresent, Same, Handles
<1>2. q \in Req /\ q.who \in Browsers /\ ReqOk(q, owner', Provider.regen) BY <1>1, Mine1
<1>3. SameBut(f, q, {"calls", "shut"})
  <2>1. SameBut(c, q, {"calls"}) /\ c \in Req BY <1>2, CalledOk DEF SameBut
  <2>2. SameBut(f, c, {"shut"}) BY <2>1, ShutOk
  <2> HIDE DEF c, f
  <2> QED BY <2>1, <2>2 DEF SameBut, Fields
<1>4. Uses(f) = Uses(q) /\ FirstCookie(f) = FirstCookie(q) BY <1>3, SameUses
<1>5. f \in Req /\ f.new = q.new /\ f.at = q.at BY <1>3 DEF SameBut, Fields
<1>6. ReqOk(f, owner', Provider.regen)
  BY <1>1, <1>2, <1>3, <1>4 DEF ReqOk, Regenerates, SameBut, Fields
<1>7. Fits(r, f) BY <1>1, <1>4, <1>5, <1>6, FitsUses DEF Regenerates
<1>8. gone' \subseteq Sids /\ late' \subseteq Sids BY <1>1 DEF IInv, Types
<1>9. store' \in [Sids -> Data] /\ StoreOk' BY <1>1, SavedOk
<1> QED BY <1>1, <1>5, <1>7, <1>8, <1>9, OneReq, NoJar, Kept DEF HandsOff

\* DestroySession of the session of the first cookie.
LEMMA DestroySessionKeeps ==
  ASSUME IInv, NEW r \in Requests, DestroySession(r)
  PROVE  IInv' /\ Others(r) /\ HandsOff(r)
<1> DEFINE q == req[r]
           o == FirstCookie(q)
<1>1. PICK told, by, f :
        /\ told = (IF o = NoSid \/ q.sent THEN Called(q).out ELSE NoSid)
        /\ by = carrier /\ f = Destroying(q, told, by)
  OBVIOUS
<1>2. /\ q.at = "handler" /\ Grows /\ UNCHANGED <<owner, jar, calm>>
      /\ req' = [req EXCEPT ![r] = f]
      /\ store' = store \/ (o # NoSid /\ store' = Put(o, Absent))
      /\ gone' = gone \/ (o # NoSid /\ gone' = gone \cup {o})
      /\ late' = late \/ (o # NoSid /\ late' = late \cup {o})
  BY <1>1, SameGrows DEF DestroySession, Same, Handles, Destroying
<1>3. q \in Req /\ q.who \in Browsers /\ ReqOk(q, owner', Provider.regen) BY <1>2, Mine1
<1>4. o \in Uses(q) BY DEF Uses
<1>5. o # NoSid => o # Keep /\ o \in Sids
  BY <1>2, <1>3, <1>4, UsedOwned, FirstCookieOk
<1>6. told \in {q.out, NoSid} /\ told \in Ids \cup {Keep}
  BY <1>1, <1>3, CalledOk DEF SameBut, Fields, Req, Ids
<1>7. /\ SameBut(f, q, {"inCtx", "val", "field", "out", "plain", "calls"})
      /\ ~f.inCtx /\ f.val = Empty /\ f.field = NoSid /\ f.out = told
  BY <1>1, <1>3, <1>6, DestroyingOk
<1>8. /\ f \in Req /\ f.cookies = q.cookies /\ f.sid = q.sid /\ f.old = q.old
      /\ f.new = q.new /\ f.own = q.own /\ f.who = q.who /\ f.before = q.before
      /\ f.got = q.got /\ f.seen = q.seen /\ f.done = q.done /\ f.at = q.at
  BY <1>7 DEF SameBut, Fields
<1>9. FirstCookie(f) = FirstCookie(q) BY <1>8 DEF FirstCookie
<1>10. Uses(f) \subseteq Uses(q) \cup {NoSid, Keep} BY <1>6, <1>7, <1>8, <1>9 DEF Uses
<1>11. ReqOk(f, owner', Provider.regen)
  <2>1. NoSid \in Mine(q.who, owner') /\ Keep \in Mine(q.who, owner') BY DEF Mine
  <2> QED BY <1>2, <1>3, <1>7, <1>8, <1>9, <1>10, <2>1 DEF ReqOk, Regenerates
<1>12. Fits(r, f) BY <1>2, <1>8, <1>10, <1>11, FitsUses DEF Regenerates
<1>13. gone' \subseteq Sids /\ late' \subseteq Sids /\ gone' \subseteq gone \cup Uses(q)
  BY <1>2, <1>4, <1>5 DEF IInv, Types
<1>14. store' \in [Sids -> Data] /\ StoreOk' BY <1>2, <1>5, StorePut, StoreStays DEF Put
<1> QED BY <1>2, <1>8, <1>12, <1>13, <1>14, OneReq, NoJar, Kept DEF HandsOff

\* SessionRegenerateID saves what the controller has under the old id.
LEMMA RegenerateIDKeeps ==
  ASSUME IInv, NEW r \in Requests, RegenerateID(r)
  PROVE  IInv' /\ Others(r) /\ HandsOff(r)
<1> DEFINE q == req[r]
<1>1. PICK f : f = Asking(q, Left(q)) OBVIOUS
<1>2. /\ q.at = "handler" /\ Grows /\ UNCHANGED <<owner, jar, calm, gone>>
      /\ store' \in {store, Saved(Store.save, q)} /\ req' = [req EXCEPT ![r] = f]
      /\ late' \subseteq late \cup gone
  BY <1>1, SameGrows DEF RegenerateID, Same, Handles, Released, Asking, Left
<1>3. q \in Req /\ q.who \in Browsers /\ ReqOk(q, owner', Provider.regen) BY <1>2, Mine1
<1>4. /\ SameBut(f, q, {"at", "before", "own", "done", "calls", "shut"})
      /\ f.at = "ask" /\ f.before = q.val /\ f.own = q.sid /\ ~f.done
  BY <1>1, <1>3, AskingOk
<1>5. Uses(f) = Uses(q) /\ FirstCookie(f) = FirstCookie(q) BY <1>4, SameUses
<1>6. f \in Req /\ f.new = q.new BY <1>4 DEF SameBut, Fields
<1>7. ReqOk(f, owner', Provider.regen)
  <2>1. q.sid \in Mine(q.who, owner') BY <1>2, <1>3 DEF ReqOk, Uses
  <2> QED BY <1>2, <1>3, <1>4, <1>5, <2>1 DEF ReqOk, Regenerates, SameBut, Fields
<1>8. Fits(r, f) BY <1>2, <1>4, <1>5, <1>6, <1>7, FitsUses DEF Regenerates
<1>9. gone' \subseteq Sids /\ late' \subseteq Sids BY <1>2 DEF IInv, Types
<1>10. store' \in [Sids -> Data] /\ StoreOk'
  <2>1. CASE store' = store BY <1>2, <2>1, StoreStays
  <2>2. CASE store' = Saved(Store.save, q) BY <1>2, <2>2, SavedOk
  <2> QED BY <1>2, <2>1, <2>2
<1> QED BY <1>2, <1>4, <1>6, <1>8, <1>9, <1>10, OneReq, NoJar, Kept DEF HandsOff

\* SessionRegenerateID asks the provider, with an id that nobody has.
LEMMA AskProviderKeeps ==
  ASSUME IInv, NEW r \in Requests, AskProvider(r)
  PROVE  IInv' /\ Others(r) /\ HandsOff(r)
<1> DEFINE q == req[r]
           o == FirstCookie(q)
<1>1. PICK g, s : s = NewSid /\ g = Naming(q, o, s) OBVIOUS
<1>2. /\ q.at = "ask" /\ UNCHANGED <<kind, jar, calm, gone, late>> /\ Unused # {}
      /\ owner' = [owner EXCEPT ![s] = g.who]
      /\ \/ /\ g.old = NoSid /\ store' \in {store, Put(g.new, Raw)}
            /\ req' = [req EXCEPT ![r] = Tell(Starting(g), g.new)]
         \/ store' = store /\ req' = [req EXCEPT ![r] = Bare(g)]
         \/ store' = store /\ g.old # NoSid /\ req' = [req EXCEPT ![r] = Tell(Bare(g), g.new)]
         \/ /\ store' = store /\ g.old # NoSid /\ Provider.regen # "nil"
            /\ req' = [req EXCEPT ![r] = Going(g, "regen")]
  BY <1>1 DEF AskProvider, Same, Quiet, Naming, Starting, Bare, Going
<1>3. s \in Sids /\ s \in Ids /\ s # NoSid /\ s # Keep /\ Free(s)
  BY <1>1, <1>2, NewSidFree, SessionAssumption DEF Ids, Sids
<1>4. q \in Req /\ o \in Ids BY <1>2, Mine1, FirstCookieOk
<1>5. SameBut(g, q, {"old", "new"}) /\ g.old = o /\ g.new = s BY <1>1, <1>3, <1>4, NamingOk
<1>6. /\ g \in Req /\ g.who = q.who /\ g.cookies = q.cookies /\ g.field = q.field
      /\ g.sid = q.sid /\ g.out = q.out /\ g.own = q.own /\ g.val = q.val /\ g.seen = q.seen
      /\ g.before = q.before /\ g.got = q.got /\ g.done = q.done
  BY <1>5 DEF SameBut, Fields
<1>7. FirstCookie(g) = o BY <1>6 DEF FirstCookie
<1>8. q.who \in Browsers /\ q.who # "nobody" BY <1>2, Mine1, SessionAssumption
<1>9. Grows /\ owner' = [owner EXCEPT ![s] = q.who] /\ owner'[s] = q.who
  BY <1>2, <1>3, <1>6, <1>8 DEF Grows, IInv, Types, Free
<1>10. ReqOk(q, owner', Provider.regen) BY <1>9, Mine1
<1>11. s \notin Uses(q) /\ s # q.own /\ s # o
  <2>1. s \notin Uses(q) BY <1>3, Owned
  <2>2. s # q.own BY <1>2, <1>3, UsedOwned, SessionAssumption DEF Free
  <2> QED BY <2>1, <2>2 DEF Uses
<1>12. {NoSid, Keep, s} \subseteq Mine(q.who, owner') BY <1>3, <1>9 DEF Mine
<1>13. store' \in [Sids -> Data] /\ StoreOk'
  <2>1. CASE store' = store BY <2>1, <1>9, StoreStays
  <2>2. CASE store' = Put(s, Raw) BY <1>3, <1>8, <1>9, <2>2, StorePut DEF Put
  <2> QED BY <1>2, <1>5, <2>1, <2>2
<1>14. gone' \subseteq Sids /\ late' \subseteq Sids BY <1>2 DEF IInv, Types
<1>15. SUFFICES \E f : Fits(r, f) /\ f.at # "take" /\ req' = [req EXCEPT ![r] = f]
  <2>1. PICK f : Fits(r, f) /\ f.at # "take" /\ req' = [req EXCEPT ![r] = f] BY <1>15
  <2>2. f \in Req BY <2>1 DEF Fits
  <2> QED BY <1>2, <1>9, <1>13, <1>14, <2>1, <2>2, OneReq, NoJar, Kept DEF HandsOff
<1>16. ~q.done /\ o \in Mine(q.who, owner')
  BY <1>2, <1>10 DEF ReqOk, Uses
<1>17. CASE g.old = NoSid /\ req' = [req EXCEPT ![r] = Tell(Starting(g), g.new)]
  <2>1. PICK h, f : h = Starting(g) /\ f = Tell(h, s) OBVIOUS
  <2>2. /\ SameBut(h, g, {"at", "sid", "val", "shut", "inCtx", "inCtl"})
        /\ h.at = "handler" /\ h.sid = g.new /\ h.val = Empty
    BY <1>6, <2>1, StartingOk
  <2>3. /\ h \in Req /\ h.who = q.who /\ h.cookies = q.cookies /\ h.old = NoSid /\ h.new = s
        /\ h.sid = s /\ h.out = q.out /\ h.own = q.own /\ h.seen = q.seen
        /\ h.before = q.before /\ h.got = q.got /\ ~h.done
    BY <1>5, <1>6, <1>16, <1>17, <2>2 DEF SameBut, Fields
  <2>4. /\ SameBut(f, h, {"cookies", "field", "out", "plain"})
        /\ FirstCookie(f) = (IF FirstCookie(h) = NoSid THEN s ELSE FirstCookie(h))
        /\ f.field \in {s, NoSid} /\ f.out \in {h.out, s}
    BY <1>3, <2>1, <2>3, TellOk
  <2>5. /\ f \in Req /\ f.who = q.who /\ f.old = NoSid /\ f.new = s /\ f.sid = s
        /\ f.own = q.own /\ f.val = Empty /\ f.seen = q.seen /\ f.before = q.before
        /\ f.got = q.got /\ ~f.done /\ f.at = "handler"
    BY <2>2, <2>3, <2>4 DEF SameBut, Fields
  <2>6. FirstCookie(f) \in {o, s} BY <2>3, <2>4 DEF FirstCookie
  <2>7. Uses(f) \subseteq {s, NoSid} \cup Uses(q) BY <2>3, <2>4, <2>5, <2>6 DEF Uses
  <2>8. ReqOk(f, owner', Provider.regen)
    <3>1. Uses(f) \cup {f.new, f.own} \subseteq Mine(q.who, owner')
      <4>1. Uses(q) \subseteq Mine(q.who, owner') /\ q.own \in Mine(q.who, owner')
        BY <1>2, <1>10 DEF ReqOk
      <4> QED BY <1>12, <2>5, <2>7, <4>1
    <3>2. /\ q.seen \in {Absent, Raw, Empty, q.who}
          /\ {f.val, f.before, f.got} \subseteq {Empty, q.who}
      BY <1>2, <1>10, <2>5 DEF ReqOk
    <3> QED BY <1>3, <1>8, <2>5, <3>1, <3>2 DEF ReqOk, Regenerates
  <2>9. Fits(r, f) BY <1>3, <2>5, <2>7, <2>8 DEF Fits, Regenerates
  <2> QED BY <1>5, <1>17, <2>1, <2>5, <2>9
<1>18. CASE req' = [req EXCEPT ![r] = Bare(g)]
  <2>1. PICK f : f = Bare(g) OBVIOUS
  <2>2. SameBut(f, g, {"at", "inCtx", "inCtl", "plain"}) /\ f.at = "handler"
    BY <1>6, <2>1, BareOk
  <2>3. /\ f \in Req /\ f.who = q.who /\ f.cookies = q.cookies /\ f.field = q.field
        /\ f.old = o /\ f.new = s /\ f.sid = q.sid /\ f.out = q.out /\ f.own = q.own
        /\ f.val = q.val /\ f.seen = q.seen /\ f.before = q.before /\ f.got = q.got /\ ~f.done
    BY <1>5, <1>6, <1>16, <2>2 DEF SameBut, Fields
  <2>4. FirstCookie(f) = o BY <2>3 DEF FirstCookie
  <2>5. Uses(f) \subseteq Uses(q) BY <2>3, <2>4 DEF Uses
  <2>6. ReqOk(f, owner', Provider.regen)
    BY <1>2, <1>3, <1>10, <1>12, <2>2, <2>3, <2>4, <2>5 DEF ReqOk, Regenerates
  <2>7. Fits(r, f) BY <1>3, <2>2, <2>3, <2>5, <2>6 DEF Fits, Regenerates
  <2> QED BY <1>18, <2>1, <2>2, <2>7
<1>19. CASE g.old # NoSid /\ Provider.regen # "nil" /\ req' = [req EXCEPT ![r] = Going(g, "regen")]
  <2>1. PICK f : f = Going(g, "regen") OBVIOUS
  <2>2. SameBut(f, g, {"at"}) /\ f.at = "regen" BY <1>6, <2>1, GoingOk DEF Places
  <2>3. /\ f \in Req /\ f.who = q.who /\ f.cookies = q.cookies /\ f.field = q.field
        /\ f.old = o /\ f.new = s /\ f.sid = q.sid /\ f.out = q.out /\ f.own = q.own
        /\ f.val = q.val /\ f.seen = q.seen /\ f.before = q.before /\ f.got = q.got /\ ~f.done
    BY <1>5, <1>6, <1>16, <2>2 DEF SameBut, Fields
  <2>4. FirstCookie(f) = o BY <2>3 DEF FirstCookie
  <2>5. Uses(f) \subseteq Uses(q) BY <2>3, <2>4 DEF Uses
  <2>6. ReqOk(f, owner', Provider.regen)
    <3>1. Uses(f) \cup {f.new, f.own} \subseteq Mine(q.who, owner')
      BY <1>2, <1>10, <1>12, <2>3, <2>5 DEF ReqOk
    <3>2. /\ q.seen \in {Absent, Raw, Empty, q.who}
          /\ {f.val, f.before, f.got} \subseteq {Empty, q.who} /\ f.sid # NoSid
      BY <1>2, <1>10, <2>3 DEF ReqOk
    <3>3. f.old # NoSid /\ f.new # NoSid /\ f.old # f.new BY <1>3, <1>5, <1>11, <1>19, <2>3
    <3> QED BY <1>8, <1>16, <1>19, <2>2, <2>3, <2>4, <3>1, <3>2, <3>3 DEF ReqOk, Regenerates
  <2>7. Fits(r, f) BY <1>3, <1>11, <2>2, <2>3, <2>5, <2>6 DEF Fits, Regenerates
  <2> QED BY <1>19, <2>1, <2>2, <2>7
<1>20. CASE g.old # NoSid /\ req' = [req EXCEPT ![r] = Tell(Bare(g), g.new)]
  <2>1. PICK h, f : h = Bare(g) /\ f = Tell(h, s) OBVIOUS
  <2>2. SameBut(h, g, {"at", "inCtx", "inCtl", "plain"}) /\ h.at = "handler"
    BY <1>6, <2>1, BareOk
  <2>3. /\ h \in Req /\ h.who = q.who /\ h.cookies = q.cookies /\ h.old = o /\ h.new = s
        /\ h.sid = q.sid /\ h.out = q.out /\ h.own = q.own /\ h.val = q.val /\ h.seen = q.seen
        /\ h.before = q.before /\ h.got = q.got /\ ~h.done
    BY <1>5, <1>6, <1>16, <2>2 DEF SameBut, Fields
  <2>4. /\ SameBut(f, h, {"cookies", "field", "out", "plain"})
        /\ FirstCookie(f) = (IF FirstCookie(h) = NoSid THEN s ELSE FirstCookie(h))
        /\ f.field \in {s, NoSid} /\ f.out \in {h.out, s}
    BY <1>3, <2>1, <2>3, TellOk
  <2>5. /\ f \in Req /\ f.who = q.who /\ f.old = o /\ f.new = s /\ f.sid = q.sid
        /\ f.own = q.own /\ f.val = q.val /\ f.seen = q.seen /\ f.before = q.before
        /\ f.got = q.got /\ ~f.done /\ f.at = "handler"
    BY <2>2, <2>3, <2>4 DEF SameBut, Fields
  <2>6. FirstCookie(f) \in {o, s} BY <2>3, <2>4 DEF FirstCookie
  <2>7. Uses(f) \subseteq {s, NoSid} \cup Uses(q) BY <2>3, <2>4, <2>5, <2>6 DEF Uses
  <2>8. ReqOk(f, owner', Provider.regen)
    <3>1. Uses(f) \cup {f.new, f.own} \subseteq Mine(q.who, owner')
      BY <1>2, <1>10, <1>12, <2>5, <2>7 DEF ReqOk
    <3>2. /\ q.seen \in {Absent, Raw, Empty, q.who}
          /\ {f.val, f.before, f.got} \subseteq {Empty, q.who} /\ f.sid # NoSid
      BY <1>2, <1>10, <2>5 DEF ReqOk
    <3> QED BY <1>8, <2>5, <3>1, <3>2 DEF ReqOk, Regenerates
  <2>9. Fits(r, f) BY <1>3, <2>5, <2>7, <2>8 DEF Fits, Regenerates
  <2> QED BY <1>5, <1>20, <2>1, <2>5, <2>9
<1> QED BY <1>2, <1>17, <1>18, <1>19, <1>20

\* The request that moved a session tells its browser the new id.
LEMMA MovedIsTold ==
  ASSUME IInv, Grows, NEW r \in Requests, Regenerates(req[r]),
         NEW v \in {Empty, req[r].who}, NEW f, f = Moved(req[r], v)
  PROVE  Fits(r, f) /\ f.at = "handler"
<1> DEFINE q == req[r]
<1>1. PICK h : h = Moving(q, v) /\ f = Tell(h, q.new) BY DEF Moved, Moving
<1>2. q.at # "idle" BY DEF Regenerates
<1>3. q \in Req /\ q.who \in Browsers /\ ReqOk(q, owner', Provider.regen) BY <1>2, Mine1
<1>4. /\ q.old # NoSid /\ q.new # NoSid /\ q.new # Keep /\ q.old # q.new
      /\ FirstCookie(q) = q.old /\ q.new \in Sids
  BY <1>3, SessionAssumption DEF ReqOk, Req, Ids, Sids
<1>5. v \in Values BY <1>3 DEF Values
<1>6. /\ SameBut(h, q, {"at", "sid", "val", "shut", "got", "done", "inCtx", "inCtl"})
      /\ h.at = "handler" /\ h.sid = q.new /\ h.val = v /\ h.got = v
  BY <1>1, <1>3, <1>5, MovingOk
<1>7. /\ h \in Req /\ h.who = q.who /\ h.cookies = q.cookies /\ h.old = q.old /\ h.new = q.new
      /\ h.out = q.out /\ h.own = q.own /\ h.seen = q.seen /\ h.before = q.before
  BY <1>6 DEF SameBut, Fields
<1>8. /\ SameBut(f, h, {"cookies", "field", "out", "plain"})
      /\ FirstCookie(f) = (IF FirstCookie(h) = NoSid THEN q.new ELSE FirstCookie(h))
      /\ f.field \in {q.new, NoSid} /\ f.out \in {h.out, q.new}
  BY <1>1, <1>4, <1>7, TellOk
<1>9. /\ f \in Req /\ f.who = q.who /\ f.old = q.old /\ f.new = q.new /\ f.sid = q.new
      /\ f.own = q.own /\ f.val = v /\ f.seen = q.seen /\ f.before = q.before
      /\ f.got = v /\ f.at = "handler"
  BY <1>6, <1>7, <1>8 DEF SameBut, Fields
<1>10. FirstCookie(f) = q.old BY <1>4, <1>7, <1>8 DEF FirstCookie
<1>11. Uses(f) \subseteq {q.new, NoSid} \cup Uses(q) BY <1>7, <1>8, <1>9, <1>10 DEF Uses
<1>12. ReqOk(f, owner', Provider.regen)
  <2>1. Uses(q) \subseteq Mine(q.who, owner') /\ q.own \in Mine(q.who, owner')
        /\ q.new \in Mine(q.who, owner') /\ NoSid \in Mine(q.who, owner')
    BY <1>2, <1>3 DEF ReqOk, Mine
  <2>2. Uses(f) \cup {f.new, f.own} \subseteq Mine(q.who, owner') BY <1>9, <1>11, <2>1
  <2>3. /\ q.seen \in {Absent, Raw, Empty, q.who}
        /\ {f.val, f.before, f.got} \subseteq {Empty, q.who}
    BY <1>2, <1>3, <1>9 DEF ReqOk
  <2> QED BY <1>3, <1>4, <1>9, <1>10, <2>2, <2>3 DEF ReqOk, Regenerates
<1> QED BY <1>9, <1>11, <1>12 DEF Fits, Regenerates

\* SessionRegenerate: its first call of the store.
LEMMA RegenLookKeeps ==
  ASSUME IInv, NEW r \in Requests, RegenLook(r)
  PROVE  IInv' /\ Others(r) /\ HandsOff(r)
<1> DEFINE q == req[r]
<1>1. /\ q.at = "regen" /\ Grows /\ UNCHANGED <<owner, gone>> /\ late' \subseteq late \cup gone
  BY SameGrows DEF RegenLook, Same
<1>2. q \in Req /\ q.who \in Browsers /\ ReqOk(q, owner', Provider.regen) BY <1>1, Mine1
<1>3. /\ q.old # NoSid /\ q.old # Keep /\ q.old \in Uses(q)
      /\ q.new # NoSid /\ q.new # Keep /\ q.old # q.new
  BY <1>1, <1>2, SessionAssumption DEF ReqOk, Req, Uses, Ids, Sids, Regenerates
<1>4. /\ q.old \in Sids /\ owner[q.old] = q.who /\ owner[q.old] # "nobody"
      /\ q.new \in Sids /\ owner[q.new] = q.who
  BY <1>1, <1>3, UsedOwned
<1>5. /\ Decoded(store[q.old]) \in {Empty, q.who}
      /\ store[q.old] \in {Absent, Raw, Empty, q.who} /\ store[q.old] \in Data
  BY <1>4, StoredOwn
<1>6. gone' \subseteq Sids /\ late' \subseteq Sids BY <1>1 DEF IInv, Types
<1>7. CASE Gone(r, "unknown") /\ (store' = store \/ store' = Saved(Store.save, q))
  <2>2. store' \in [Sids -> Data] /\ StoreOk' BY <1>1, <1>7, StoreStays, SavedOk
  <2> QED BY <1>1, <1>6, <1>7, <2>2, GoneStep, Kept DEF HandsOff
<1>8. CASE /\ UNCHANGED <<jar, calm>> /\ req' = [req EXCEPT ![r] = Moved(q, Decoded(store[q.old]))]
           /\ store' = [store EXCEPT ![q.new] = IF store[q.old] # Absent THEN store[q.old] ELSE Raw,
                                     ![q.old] = Absent]
  <2>1. store' \in [Sids -> Data] /\ StoreOk' BY <1>1, <1>3, <1>4, <1>5, <1>8, StoreMove
  <2>2. PICK f : f = Moved(q, Decoded(store[q.old])) OBVIOUS
  <2>3. Fits(r, f) /\ f \in Req /\ f.at = "handler"
    BY <1>1, <1>5, <2>2, MovedIsTold DEF Regenerates, Fits
  <2> QED BY <1>1, <1>6, <1>8, <2>1, <2>2, <2>3, OneReq, NoJar, Kept DEF HandsOff
<1>9. CASE /\ UNCHANGED <<jar, calm>> /\ req' = [req EXCEPT ![r] = Moved(q, Empty)]
           /\ store' = Put(q.new, Raw)
  <2>1. store' \in [Sids -> Data] /\ StoreOk'
    BY <1>1, <1>2, <1>4, <1>9, StorePut, SessionAssumption DEF Put
  <2>2. PICK f : f = Moved(q, Empty) OBVIOUS
  <2>3. Fits(r, f) /\ f \in Req /\ f.at = "handler" BY <1>1, <2>2, MovedIsTold DEF Regenerates, Fits
  <2> QED BY <1>1, <1>6, <1>9, <2>1, <2>2, <2>3, OneReq, NoJar, Kept DEF HandsOff
<1>10. CASE /\ UNCHANGED <<jar, calm>> /\ store' \in {store, Put(q.old, Raw)}
            /\ \E at \in {"take", "move"} :
                 /\ req' = [req EXCEPT ![r] = Looking(q, store[q.old], at)]
                 /\ at = "move" => /\ Provider.regen \in {"rename", "copy", "rekey"}
                                   /\ Provider.regen = "copy" => store[q.old] \notin {Absent, Raw}
                 /\ at = "take" => Provider.regen = "copy" /\ store[q.old] \in {Absent, Raw}
  <2>1. store' \in [Sids -> Data] /\ StoreOk' BY <1>1, <1>4, <1>10, StorePut DEF Put
  <2>2. PICK at, d, f :
           /\ at \in {"take", "move"} /\ d = store[q.old]
           /\ f = Looking(q, d, at) /\ req' = [req EXCEPT ![r] = f]
           /\ at = "move" => /\ Provider.regen \in {"rename", "copy", "rekey"}
                             /\ Provider.regen = "copy" => d \notin {Absent, Raw}
           /\ at = "take" => Provider.regen = "copy" /\ d \in {Absent, Raw}
    BY <1>10
  <2>3. SameBut(f, q, {"seen", "at"}) /\ f.seen = d /\ f.at = at
    BY <1>2, <1>5, <2>2, LookingOk DEF Places
  <2>4. Uses(f) = Uses(q) /\ FirstCookie(f) = FirstCookie(q) BY <2>3, SameUses
  <2>5. /\ f \in Req /\ f.who = q.who /\ f.old = q.old /\ f.new = q.new /\ f.sid = q.sid
        /\ f.own = q.own /\ f.val = q.val /\ f.before = q.before /\ f.got = q.got
        /\ f.done = q.done
    BY <2>3 DEF SameBut, Fields
  <2>6. d \in {Absent, Raw, Empty, q.who} BY <1>5, <2>2
  <2>7. ReqOk(f, owner', Provider.regen)
    BY SMTT(20), <1>1, <1>2, <2>2, <2>3, <2>4, <2>5, <2>6 DEF ReqOk, Regenerates
  <2>8. Fits(r, f) BY <1>1, <2>3, <2>4, <2>5, <2>7, FitsUses DEF Regenerates
  <2> QED BY <1>1, <1>6, <1>10, <2>1, <2>2, <2>3, <2>5, <2>8, OneReq, NoJar, Kept DEF HandsOff
<1>11. Released(q) = Saved(Store.save, q) BY DEF Released
<1> QED BY <1>7, <1>8, <1>9, <1>10, <1>11 DEF RegenLook, Looking

\* SessionRegenerate: RENAME, UPDATE of the key, or DEL.
LEMMA RegenMoveKeeps ==
  ASSUME IInv, NEW r \in Requests, RegenMove(r)
  PROVE  IInv' /\ Others(r)
<1> DEFINE q == req[r]
<1>1. q.at = "move" /\ Grows /\ UNCHANGED <<owner, jar, calm, gone, late>>
  BY SameGrows DEF RegenMove, Same, Quiet
<1>2. q \in Req /\ q.who \in Browsers /\ ReqOk(q, owner', Provider.regen) BY <1>1, Mine1
<1>3. /\ q.old # NoSid /\ q.old # Keep /\ q.old \in Uses(q)
      /\ q.new # NoSid /\ q.new # Keep /\ q.old # q.new
  BY <1>1, <1>2, SessionAssumption DEF ReqOk, Req, Uses, Ids, Sids, Regenerates
<1>4. /\ q.old \in Sids /\ owner'[q.old] = q.who /\ q.who # "nobody"
      /\ q.new \in Sids /\ owner'[q.new] = q.who
  BY <1>1, <1>3, UsedOwned
<1>5. store[q.old] \in {Absent, Raw, Empty, q.who} /\ store[q.old] \in Data
  BY <1>1, <1>4, StoredOwn
<1>6. gone' \subseteq Sids /\ late' \subseteq Sids BY <1>1 DEF IInv, Types
<1>7. Provider.regen \in {"rename", "rekey", "copy"} BY <1>1, <1>2 DEF ReqOk
<1>8. q.seen \in {Absent, Raw, Empty, q.who} BY <1>1, <1>2 DEF ReqOk
<1>12. ASSUME store' = Renamed(q) PROVE store' \in [Sids -> Data] /\ StoreOk'
  <2>1. CASE store[q.old] = Absent BY <1>1, <1>12, <2>1, StoreStays DEF Renamed
  <2>2. CASE store[q.old] # Absent
    <3>1. PICK d : d = store[q.old] OBVIOUS
    <3>2. store' = [store EXCEPT ![q.new] = d, ![q.old] = Absent]
      BY <1>12, <2>2, <3>1 DEF Renamed
    <3>3. owner'[q.new] # "nobody" /\ d \in {Raw, Empty, owner'[q.new]}
      BY <1>4, <1>5, <2>2, <3>1
    <3> QED BY <1>1, <1>3, <1>4, <3>2, <3>3, StoreMove
  <2> QED BY <2>1, <2>2
<1>13. ASSUME Provider.regen \in {"rename", "copy"}
       PROVE  Going(q, "take") \in Req /\ Fits(r, Going(q, "take"))
  <2>1. PICK f : f = Going(q, "take") OBVIOUS
  <2>2. SameBut(f, q, {"at"}) /\ f.at = "take" BY <1>2, <2>1, GoingOk DEF Places
  <2>3. Uses(f) = Uses(q) /\ FirstCookie(f) = FirstCookie(q) BY <2>2, SameUses
  <2>4. /\ f \in Req /\ f.who = q.who /\ f.old = q.old /\ f.new = q.new /\ f.sid = q.sid
        /\ f.own = q.own /\ f.val = q.val /\ f.before = q.before /\ f.got = q.got
        /\ f.seen = q.seen /\ f.done = q.done
    BY <2>2 DEF SameBut, Fields
  <2>5. ReqOk(f, owner', Provider.regen)
    BY <1>1, <1>2, <1>13, <2>2, <2>3, <2>4 DEF ReqOk, Regenerates
  <2>6. Fits(r, f) BY <1>1, <2>2, <2>3, <2>4, <2>5, FitsUses DEF Regenerates
  <2> QED BY <2>1, <2>4, <2>6
<1>9. CASE store' \in {Put(q.new, Raw), Renamed(q)} /\ Provider.regen = "rename"
           /\ req' = [req EXCEPT ![r] = Going(q, "take")]
  <2>1. store' \in [Sids -> Data] /\ StoreOk'
    <3>1. CASE store' = Put(q.new, Raw) BY <1>1, <1>4, <3>1, StorePut DEF Put
    <3> QED BY <1>9, <1>12, <3>1
  <2> QED BY <1>1, <1>6, <1>9, <1>13, <2>1, OneReq, NoJar, Kept DEF HandsOff
<1>10. CASE store' = Renamed(q) /\ req' = [req EXCEPT ![r] = Moved(q, Decoded(q.seen))]
  <2>1. PICK v, f : v = Decoded(q.seen) /\ f = Moved(q, v) OBVIOUS
  <2>2. v \in {Empty, q.who} BY <1>8, <2>1 DEF Decoded
  <2>3. Fits(r, f) /\ f \in Req /\ f.at = "handler"
    BY <1>1, <2>1, <2>2, MovedIsTold DEF Regenerates, Fits
  <2> QED BY <1>1, <1>6, <1>10, <1>12, <2>1, <2>3, OneReq, NoJar, Kept DEF HandsOff
<1>11. CASE store' = Put(q.old, Absent) /\ Provider.regen = "copy"
            /\ req' = [req EXCEPT ![r] = Going(q, "take")]
  <2>1. store' \in [Sids -> Data] /\ StoreOk' BY <1>1, <1>4, <1>11, StorePut DEF Put
  <2> QED BY <1>1, <1>6, <1>11, <1>13, <2>1, OneReq, NoJar, Kept DEF HandsOff
<1> QED BY <1>1, <1>7, <1>9, <1>10, <1>11 DEF RegenMove, Going

\* SessionRegenerate: GET of the new key, or SETX of it.
LEMMA RegenTakeKeeps ==
  ASSUME IInv, NEW r \in Requests, RegenTake(r)
  PROVE  IInv' /\ Others(r) /\ HandsOff(r)
<1> DEFINE q == req[r]
<1>1. q.at = "take" /\ Grows /\ UNCHANGED <<owner, jar, calm, gone, late>>
  BY SameGrows DEF RegenTake, Same, Quiet
<1>2. q \in Req /\ q.who \in Browsers /\ ReqOk(q, owner', Provider.regen) BY <1>1, Mine1
<1>3. q.new # NoSid /\ q.new # Keep
  BY <1>1, <1>2, SessionAssumption DEF ReqOk, Req, Ids, Sids, Regenerates
<1>4. q.new \in Sids /\ owner'[q.new] = q.who /\ owner[q.new] = q.who /\ q.who # "nobody"
  BY <1>1, <1>3, UsedOwned
<1>5. PICK v, f, kept :
        /\ kept = (IF q.seen = Absent THEN Raw ELSE q.seen)
        /\ v \in {Decoded(store[q.new]), Decoded(kept)} /\ f = Moved(q, v)
        /\ req' = [req EXCEPT ![r] = f] /\ store' \in {store, Put(q.new, kept)}
  BY DEF RegenTake
<1>6. kept \in {Raw, Empty, q.who} BY <1>1, <1>2, <1>5 DEF ReqOk
<1>7. v \in {Empty, q.who} BY <1>4, <1>5, <1>6, StoredOwn DEF Decoded
<1>8. store' \in [Sids -> Data] /\ StoreOk'
  BY <1>1, <1>4, <1>5, <1>6, StorePut DEF Put
<1>9. Fits(r, f) /\ f \in Req /\ f.at = "handler" BY <1>1, <1>5, <1>7, MovedIsTold DEF Regenerates, Fits
<1>10. gone' \subseteq Sids /\ late' \subseteq Sids BY <1>1 DEF IInv, Types
<1> QED BY <1>1, <1>5, <1>8, <1>9, <1>10, OneReq, NoJar, Kept DEF HandsOff

\* The deferred SessionRelease, and what the browser keeps of the answer.
LEMMA EndKeeps ==
  ASSUME IInv, NEW r \in Requests, End(r)
  PROVE  IInv' /\ Others(r) /\ HandsOff(r)
<1> DEFINE q == req[r]
<1>1. q.at = "handler" /\ UNCHANGED <<kind, gone, late>> BY DEF End, Same
<1>2. q \in Req /\ q.who \in Browsers /\ q.val \in {Empty, q.who} /\ q.out \in Mine(q.who, owner)
  BY <1>1, Mine1 DEF ReqOk, Uses
<1>3. gone' \subseteq Sids /\ late' \subseteq Sids BY <1>1 DEF IInv, Types
<1>4. CASE /\ UNCHANGED owner /\ (store' = store \/ store' = Saved(Store.save, q))
           /\ \E e \in {"unknown", Empty, q.val} : Gone(r, e)
  <2>1. Grows BY <1>1, <1>4, SameGrows
  <2>2. store' \in [Sids -> Data] /\ StoreOk' BY <1>1, <1>4, <2>1, StoreStays, SavedOk
  <2>3. PICK e \in Values \cup {"unknown"} : Gone(r, e) BY <1>2, <1>4 DEF Values
  <2> QED BY <1>1, <1>3, <2>1, <2>2, <2>3, GoneStep, Kept DEF HandsOff
<1>5. CASE /\ Unused # {} /\ owner' = [owner EXCEPT ![NewSid] = q.who] /\ store' = Put(NewSid, q.val)
           /\ \/ jar' = jar
              \/ jar' = [jar EXCEPT ![q.who] = NewSid]
              \/ q.out # Keep /\ jar' = [jar EXCEPT ![q.who] = q.out]
           /\ \E e \in {"unknown", q.val} : calm' = [calm EXCEPT ![q.who] = e]
           /\ req' = [req EXCEPT ![r] = Fresh]
  <2>1. PICK s : s = NewSid OBVIOUS
  <2>2. s \in Sids /\ s \in Ids /\ Free(s) BY <1>5, <2>1, NewSidFree DEF Ids
  <2>3. Grows /\ owner'[s] = q.who /\ owner'[s] # "nobody"
    BY <1>1, <1>2, <1>5, <2>1, <2>2, SessionAssumption DEF Grows, IInv, Types, Free
  <2>4. store' \in [Sids -> Data] /\ StoreOk' BY <1>2, <1>5, <2>1, <2>2, <2>3, StorePut DEF Put
  <2>5. Fresh \in Req /\ Fits(r, Fresh) /\ Fresh.at = "idle" BY <2>3, FreshFits
  <2>6. q.out \in Mine(q.who, owner') /\ (q.out # Keep => q.out \in Ids) /\ q.out \in Uses(q)
    BY <1>1, <1>2, <2>3, Mine1 DEF ReqOk, Uses, Req
  <2>7. jar' \in [Browsers -> Ids] /\ JarFits(r, Fresh)
    BY <1>2, <1>5, <2>1, <2>2, <2>3, <2>6 DEF IInv, Types, JarFits, Fresh, Mine
  <2>8. calm' \in [Browsers -> Values \cup {"unknown"}]
    BY <1>2, <1>5 DEF IInv, Types, Values
  <2> QED BY <1>1, <1>3, <1>5, <2>3, <2>4, <2>5, <2>7, <2>8, OneReq, Kept DEF HandsOff
<1>6. Released(q) = Saved(Store.save, q) BY DEF Released
<1>7. CASE q.inCtx /\ kind = "cookie" BY <1>5, <1>7 DEF End, EncodedCookie
<1>8. CASE ~(q.inCtx /\ kind = "cookie") BY <1>4, <1>6, <1>8 DEF End
<1> QED BY <1>7, <1>8

\* The store forgets a session.
LEMMA ExpireKeeps ==
  ASSUME IInv, NEW s \in Sids, Expire(s)
  PROVE  IInv'
<1>1. /\ UNCHANGED <<kind, owner, jar, gone, late>> /\ Grows /\ store' = [store EXCEPT ![s] = Absent]
      /\ req' = [p \in Requests |-> IF req[p].who = owner[s] THEN [req[p] EXCEPT !.plain = FALSE]
                                    ELSE req[p]]
      /\ calm' = [calm EXCEPT ![owner[s]] = "unknown"]
  BY SameGrows DEF Expire, Same, Put
<1>2. \A p \in Requests : Twin(req'[p], req[p]) BY <1>1 DEF Twin
<1>3. req' \in [Requests -> Req]
  <2>1. \A p \in Requests : req'[p] \in Req BY <1>2, TwinOk DEF IInv, Types, SameBut
  <2> QED BY <1>1, <2>1
<1>4. store' \in [Sids -> Data] /\ StoreOk' BY <1>1, StorePut
<1>5. Types' BY <1>1, <1>3, <1>4 DEF IInv, Types
<1>6. ReqsOk' BY <1>1, <1>2, TwinReqOk, SameProvider DEF IInv, Types, ReqsOk
<1>7. JarOk' /\ GoneOk' BY <1>1 DEF IInv, JarOk, GoneOk
<1>8. PrivateInv'
  <2>1. ASSUME NEW p \in Requests
        PROVE  /\ req'[p].at = req[p].at /\ req'[p].new = req[p].new
               /\ Uses(req'[p]) = Uses(req[p])
    <3>1. SameBut(req'[p], req[p], {"plain"}) /\ Uses(req'[p]) = Uses(req[p])
      BY <1>2, TwinOk DEF IInv, Types
    <3> QED BY <3>1 DEF SameBut, Fields
  <2>2. SUFFICES ASSUME NEW p \in Requests, Regenerates(req'[p])
                 PROVE  LET t == req'[p].new IN
                        /\ t \notin gone' /\ \A b \in Browsers : jar'[b] # t
                        /\ \A x \in Requests : t \notin Uses(req'[x]) /\ (x # p => req'[x].new # t)
    BY DEF PrivateInv, Private, Regenerates, Uses, FirstCookie
  <2>3. Private(p) BY <2>1, <2>2 DEF IInv, PrivateInv, Regenerates
  <2> QED BY <1>1, <2>1, <2>3 DEF Private
<1> QED BY <1>4, <1>5, <1>6, <1>7, <1>8 DEF IInv

\* Every step.
LEMMA NextKeeps ==
  ASSUME IInv, [Next]_vars
  PROVE  IInv'
<1>1. CASE UNCHANGED vars
  <2>1. UNCHANGED <<kind, store, owner, jar, req, gone, late, calm>> BY <1>1 DEF vars
  <2>2. Types' /\ JarOk' /\ StoreOk' /\ GoneOk'
    BY <2>1 DEF IInv, Types, JarOk, StoreOk, GoneOk
  <2>3. ReqsOk' BY <2>1, SameProvider DEF IInv, ReqsOk
  <2>4. PrivateInv' BY <2>1 DEF IInv, PrivateInv, Private, Regenerates, Uses, FirstCookie
  <2> QED BY <2>2, <2>3, <2>4 DEF IInv
<1> QED BY <1>1, BeginKeeps, StartReadKeeps, SetSessionKeeps, RenderKeeps, DestroySessionKeeps,
           ReleaseIfPresentKeeps, RegenerateIDKeeps, AskProviderKeeps, RegenLookKeeps,
           RegenMoveKeeps, RegenTakeKeeps, EndKeeps, ExpireKeeps DEF Next

\* Nothing is stored and nobody has an id.
LEMMA InitHolds ==
  ASSUME Init
  PROVE  IInv
<1>1. \A r \in Requests : req[r] = Fresh BY DEF Init
<1>2. /\ Fresh \in Req /\ ReqOk(Fresh, owner, Provider.regen) /\ ~Regenerates(Fresh)
  BY FreshOk DEF Fresh, Regenerates
<1>3. Types
  <2>1. kind \in Kinds BY SessionAssumption DEF Init
  <2> QED BY <1>2, <2>1 DEF Init, Types, Data, Ids, Values
<1>4. ReqsOk /\ PrivateInv BY <1>1, <1>2 DEF ReqsOk, PrivateInv
<1>5. JarOk /\ StoreOk /\ GoneOk BY DEF Init, JarOk, StoreOk, GoneOk, Mine
<1> QED BY <1>3, <1>4, <1>5 DEF IInv

\* Whatever the provider and the order of the calls of requests that overlap:
\* ids, values and cookies stay with the browser they were issued to
\* (sessionID, SessionStart), and the id that SessionRegenerateID moves a
\* session to is known to nobody else until the session is there.
THEOREM Invariance == Spec => []IInv
<1> QED BY InitHolds, NextKeeps, PTL DEF Spec

-----------------------------------------------------------------------------
(* Every step is a step of SessionApi, or none.                            *)

LiveAt(s) ==
  /\ \A r \in Requests : InHand(r, s) => Live[s] = req[r].seen
  /\ (\A r \in Requests : ~InHand(r, s)) => Live[s] = store[s]

\* Live in terms of the store and of the one request that holds a session,
LEMMA LiveIs == IInv => \A s \in Sids : LiveAt(s)
<1> SUFFICES ASSUME IInv, NEW s \in Sids PROVE LiveAt(s) OBVIOUS
<1>1. \A r, p \in Requests : InHand(r, s) /\ InHand(p, s) => r = p
  BY DEF IInv, PrivateInv, Private, Regenerates, InHand
<1>2. ASSUME NEW r \in Requests, InHand(r, s) PROVE Live[s] = req[r].seen
  <2>1. (CHOOSE p \in Requests : InHand(p, s)) = r BY <1>1, <1>2
  <2> QED BY <1>2, <2>1 DEF Live
<1>3. ASSUME \A r \in Requests : ~InHand(r, s) PROVE Live[s] = store[s] BY <1>3 DEF Live
<1> QED BY <1>2, <1>3 DEF LiveAt

\* also after a step.
LEMMA LiveIsNext == IInv' => \A s \in Sids : LiveAt(s)'
<1>1. (IInv => \A s \in Sids : LiveAt(s))' BY LiveIs, PTL
<1> QED BY <1>1

\* The sessions in the hands of requests stay there, and nothing joins them.
HandsStay ==
  \A s \in Sids, p \in Requests :
    (InHand(p, s)' <=> InHand(p, s)) /\ (InHand(p, s) => req'[p].seen = req[p].seen)

\* A write to the store is one to Live, or a request hides it.
LEMMA LiveWrite ==
  ASSUME IInv, IInv', HandsStay, NEW s \in Sids, NEW d, store' \in {store, [store EXCEPT ![s] = d]}
  PROVE  Live' \in {Live, [Live EXCEPT ![s] = d]}
<1>1. \A t \in Sids : LiveAt(t) BY LiveIs
<1>3. \A t \in Sids : LiveAt(t)' BY LiveIsNext
<1>4. /\ Live = [t \in Sids |-> Live[t]] /\ Live' = [t \in Sids |-> Live'[t]]
      /\ store \in [Sids -> Data]
  BY DEF Live, IInv, Types
<1>5. ASSUME NEW t \in Sids, \E p \in Requests : InHand(p, t) PROVE Live'[t] = Live[t]
  BY <1>1, <1>3, <1>5 DEF LiveAt, HandsStay
<1>6. ASSUME NEW t \in Sids, ~\E p \in Requests : InHand(p, t)
      PROVE  Live[t] = store[t] /\ Live'[t] = store'[t]
  BY <1>1, <1>3, <1>6 DEF LiveAt, HandsStay
<1>7. \A t \in Sids \ {s} : Live'[t] = Live[t] BY <1>4, <1>5, <1>6
<1>8. Live'[s] \in {Live[s], d} BY <1>4, <1>5, <1>6
<1> HIDE DEF Live
<1> QED BY <1>4, <1>7, <1>8

\* A step of r leaves the sessions in the hands of others there.
LEMMA OthersHands ==
  ASSUME IInv, NEW r \in Requests, kind' = kind, Others(r)
  PROVE  \A p \in Requests \ {r} : \A s \in Sids :
           (InHand(p, s)' <=> InHand(p, s)) /\ req'[p].seen = req[p].seen
<1>1. Provider' = Provider BY SameProvider
<1> TAKE p \in Requests \ {r}
<1> TAKE s \in Sids
<1>2. SameBut(req'[p], req[p], {"plain"}) BY TwinOk DEF Others, IInv, Types
<1>3. /\ req'[p].at = req[p].at /\ req'[p].new = req[p].new /\ req'[p].seen = req[p].seen
  BY <1>2 DEF SameBut, Fields
<1> QED BY <1>1, <1>3 DEF InHand

\* A step of r neither takes a session into its hands nor puts one back.
LEMMA HandsStayed ==
  ASSUME IInv, NEW r \in Requests, kind' = kind, Others(r), HandsOff(r),
         req[r].at = "take" => req[r].seen \in {Absent, Raw} \/ Provider.regen # "copy"
  PROVE  HandsStay
<1> SUFFICES ASSUME NEW s \in Sids, NEW p \in Requests
             PROVE  (InHand(p, s)' <=> InHand(p, s)) /\ (InHand(p, s) => req'[p].seen = req[p].seen)
  BY DEF HandsStay
<1>1. Provider' = Provider BY SameProvider
<1>2. CASE p = r
  <2>1. ~InHand(p, s) BY <1>2 DEF InHand
  <2>2. CASE Provider.regen = "copy" BY <1>1, <1>2, <2>1 DEF InHand, HandsOff
  <2>3. CASE Provider.regen # "copy" BY <1>1, <2>3 DEF InHand
  <2> QED BY <2>1, <2>2, <2>3
<1>3. CASE p # r BY <1>3, OthersHands
<1> QED BY <1>2, <1>3

ApiStep == [Api!Next]_<<Live, owner>>

\* A write, or none.
LEMMA WriteMaps ==
  ASSUME IInv, IInv', HandsStay, owner' = owner, NEW s \in Sids, NEW d,
         d = Absent \/ (owner[s] # "nobody" /\ d \in {Raw, Empty, owner[s]}),
         store' \in {store, [store EXCEPT ![s] = d]}
  PROVE  ApiStep
<1>1. Live' \in {Live, [Live EXCEPT ![s] = d]} BY LiveWrite
<1> HIDE DEF Live
<1>2. CASE Live' = Live BY <1>2 DEF ApiStep
<1>3. CASE Live' = [Live EXCEPT ![s] = d] /\ d = Absent
  <2>1. Api!Drop(s) BY <1>3 DEF Api!Drop, Api!Absent
  <2> QED BY <2>1 DEF ApiStep, Api!Next
<1>4. CASE Live' = [Live EXCEPT ![s] = d] /\ d # Absent
  <2>1. Api!Write(s) BY <1>4 DEF Api!Write, Api!Own, Api!Nobody
  <2> QED BY <2>1 DEF ApiStep, Api!Next
<1> QED BY <1>1, <1>2, <1>3, <1>4

\* No write.
LEMMA UnchangedMaps ==
  ASSUME IInv, IInv', HandsStay, UNCHANGED <<owner, store>>
  PROVE  ApiStep
<1>1. CASE \E s : s \in Sids
  <2>1. PICK s \in Sids : TRUE BY <1>1
  <2> QED BY <2>1, WriteMaps
<1>2. CASE ~\E s : s \in Sids
  <2>1. Live' = Live BY <1>2 DEF Live
  <2> QED BY <2>1 DEF ApiStep
<1> QED BY <1>1, <1>2

\* An id is issued, with nothing or a first value.
LEMMA IssueMaps ==
  ASSUME IInv, IInv', HandsStay, NEW s \in Sids, NEW b \in Browsers, Free(s),
         owner' = [owner EXCEPT ![s] = b], NEW d \in {Raw, Empty, b},
         store' \in {store, [store EXCEPT ![s] = d]}
  PROVE  ApiStep
<1>1. Live' \in {Live, [Live EXCEPT ![s] = d]} BY LiveWrite
<1> HIDE DEF Live
<1>2. Api!Issue(s, b) BY <1>1 DEF Api!Issue, Api!Own, Api!Nobody, Free
<1> QED BY <1>2 DEF ApiStep, Api!Next

\* SessionStart: getSid, SessionExist, and an id of its own for who has none.
LEMMA BeginMaps ==
  ASSUME IInv, NEW r \in Requests, NEW b \in Browsers, Begin(r, b)
  PROVE  ApiStep
<1>1. /\ req[r].at = "idle" /\ kind' = kind
      /\ \/ UNCHANGED <<store, owner>>
         \/ /\ Unused # {} /\ owner' = [owner EXCEPT ![NewSid] = b]
            /\ store' \in {store, Put(NewSid, Raw)}
  BY DEF Begin
<1>2. IInv' /\ Others(r) /\ HandsOff(r) BY BeginKeeps
<1>3. HandsStay BY <1>1, <1>2, HandsStayed
<1>4. CASE UNCHANGED <<store, owner>> BY <1>2, <1>3, <1>4, UnchangedMaps
<1>5. CASE /\ Unused # {} /\ owner' = [owner EXCEPT ![NewSid] = b]
           /\ store' \in {store, Put(NewSid, Raw)}
  <2>1. PICK s : s = NewSid OBVIOUS
  <2>2. Free(s) /\ s \in Sids BY <1>5, <2>1, NewSidFree
  <2> QED BY <1>2, <1>3, <1>5, <2>1, <2>2, IssueMaps DEF Put
<1> QED BY <1>1, <1>4, <1>5

\* SessionStart: SessionRead of the id that was there a moment ago.
LEMMA StartReadMaps ==
  ASSUME IInv, NEW r \in Requests, StartRead(r)
  PROVE  ApiStep
<1> DEFINE q == req[r]
<1>1. q.at = "read" /\ UNCHANGED <<kind, owner>> /\ store' \in {store, Put(q.old, Raw)}
  BY DEF StartRead, Same
<1>2. IInv' /\ Others(r) /\ HandsOff(r) BY StartReadKeeps
<1>3. HandsStay BY <1>1, <1>2, HandsStayed
<1>4. q.old # NoSid /\ q.old # Keep /\ q.old \in Uses(q)
  BY <1>1, Mine1, SessionAssumption DEF ReqOk, Req, Uses, Ids, Sids
<1>5. q.old \in Sids /\ owner[q.old] # "nobody" BY <1>1, <1>4, UsedOwned
<1> QED BY <1>1, <1>2, <1>3, <1>5, WriteMaps DEF Put

\* SetSession and Render leave the store alone, Release and Destroy write under one id.
LEMMA SavedMaps ==
  ASSUME IInv, IInv', HandsStay, owner' = owner, NEW r \in Requests,
         req[r].at \notin {"idle", "read"}, NEW how, store' = Saved(how, req[r])
  PROVE  ApiStep
<1> DEFINE q == req[r]
<1>1. q \in Req /\ ReqOk(q, owner, Provider.regen) BY Mine1
<1>2. q.sid # NoSid /\ q.sid # Keep /\ q.sid \in Uses(q)
  BY <1>1, SessionAssumption DEF ReqOk, Req, Uses, Ids, Sids
<1>3. q.sid \in Sids /\ owner[q.sid] = q.who /\ owner[q.sid] # "nobody" BY <1>2, UsedOwned
<1>4. q.val \in {Empty, owner[q.sid]} BY <1>1, <1>3 DEF ReqOk
<1> QED BY <1>3, <1>4, WriteMaps DEF Saved, Put

\* SetSession puts a value into the object of the request, or panics.
LEMMA SetSessionMaps ==
  ASSUME IInv, NEW r \in Requests, SetSession(r)
  PROVE  ApiStep
<1>1. req[r].at = "handler" /\ UNCHANGED <<kind, owner, store>>
  BY DEF SetSession, Same, Handles
<1> QED BY <1>1, SetSessionKeeps, HandsStayed, UnchangedMaps

\* The header of the answer is written.
LEMMA RenderMaps ==
  ASSUME IInv, NEW r \in Requests, Render(r)
  PROVE  ApiStep
<1>1. req[r].at = "handler" /\ UNCHANGED <<kind, owner, store>> BY DEF Render, Same
<1> QED BY <1>1, RenderKeeps, HandsStayed, UnchangedMaps

\* SessionReleaseIfPresent in the middle of a handler.
LEMMA ReleaseIfPresentMaps ==
  ASSUME IInv, NEW r \in Requests, ReleaseIfPresent(r)
  PROVE  ApiStep
<1>1. /\ req[r].at = "handler" /\ UNCHANGED <<kind, owner>>
      /\ store' = Saved(Store.ifPresent, req[r])
  BY DEF ReleaseIfPresent, Same, Handles
<1>2. IInv' /\ HandsStay BY <1>1, ReleaseIfPresentKeeps, HandsStayed
<1> QED BY <1>1, <1>2, SavedMaps

\* DestroySession of the session of the first cookie.
LEMMA DestroySessionMaps ==
  ASSUME IInv, NEW r \in Requests, DestroySession(r)
  PROVE  ApiStep
<1> DEFINE o == FirstCookie(req[r])
<1>1. /\ req[r].at = "handler" /\ UNCHANGED <<kind, owner>>
      /\ store' = store \/ (o # NoSid /\ store' = Put(o, Absent))
  BY DEF DestroySession, Same, Handles
<1>2. IInv' /\ HandsStay BY <1>1, DestroySessionKeeps, HandsStayed
<1>3. o \in Ids BY Mine1, FirstCookieOk
<1>4. o # NoSid => o \in Sids BY <1>3 DEF Ids
<1> QED BY <1>1, <1>2, <1>4, UnchangedMaps, WriteMaps DEF Put

\* SessionRegenerateID saves what the controller has under the old id.
LEMMA RegenerateIDMaps ==
  ASSUME IInv, NEW r \in Requests, RegenerateID(r)
  PROVE  ApiStep
<1>1. /\ req[r].at = "handler" /\ UNCHANGED <<kind, owner>>
      /\ store' = store \/ store' = Saved(Store.save, req[r])
  BY DEF RegenerateID, Same, Handles, Released
<1>2. IInv' /\ HandsStay BY <1>1, RegenerateIDKeeps, HandsStayed
<1> QED BY <1>1, <1>2, UnchangedMaps, SavedMaps

\* SessionRegenerateID asks the provider, with an id that nobody has.
LEMMA AskProviderMaps ==
  ASSUME IInv, NEW r \in Requests, AskProvider(r)
  PROVE  ApiStep
<1>1. PICK s, b : s = NewSid /\ b = req[r].who OBVIOUS
<1>2. /\ req[r].at = "ask" /\ kind' = kind /\ Unused # {}
      /\ owner' = [owner EXCEPT ![s] = b]
      /\ store' \in {store, Put(s, Raw)}
  <2>1. Naming(req[r], FirstCookie(req[r]), s).who = b
    BY <1>1, Mine1 DEF Naming, Req
  <2>2. Unused # {} => Naming(req[r], FirstCookie(req[r]), s).new = s
    BY <1>1, Mine1, NewSidFree DEF Naming, Req, Ids
  <2> QED BY <1>1, <2>1, <2>2 DEF AskProvider, Same, Naming
<1>3. IInv' /\ HandsStay BY <1>2, AskProviderKeeps, HandsStayed
<1>4. s \in Sids /\ Free(s) /\ b \in Browsers BY <1>1, <1>2, NewSidFree, Mine1
<1> QED BY <1>2, <1>3, <1>4, IssueMaps DEF Put

\* A move under one name of the store.
LEMMA MoveMaps ==
  ASSUME IInv, IInv', UNCHANGED <<kind, owner>>, Provider.regen # "copy",
         NEW s \in Sids, NEW t \in Sids, s # t, owner[s] = owner[t], owner[s] # "nobody",
         NEW d \in {Raw, Empty, owner[s]}, store' = [store EXCEPT ![t] = d, ![s] = Absent]
  PROVE  ApiStep
<1>1. Provider'.regen # "copy" BY SameProvider
<1>2. \A x \in Sids, p \in Requests : ~InHand(p, x) /\ ~InHand(p, x)' BY <1>1 DEF InHand
<1>3. store = [x \in Sids |-> store[x]] /\ store' = [x \in Sids |-> store'[x]]
  BY DEF IInv, Types
<1>4. Live = store /\ Live' = store' BY <1>2, <1>3 DEF Live
<1>5. store' = [store EXCEPT ![s] = Absent, ![t] = d] BY <1>3
<1> HIDE DEF Live
<1>6. Api!Move(s, t) BY <1>4, <1>5 DEF Api!Move, Api!Own, Api!Nobody, Api!Absent
<1> QED BY <1>6 DEF ApiStep, Api!Next

\* The two ids of a move.
LEMMA RegenIds ==
  ASSUME IInv, NEW r \in Requests, Regenerates(req[r])
  PROVE  LET q == req[r] IN
         /\ q.old \in Sids /\ q.new \in Sids /\ q.old # q.new /\ q.who # "nobody"
         /\ owner[q.old] = q.who /\ owner[q.new] = q.who
         /\ store[q.old] \in {Absent, Raw, Empty, q.who}
         /\ q.seen \in {Absent, Raw, Empty, q.who}
<1> DEFINE q == req[r]
<1>1. q \in Req /\ q.at # "idle" /\ ReqOk(q, owner, Provider.regen) BY Mine1 DEF Regenerates
<1>2. /\ q.old # NoSid /\ q.old # Keep /\ q.old \in Uses(q)
      /\ q.new # NoSid /\ q.new # Keep /\ q.old # q.new
  BY <1>1, SessionAssumption DEF ReqOk, Req, Uses, Ids, Sids
<1>3. q.old \in Sids /\ owner[q.old] = q.who /\ owner[q.old] # "nobody" BY <1>1, <1>2, UsedOwned
<1>4. q.new \in Sids /\ owner[q.new] = q.who BY <1>1, <1>2, UsedOwned
<1>5. store[q.old] \in {Absent, Raw, Empty, q.who} BY <1>3, StoredOwn
<1>6. q.seen \in {Absent, Raw, Empty, q.who} BY <1>1 DEF ReqOk
<1> QED BY <1>2, <1>3, <1>4, <1>5, <1>6

\* SessionRegenerate: its first call of the store.
LEMMA RegenLookMaps ==
  ASSUME IInv, NEW r \in Requests, RegenLook(r)
  PROVE  ApiStep
<1> DEFINE q == req[r]
<1>1. /\ q.at = "regen" /\ UNCHANGED <<kind, owner>>
      /\ \/ store' = store
         \/ store' = Saved(Store.save, q)
         \/ store' = Put(q.new, Raw)
         \/ store' = Put(q.old, Raw)
         \/ /\ Provider.regen = "atomic"
            /\ store' = [store EXCEPT ![q.new] = IF store[q.old] # Absent THEN store[q.old] ELSE Raw,
                                      ![q.old] = Absent]
  BY DEF RegenLook, Same, Released
<1>2. IInv' /\ HandsStay BY <1>1, RegenLookKeeps, HandsStayed
<1>3. /\ q.old \in Sids /\ q.new \in Sids /\ q.old # q.new /\ q.who # "nobody"
      /\ owner[q.old] = q.who /\ owner[q.new] = q.who
      /\ store[q.old] \in {Absent, Raw, Empty, q.who}
  BY <1>1, RegenIds DEF Regenerates
<1>4. CASE /\ Provider.regen = "atomic"
           /\ store' = [store EXCEPT ![q.new] = IF store[q.old] # Absent THEN store[q.old] ELSE Raw,
                                     ![q.old] = Absent]
  <2>1. PICK d : d = IF store[q.old] # Absent THEN store[q.old] ELSE Raw OBVIOUS
  <2> QED BY <1>1, <1>2, <1>3, <1>4, <2>1, MoveMaps
<1> QED BY <1>1, <1>2, <1>3, <1>4, UnchangedMaps, SavedMaps, WriteMaps DEF Put

\* SessionRegenerate: GET of the new key, or SETX of it.
LEMMA RegenTakeMaps ==
  ASSUME IInv, NEW r \in Requests, RegenTake(r)
  PROVE  ApiStep
<1> DEFINE q == req[r]
<1>1. q.at = "take" /\ UNCHANGED <<kind, owner>> BY DEF RegenTake, Same
<1>2. IInv' /\ Others(r) /\ HandsOff(r) BY RegenTakeKeeps
<1>3. /\ q.new \in Sids /\ owner[q.new] = q.who /\ q.who # "nobody"
      /\ q.seen \in {Absent, Raw, Empty, q.who}
  BY <1>1, RegenIds DEF Regenerates
<1>4. q.seen \in {Absent, Raw} \/ Provider.regen # "copy" => ApiStep
  <2> SUFFICES ASSUME q.seen \in {Absent, Raw} \/ Provider.regen # "copy" PROVE ApiStep OBVIOUS
  <2>1. HandsStay BY <1>1, <1>2, HandsStayed
  <2>2. PICK d : d \in {Raw, Empty, q.who} /\ store' \in {store, Put(q.new, d)}
    BY <1>3 DEF RegenTake
  <2> QED BY <1>1, <1>2, <1>3, <2>1, <2>2, WriteMaps DEF Put
<1>5. CASE Provider.regen = "copy" /\ q.seen \notin {Absent, Raw}
  <2>1. InHand(r, q.new) BY <1>1, <1>5 DEF InHand
  <2>2. store' = Put(q.new, q.seen) BY <1>5 DEF RegenTake
  <2>3. \A p \in Requests \ {r} : \A s \in Sids :
          (InHand(p, s)' <=> InHand(p, s)) /\ req'[p].seen = req[p].seen
    BY <1>1, <1>2, OthersHands
  <2>4. \A s \in Sids : ~InHand(r, s)' BY <1>2 DEF HandsOff, InHand
  <2>5. \A p \in Requests \ {r} : ~InHand(p, q.new)
    BY <2>1 DEF IInv, PrivateInv, Private, Regenerates, InHand
  <2>6. \A s \in Sids : LiveAt(s) /\ LiveAt(s)' BY <1>2, LiveIs, LiveIsNext
  <2>7. Live'[q.new] = Live[q.new]
    <3>1. Live[q.new] = q.seen BY <1>3, <2>1, <2>6 DEF LiveAt
    <3>2. Live'[q.new] = store'[q.new] BY <1>3, <2>3, <2>4, <2>5, <2>6 DEF LiveAt
    <3> QED BY <1>3, <2>2, <3>1, <3>2 DEF Put, IInv, Types
  <2>8. ASSUME NEW s \in Sids \ {q.new} PROVE Live'[s] = Live[s]
    <3>1. ~InHand(r, s) BY DEF InHand
    <3>2. store'[s] = store[s] BY <1>3, <2>2 DEF Put, IInv, Types
    <3>3. CASE \E p \in Requests : InHand(p, s) BY <2>3, <2>6, <3>1, <3>3 DEF LiveAt
    <3>4. CASE ~\E p \in Requests : InHand(p, s) BY <2>3, <2>4, <2>6, <3>2, <3>4 DEF LiveAt
    <3> QED BY <3>3, <3>4
  <2>9. Live = [s \in Sids |-> Live[s]] /\ Live' = [s \in Sids |-> Live'[s]] BY DEF Live
  <2> HIDE DEF Live
  <2>10. Live' = Live BY <2>7, <2>8, <2>9
  <2> QED BY <1>1, <2>10 DEF ApiStep
<1> QED BY <1>4, <1>5

\* The deferred SessionRelease, and what the browser keeps of the answer.
LEMMA EndMaps ==
  ASSUME IInv, NEW r \in Requests, End(r)
  PROVE  ApiStep
<1> DEFINE q == req[r]
<1>1. /\ q.at = "handler" /\ kind' = kind
      /\ \/ owner' = owner /\ (store' = store \/ store' = Saved(Store.save, q))
         \/ /\ Unused # {} /\ owner' = [owner EXCEPT ![NewSid] = q.who]
            /\ store' = Put(NewSid, q.val)
  BY DEF End, Same, Released, EncodedCookie
<1>2. IInv' /\ HandsStay BY <1>1, EndKeeps, HandsStayed
<1>3. CASE /\ Unused # {} /\ owner' = [owner EXCEPT ![NewSid] = q.who]
           /\ store' = Put(NewSid, q.val)
  <2>1. PICK s : s = NewSid OBVIOUS
  <2>2. s \in Sids /\ Free(s) /\ q.who \in Browsers /\ q.val \in {Raw, Empty, q.who}
    BY <1>1, <1>3, <2>1, NewSidFree, Mine1 DEF ReqOk
  <2> QED BY <1>2, <1>3, <2>1, <2>2, IssueMaps DEF Put
<1> QED BY <1>1, <1>2, <1>3, UnchangedMaps, SavedMaps

\* The store forgets a session.
LEMMA ExpireMaps ==
  ASSUME IInv, NEW s \in Sids, Expire(s)
  PROVE  ApiStep
<1>1. UNCHANGED <<kind, owner>> /\ store' = [store EXCEPT ![s] = Absent] BY DEF Expire, Same, Put
<1>2. \A p \in Requests : Twin(req'[p], req[p]) BY DEF Expire, Twin
<1>3. \A p \in Requests : SameBut(req'[p], req[p], {"plain"}) BY <1>2, TwinOk DEF IInv, Types
<1>4. \A p \in Requests : /\ req'[p].at = req[p].at /\ req'[p].new = req[p].new
                          /\ req'[p].seen = req[p].seen
  BY <1>3 DEF SameBut, Fields
<1>5. HandsStay BY <1>1, <1>4, SameProvider DEF HandsStay, InHand
<1> QED BY <1>1, <1>5, ExpireKeeps, WriteMaps

\* SessionRegenerate: RENAME, UPDATE of the key, or DEL.
LEMMA RegenMoveMaps ==
  ASSUME IInv, NEW r \in Requests, RegenMove(r)
  PROVE  ApiStep
<1> DEFINE q == req[r]
<1>1. q.at = "move" /\ UNCHANGED <<kind, owner>> BY DEF RegenMove, Same
<1>2. IInv' /\ Others(r) BY RegenMoveKeeps
<1>3. /\ q.old \in Sids /\ q.new \in Sids /\ q.old # q.new /\ q.who # "nobody"
      /\ owner[q.old] = q.who /\ owner[q.new] = q.who
      /\ store[q.old] \in {Absent, Raw, Empty, q.who} /\ q.seen \in {Absent, Raw, Empty, q.who}
  BY <1>1, RegenIds DEF Regenerates
<1>4. q \in Req /\ ReqOk(q, owner, Provider.regen) BY Mine1
<1>5. CASE Provider.regen # "copy"
  <2>1. HandsStay BY <1>1, <1>5, SameProvider DEF HandsStay, InHand
  <2>2. \/ store' = store
        \/ store' = Put(q.new, Raw)
        \/ /\ store[q.old] # Absent
           /\ store' = [store EXCEPT ![q.new] = store[q.old], ![q.old] = Absent]
    BY <1>1, <1>4, <1>5 DEF RegenMove, Renamed, ReqOk
  <2>3. CASE store' \in {store, Put(q.new, Raw)}
    BY <1>1, <1>2, <1>3, <2>1, <2>3, WriteMaps DEF Put
  <2>4. CASE /\ store[q.old] # Absent
             /\ store' = [store EXCEPT ![q.new] = store[q.old], ![q.old] = Absent]
    <3>1. PICK d : d = store[q.old] OBVIOUS
    <3> QED BY <1>1, <1>2, <1>3, <1>5, <2>4, <3>1, MoveMaps
  <2> QED BY <2>2, <2>3, <2>4
<1>6. CASE Provider.regen = "copy"
  <2>1. /\ store' = Put(q.old, Absent) /\ req'[r] = Going(q, "take")
        /\ q.seen \notin {Absent, Raw}
    BY <1>1, <1>4, <1>6 DEF RegenMove, Going, ReqOk, IInv, Types
  <2>2. SameBut(req'[r], q, {"at"}) /\ req'[r].at = "take" BY <1>4, <2>1, GoingOk DEF Places
  <2>3. req'[r].new = q.new /\ req'[r].seen = q.seen BY <2>2 DEF SameBut, Fields
  <2>4. \A s \in Sids : InHand(r, s)' <=> s = q.new
    BY <1>1, <1>6, <2>1, <2>2, <2>3, SameProvider DEF InHand
  <2>5. \A p \in Requests \ {r} : \A s \in Sids :
          (InHand(p, s)' <=> InHand(p, s)) /\ req'[p].seen = req[p].seen
    BY <1>1, <1>2, OthersHands
  <2>6. \A s \in Sids : LiveAt(s) /\ LiveAt(s)' BY <1>2, LiveIs, LiveIsNext
  <2>7. \A s \in Sids : ~InHand(r, s) BY <1>1 DEF InHand
  <2>8. \A p \in Requests : ~InHand(p, q.old)
    BY DEF IInv, PrivateInv, Private, Regenerates, InHand, Uses
  <2>9. Live'[q.new] = q.seen BY <1>3, <2>3, <2>4, <2>6 DEF LiveAt
  <2>10. Live'[q.old] = Absent
    <3>1. Live'[q.old] = store'[q.old] BY <1>3, <2>4, <2>5, <2>6, <2>8 DEF LiveAt
    <3> QED BY <1>3, <2>1, <3>1 DEF Put, IInv, Types
  <2>11. ASSUME NEW s \in Sids \ {q.old, q.new} PROVE Live'[s] = Live[s]
    <3>1. store'[s] = store[s] BY <1>3, <2>1 DEF Put, IInv, Types
    <3>2. CASE \E p \in Requests : InHand(p, s) BY <2>5, <2>6, <2>7, <3>2 DEF LiveAt
    <3>3. CASE ~\E p \in Requests : InHand(p, s) BY <2>4, <2>5, <2>6, <3>1, <3>3 DEF LiveAt
    <3> QED BY <3>2, <3>3
  <2>12. Live = [s \in Sids |-> Live[s]] /\ Live' = [s \in Sids |-> Live'[s]] BY DEF Live
  <2> HIDE DEF Live
  <2>13. Live' = [Live EXCEPT ![q.old] = Absent, ![q.new] = q.seen]
    BY <1>3, <2>9, <2>10, <2>11, <2>12
  <2>14. Api!Move(q.old, q.new)
    BY <1>1, <1>3, <2>1, <2>13 DEF Api!Move, Api!Own, Api!Nobody, Api!Absent
  <2> QED BY <1>3, <2>14 DEF ApiStep, Api!Next
<1> QED BY <1>5, <1>6

\* Every step.
LEMMA NextMaps ==
  ASSUME IInv, [Next]_vars
  PROVE  ApiStep
<1>1. CASE UNCHANGED vars
  <2>1. UNCHANGED <<kind, owner, store, req>> BY <1>1 DEF vars
  <2>2. Live' = Live BY <2>1, SameProvider DEF Live, InHand
  <2> QED BY <2>1, <2>2 DEF ApiStep
<1> QED BY <1>1, BeginMaps, StartReadMaps, SetSessionMaps, RenderMaps, DestroySessionMaps,
           ReleaseIfPresentMaps, RegenerateIDMaps, AskProviderMaps, RegenLookMaps,
           RegenMoveMaps, RegenTakeMaps, EndMaps, ExpireMaps DEF Next

\* The initial states.
LEMMA InitMaps ==
  ASSUME Init
  PROVE  Api!Init
<1>1. \A r \in Requests, s \in Sids : ~InHand(r, s) BY DEF Init, InHand, Fresh
<1>2. Live = [s \in Sids |-> Absent] BY <1>1 DEF Live, Init
<1> QED BY <1>2 DEF Init, Api!Init, Api!Absent, Api!Nobody

\* The session package implements SessionApi: the providers' several calls of
\* their stores (SessionRead, SessionRelease, SessionRegenerate) issue ids,
\* write values of an id's owner under it and drop sessions, and nothing else.
THEOREM Refinement == Spec => ImplementsApi
<1>1. IInv /\ [Next]_vars => [Api!Next]_<<Live, owner>> BY NextMaps DEF ApiStep
<1> QED BY <1>1, Invariance, InitMaps, PTL DEF Spec, ImplementsApi, Api!Spec

-----------------------------------------------------------------------------
(* SessionsSound: requests that run by themselves, and destroyed ids.       *)

\* Nothing that works with a destroyed id can bring it back, but those of late.
GoneAt(q, s) == (q.inCtx => q.sid # s) /\ (q.at = "read" => q.old # s)
GoneInv ==
  /\ kind = "cookie" => gone = {}
  /\ \A s \in gone \ late : store[s] = Absent /\ \A r \in Requests : GoneAt(req[r], s)

\* A browser of a request that runs by itself has no other.
AloneInv ==
  \A r, p \in Requests :
    req[r].plain /\ req[r].at # "idle" /\ p # r => req[p].who # req[r].who

\* Continuity, also while a request of the browser is about to read.
CalmAt(b) ==
  (\A r \in Requests : req[r].who = b => req[r].at = "read") /\ calm[b] # "unknown" =>
    calm[b] = IF jar[b] = NoSid THEN Empty ELSE Decoded(store[jar[b]])
CalmInv == \A b \in Browsers : CalmAt(b)

\* What holds of a request q that runs by itself, when its browser has the id j,
\* the store is st, gn are the destroyed ids, and the provider of kind k is pr
\* and saves by sv.  The browser will have the id of its session, and the
\* store still has what is to be updated, or all of it after the last release;
Stay(q, j, st, pr, sv) ==
  /\ q.at = "read" => q.out = Keep /\ j = q.old /\ (st[q.old] = Raw => pr.hasRaw)
  /\ q.at # "read" /\ q.inCtx => /\ q.sid = IF q.out = Keep THEN j ELSE q.out
                                 /\ sv = "update" => st[q.sid] # Absent
  /\ q.at = "handler" /\ q.inCtx /\ q.shut => q.val = Decoded(st[q.sid])
  /\ q.at = "move" /\ pr.regen = "rekey" => st[q.old] # Absent

\* if its session is that of the first cookie, it has it until it destroys it,
\* with the values that are stored until it uses them;
Val(q, st, gn, k, pr) ==
  FirstCookie(q) = q.sid /\ q.at # "read" =>
    /\ ~q.inCtx /\ k # "cookie" => q.sid \in gn
    /\ q.at = "handler" /\ ~q.inCtl /\ k # "cookie" => q.val = Decoded(st[q.sid])
    /\ q.at \in {"handler", "ask"} /\ st[q.sid] = Raw => pr.hasRaw

\* and this is where the values are while it moves that session.
Carried(q, st, gn, k, pr) ==
  /\ q.at = "ask" => q.own = q.sid
  /\ q.own = FirstCookie(q) /\ q.own \notin gn /\ k # "cookie" =>
       /\ q.at \in {"ask", "regen"} => /\ q.before = Decoded(st[q.own])
                                       /\ st[q.own] = Raw => pr.hasRaw
       /\ q.at = "move" => /\ q.before = Decoded(q.seen)
                           /\ pr.regen = "rename" => q.seen = st[q.old]
       /\ q.at = "take" => /\ st[q.old] = Absent
                           /\ q.before = Decoded(IF pr.regen = "rename" THEN st[q.new] ELSE q.seen)
       /\ q.done /\ k # "ledis" => q.got = q.before /\ st[q.old] = Absent

PlainOk(q, j, st, gn, k, pr, sv) ==
  q.plain /\ q.at # "idle" =>
    Stay(q, j, st, pr, sv) /\ Val(q, st, gn, k, pr) /\ Carried(q, st, gn, k, pr)
PlainInv ==
  \A r \in Requests : PlainOk(req[r], jar[req[r].who], store, gone, kind, Provider, Store.save)

SInv == IInv /\ GoneInv /\ AloneInv /\ CalmInv /\ PlainInv

\* A value that a browser put there is read as it is.
LEMMA DecodedOwn ==
  ASSUME NEW b \in Browsers, NEW v \in {Empty, b}
  PROVE  Decoded(v) = v /\ v \notin {Absent, Raw}
<1> QED BY SessionAssumption DEF Decoded

\* A request notices nothing of writes under ids that it does not refer to.
LEMMA PlainKept ==
  ASSUME NEW q \in Req, NEW p, Twin(p, q), NEW o, NEW k, NEW pr, NEW sv, ReqOk(q, o, pr.regen),
         NEW j, NEW st, NEW st2, NEW gn, NEW gn2, gn \subseteq gn2,
         \A s \in (Uses(q) \cup {q.new, q.own}) \cap Sids : st2[s] = st[s],
         PlainOk(q, j, st, gn, k, pr, sv)
  PROVE  PlainOk(p, j, st2, gn2, k, pr, sv)
<1> SUFFICES ASSUME p.plain, p.at # "idle"
             PROVE  /\ Stay(p, j, st2, pr, sv) /\ Val(p, st2, gn2, k, pr)
                    /\ Carried(p, st2, gn2, k, pr)
  BY DEF PlainOk
<1>1. p = q /\ q.plain /\ q.at # "idle" BY TwinOk
<1>2. Stay(q, j, st, pr, sv) /\ Val(q, st, gn, k, pr) /\ Carried(q, st, gn, k, pr)
  BY <1>1 DEF PlainOk
<1>3. /\ q.old # NoSid => st2[q.old] = st[q.old]
      /\ q.sid # NoSid => st2[q.sid] = st[q.sid]
      /\ q.new # NoSid => st2[q.new] = st[q.new]
      /\ q.own # NoSid => st2[q.own] = st[q.own]
  BY DEF Req, Ids, Uses
<1>4. /\ q.at = "read" => q.old # NoSid
      /\ q.at # "read" => q.sid # NoSid
      /\ Regenerates(q) => q.old # NoSid /\ q.new # NoSid /\ FirstCookie(q) = q.old
      /\ q.done => q.old # NoSid
  BY <1>1 DEF ReqOk
<1>5. Stay(q, j, st2, pr, sv) BY <1>2, <1>3, <1>4 DEF Stay, Regenerates
<1>6. Val(q, st2, gn2, k, pr) BY <1>1, <1>2, <1>3, <1>4 DEF Val
<1>7. Carried(q, st2, gn2, k, pr) BY <1>1, <1>2, <1>3, <1>4 DEF Carried, Regenerates
<1> QED BY <1>1, <1>5, <1>6, <1>7

\* What a request of the browser w does to the rest.
Acts(w) ==
  /\ w \in Browsers
  /\ \A b \in Browsers \ {w} : jar'[b] = jar[b] /\ calm'[b] = calm[b]
  /\ \A s \in Sids : owner'[s] # w => store'[s] = store[s]
  /\ gone \subseteq gone'

\* A step that destroys nothing.
LEMMA GoneKept ==
  ASSUME IInv, GoneInv, NEW r \in Requests, Others(r), kind' = kind, gone' = gone,
         late \subseteq late',
         \A s \in gone \ late' : store'[s] = Absent /\ GoneAt(req'[r], s)
  PROVE  GoneInv'
<1>1. ASSUME NEW s \in gone \ late', NEW p \in Requests PROVE GoneAt(req'[p], s)
  <2>1. CASE p = r BY <2>1
  <2>2. CASE p # r
    <3>1. GoneAt(req[p], s) BY DEF GoneInv
    <3>2. SameBut(req'[p], req[p], {"plain"}) BY <2>2, TwinOk DEF Others, IInv, Types
    <3>3. /\ req'[p].inCtx = req[p].inCtx /\ req'[p].sid = req[p].sid
          /\ req'[p].at = req[p].at /\ req'[p].old = req[p].old
      BY <3>2 DEF SameBut, Fields
    <3> QED BY <3>1, <3>3 DEF GoneAt
  <2> QED BY <2>1, <2>2
<1>2. \A s \in gone' \ late' : store'[s] = Absent /\ \A p \in Requests : GoneAt(req'[p], s)
  BY <1>1
<1>3. kind' = "cookie" => gone' = {} BY DEF GoneInv
<1> QED BY <1>2, <1>3 DEF GoneInv, GoneAt

\* A step for the browser w; requests of other browsers have nothing to do with it.
LEMMA SoundStep ==
  ASSUME SInv, IInv', NEW r \in Requests, Grows, Others(r), NEW w, Acts(w),
         \A p \in Requests \ {r} : req[p].who = w => ~req'[p].plain,
         req[r].who \in {w, "nobody"}, req'[r].at = "idle" \/ req'[r].who = w,
         req'[r].plain => req'[r].at = "idle" \/ \A p \in Requests \ {r} : req[p].who # w,
         (req'[r].who = w /\ req'[r].at # "read") \/ CalmAt(w)',
         PlainOk(req'[r], jar'[req'[r].who], store', gone', kind, Provider, Store.save),
         GoneInv'
  PROVE  SInv'
<1>1. kind' = kind /\ Provider' = Provider /\ Store' = Store BY SameProvider DEF Grows
<1>2. ASSUME NEW p \in Requests \ {r}
      PROVE  /\ req[p] \in Req /\ Twin(req'[p], req[p]) /\ req'[p].who = req[p].who
             /\ req'[p].at = req[p].at /\ (req'[p].plain => req[p].plain)
             /\ ReqOk(req[p], owner, Provider.regen) /\ ReqOk(req[p], owner', Provider.regen)
             /\ (req[p].at # "idle" => req[p].who \in Browsers)
             /\ (req[p].at = "idle" => req[p].who = "nobody")
  <2>1. Twin(req'[p], req[p]) BY DEF Others
  <2>2. SameBut(req'[p], req[p], {"plain"}) /\ (req'[p].plain => req[p].plain)
    BY <2>1, TwinOk, Mine1 DEF SInv
  <2> QED BY <2>1, <2>2, Mine1 DEF SameBut, Fields, SInv, ReqOk
<1>3. w \in Browsers /\ w # "nobody" BY SessionAssumption DEF Acts
<1>4. \A p \in Requests : req'[p].at = "idle" => req'[p].who = "nobody"
  BY DEF IInv, ReqsOk, ReqOk
<1>5. AloneInv'
  <2> SUFFICES ASSUME NEW x \in Requests, NEW p \in Requests, req'[x].plain,
                      req'[x].at # "idle", p # x
               PROVE  req'[p].who # req'[x].who
    BY DEF AloneInv
  <2>1. CASE x = r BY <1>2, <2>1
  <2>2. CASE x # r /\ p # r BY <1>2, <2>2 DEF SInv, AloneInv
  <2>3. CASE x # r /\ p = r
    <3>1. req'[x].who # w BY <1>2, <2>3
    <3>2. req'[x].who \in Browsers BY <1>2, <2>3
    <3> QED BY <1>4, <2>3, <3>1, <3>2, SessionAssumption
  <2> QED BY <2>1, <2>2, <2>3
<1>6. CalmInv'
  <2> SUFFICES ASSUME NEW b \in Browsers PROVE CalmAt(b)' BY DEF CalmInv
  <2>1. CASE b = w BY <1>3, <2>1 DEF CalmAt
  <2>2. CASE b # w
    <3>1. jar'[b] = jar[b] /\ calm'[b] = calm[b] BY <2>2 DEF Acts
    <3>2. jar[b] # NoSid => store'[jar[b]] = store[jar[b]]
      <4>1. jar[b] \in Mine(b, owner) /\ jar[b] # Keep
        BY SessionAssumption DEF SInv, IInv, JarOk, Types, Ids, Sids
      <4>2. jar[b] # NoSid => jar[b] \in Sids /\ owner[jar[b]] = b BY <4>1 DEF Mine
      <4>3. jar[b] # NoSid => owner'[jar[b]] = b BY <4>2, SessionAssumption DEF Grows
      <4> QED BY <2>2, <4>2, <4>3 DEF Acts
    <3>3. (\A p \in Requests : req'[p].who = b => req'[p].at = "read")
            => \A p \in Requests : req[p].who = b => req[p].at = "read"
      <4> SUFFICES ASSUME \A p \in Requests : req'[p].who = b => req'[p].at = "read",
                          NEW p \in Requests, req[p].who = b
                   PROVE  req[p].at = "read"
        OBVIOUS
      <4>1. CASE p # r BY <1>2, <4>1
      <4>2. p # r BY <2>2, SessionAssumption
      <4> QED BY <4>1, <4>2
    <3>4. CalmAt(b) BY DEF SInv, CalmInv
    <3> QED BY <3>1, <3>2, <3>3, <3>4 DEF CalmAt
  <2> QED BY <2>1, <2>2
<1>7. PlainInv'
  <2> SUFFICES ASSUME NEW p \in Requests
               PROVE  PlainOk(req'[p], jar'[req'[p].who], store', gone', kind, Provider, Store.save)
    BY <1>1 DEF PlainInv, PlainOk, Stay, Val, Carried, FirstCookie
  <2>1. CASE p = r BY <2>1
  <2>2. CASE p # r /\ (req[p].at = "idle" \/ req[p].who = w)
    <3>1. ~req'[p].plain \/ req'[p].at = "idle" BY <1>2, <2>2
    <3> QED BY <3>1 DEF PlainOk
  <2>3. CASE p # r /\ req[p].at # "idle" /\ req[p].who # w
    <3>1. PICK q : q = req[p] OBVIOUS
    <3>2. /\ q \in Req /\ Twin(req'[p], q) /\ req'[p].who = q.who /\ q.who \in Browsers
          /\ ReqOk(q, owner', Provider.regen)
      BY <1>2, <2>3, <3>1
    <3>3. \A s \in (Uses(q) \cup {q.new, q.own}) \cap Sids : store'[s] = store[s]
      <4>1. Uses(q) \cup {q.new, q.own} \subseteq Mine(q.who, owner')
        BY <2>3, <3>1, <3>2 DEF ReqOk
      <4>2. \A s \in Mine(q.who, owner') \cap Sids : owner'[s] = q.who
        BY SessionAssumption DEF Mine, Sids
      <4> QED BY <2>3, <3>1, <4>1, <4>2 DEF Acts
    <3>4. jar'[q.who] = jar[q.who] /\ gone \subseteq gone' BY <2>3, <3>1, <3>2 DEF Acts
    <3>5. PlainOk(q, jar[q.who], store, gone, kind, Provider, Store.save)
      BY <3>1 DEF SInv, PlainInv
    <3>6. PICK k, pr, sv : k = kind /\ pr = Provider /\ sv = Store.save OBVIOUS
    <3>7. PICK j, o : j = jar[q.who] /\ o = owner' OBVIOUS
    <3>8. ReqOk(q, o, pr.regen) /\ PlainOk(q, j, store, gone, k, pr, sv)
      BY <3>2, <3>5, <3>6, <3>7
    <3>9. PlainOk(req'[p], j, store', gone', k, pr, sv) BY SMTT(60), <3>2, <3>3, <3>4, <3>8, PlainKept
    <3> QED BY <3>2, <3>4, <3>6, <3>7, <3>9
  <2> QED BY <2>1, <2>2, <2>3
<1> QED BY <1>1, <1>5, <1>6, <1>7 DEF SInv

\* A step of a request that goes on,
LEMMA Continues ==
  ASSUME SInv, IInv', NEW r \in Requests, req[r].at # "idle", Grows, Others(r),
         UNCHANGED <<jar, calm>>, gone \subseteq gone',
         \A s \in Sids : owner'[s] # req[r].who => store'[s] = store[s],
         NEW f, req'[r] = f, f.who = req[r].who, f.at # "read", f.plain => req[r].plain,
         PlainOk(f, jar[f.who], store', gone', kind, Provider, Store.save), GoneInv'
  PROVE  SInv'
<1>1. PICK w : w = req[r].who OBVIOUS
<1>2. w \in Browsers BY <1>1, Mine1 DEF SInv
<1>3. Acts(w) BY <1>1, <1>2 DEF Acts
<1>4. PlainOk(req'[r], jar'[req'[r].who], store', gone', kind, Provider, Store.save) OBVIOUS
<1>5. \A p \in Requests \ {r} : req[p].who = w => ~req'[p].plain
  <2> SUFFICES ASSUME NEW p \in Requests \ {r}, req[p].who = w, req'[p].plain PROVE FALSE
    OBVIOUS
  <2>1. req[p].plain BY TwinOk, Mine1 DEF Others, SInv
  <2>2. req[p].at # "idle" BY <1>2, Mine1, SessionAssumption DEF SInv, ReqOk
  <2> QED BY <1>1, <2>1, <2>2 DEF SInv, AloneInv
<1>6. req'[r].plain => \A p \in Requests \ {r} : req[p].who # w BY <1>1 DEF SInv, AloneInv
<1>7. req[r].who \in {w, "nobody"} /\ req'[r].who = w /\ req'[r].at # "read" BY <1>1
<1> QED BY <1>3, <1>4, <1>5, <1>6, <1>7, SoundStep

\* and of one that ends.
LEMMA Ends ==
  ASSUME SInv, IInv', NEW r \in Requests, req[r].at # "idle", Grows, Others(r),
         req'[r] = Fresh, NEW w, w = req[r].who, Acts(w), CalmAt(w)', GoneInv'
  PROVE  SInv'
<1>1. Fresh.at = "idle" BY DEF Fresh
<1>2. w \in Browsers BY DEF Acts
<1>3. PlainOk(req'[r], jar'[req'[r].who], store', gone', kind, Provider, Store.save)
  BY <1>1 DEF PlainOk
<1>4. \A p \in Requests \ {r} : req[p].who = w => ~req'[p].plain
  <2> SUFFICES ASSUME NEW p \in Requests \ {r}, req[p].who = w, req'[p].plain PROVE FALSE
    OBVIOUS
  <2>1. req[p].plain BY TwinOk, Mine1 DEF Others, SInv
  <2>2. req[p].at # "idle" BY <1>2, Mine1, SessionAssumption DEF SInv, ReqOk
  <2> QED BY <2>1, <2>2 DEF SInv, AloneInv
<1> QED BY <1>1, <1>3, <1>4, SoundStep

\* What a request that runs by itself knows.
LEMMA PlainKnows ==
  ASSUME SInv, NEW r \in Requests, req[r].at # "idle", req[r].plain
  PROVE  /\ Stay(req[r], jar[req[r].who], store, Provider, Store.save)
         /\ Val(req[r], store, gone, kind, Provider) /\ Carried(req[r], store, gone, kind, Provider)
<1> QED BY DEF SInv, PlainInv, PlainOk

\* The request ends, and nothing is said of what its browser finds.
LEMMA EndsUnknown ==
  ASSUME SInv, IInv', NEW r \in Requests, req[r].at # "idle", Grows, Others(r), Gone(r, "unknown"),
         UNCHANGED <<gone, late>>,
         \A s \in Sids : owner'[s] # req[r].who => store'[s] = store[s],
         \A s \in gone \ late : store'[s] = Absent
  PROVE  SInv'
<1>1. PICK w : w = req[r].who OBVIOUS
<1>2. w \in Browsers BY <1>1, Mine1 DEF SInv
<1>3. calm'[w] = "unknown" BY <1>1, <1>2 DEF Gone, SInv, IInv, Types
<1>4. Acts(w) BY <1>1, <1>2 DEF Acts, Gone
<1>5. req'[r] = Fresh BY DEF Gone, SInv, IInv, Types
<1>6. CalmAt(w)' BY <1>3 DEF CalmAt
<1>7. GoneInv'
  <2>1. \A s : GoneAt(Fresh, s) BY DEF GoneAt, Fresh
  <2> QED BY <1>5, <2>1, GoneKept DEF SInv, Grows
<1> QED BY <1>1, <1>4, <1>5, <1>6, <1>7, Ends

\* SetSession puts a value into the object of the request, or panics.
LEMMA SetSessionSound ==
  ASSUME SInv, NEW r \in Requests, SetSession(r)
  PROVE  SInv'
<1> DEFINE q == req[r]
<1>1. q.at = "handler" /\ Grows /\ UNCHANGED <<owner, store, gone, late>>
  BY SameGrows DEF SetSession, Same, Handles, SInv
<1>2. q \in Req /\ q.who \in Browsers /\ ReqOk(q, owner, Provider.regen) BY <1>1, Mine1 DEF SInv
<1>3. IInv' /\ Others(r) BY SetSessionKeeps DEF SInv
<1>4. CASE q.inCtl \/ q.inCtx
  <2>1. PICK f : /\ f = Setting(q)
                 /\ req' = [req EXCEPT ![r] = f] /\ UNCHANGED <<jar, calm>>
    BY <1>4 DEF SetSession, Setting
  <2>2. /\ SameBut(f, q, {"inCtl", "val", "plain", "calls"}) /\ f.inCtl /\ f.val = q.who
        /\ (f.plain => q.plain /\ ~q.shut)
    BY <1>2, <2>1, SettingOk
  <2>3. FirstCookie(f) = FirstCookie(q) BY <2>2, SameUses
  <2>4. /\ f.who = q.who /\ f.at = "handler" /\ f.sid = q.sid /\ f.out = q.out /\ f.old = q.old
        /\ f.own = q.own /\ f.inCtx = q.inCtx /\ f.done = q.done /\ f.shut = q.shut
        /\ f.got = q.got /\ f.before = q.before
    BY <1>1, <2>2 DEF SameBut, Fields
  <2>5. req'[r] = f BY <2>1 DEF SInv, IInv, Types
  <2>6. GoneInv'
    <3>1. \A s \in gone \ late : store[s] = Absent /\ GoneAt(q, s) BY DEF SInv, GoneInv
    <3> QED BY <1>1, <1>3, <2>4, <2>5, <3>1, GoneKept DEF SInv, GoneAt, Grows
  <2>7. PlainOk(f, jar[f.who], store', gone', kind, Provider, Store.save)
    <3>1. SUFFICES ASSUME q.plain, ~f.shut
                   PROVE  /\ Stay(f, jar[q.who], store, Provider, Store.save)
                          /\ Val(f, store, gone, kind, Provider)
                          /\ Carried(f, store, gone, kind, Provider)
      BY <1>1, <2>2, <2>4 DEF PlainOk
    <3>2. /\ Stay(q, jar[q.who], store, Provider, Store.save)
          /\ Val(q, store, gone, kind, Provider) /\ Carried(q, store, gone, kind, Provider)
      BY <1>1, <3>1, PlainKnows
    <3>3. Stay(f, jar[q.who], store, Provider, Store.save) BY <1>1, <2>4, <3>1, <3>2 DEF Stay
    <3>4. Val(f, store, gone, kind, Provider) BY <1>1, <2>2, <2>3, <2>4, <3>2 DEF Val
    <3>5. Carried(f, store, gone, kind, Provider) BY <1>1, <2>3, <2>4, <3>2 DEF Carried
    <3> QED BY <3>3, <3>4, <3>5
  <2> QED BY <1>1, <1>3, <2>1, <2>2, <2>4, <2>5, <2>6, <2>7, Continues
<1>5. CASE ~(q.inCtl \/ q.inCtx)
  <2>1. Gone(r, "unknown") BY <1>5 DEF SetSession
  <2> QED BY <1>1, <1>3, <2>1, EndsUnknown DEF SInv, GoneInv
<1> QED BY <1>4, <1>5

\* The header of the answer is written.
LEMMA RenderSound ==
  ASSUME SInv, NEW r \in Requests, Render(r)
  PROVE  SInv'
<1> DEFINE q == req[r]
<1>1. /\ q.at = "handler" /\ Grows /\ UNCHANGED <<owner, store, jar, calm, gone, late>>
  BY SameGrows DEF Render, Same, Quiet, SInv
<1>2. q \in Req BY Mine1 DEF SInv
<1>3. IInv' /\ Others(r) BY RenderKeeps DEF SInv
<1>4. PICK f : f = Rendering(q) /\ req' = [req EXCEPT ![r] = f] BY DEF Render, Rendering
<1>5. SameBut(f, q, {"sent"}) BY <1>2, <1>4, RenderingOk
<1>6. FirstCookie(f) = FirstCookie(q) BY <1>5, SameUses
<1>7. /\ f.who = q.who /\ f.at = "handler" /\ f.sid = q.sid /\ f.out = q.out /\ f.old = q.old
      /\ f.own = q.own /\ f.plain = q.plain /\ f.inCtx = q.inCtx /\ f.inCtl = q.inCtl
      /\ f.shut = q.shut /\ f.done = q.done /\ f.got = q.got /\ f.before = q.before /\ f.val = q.val
  BY <1>1, <1>5 DEF SameBut, Fields
<1>8. req'[r] = f BY <1>4 DEF SInv, IInv, Types
<1>9. GoneInv'
  <2>1. \A s \in gone \ late : store[s] = Absent /\ GoneAt(q, s) BY DEF SInv, GoneInv
  <2> QED BY <1>1, <1>3, <1>7, <1>8, <2>1, GoneKept DEF SInv, GoneAt, Grows
<1>10. PlainOk(f, jar[f.who], store', gone', kind, Provider, Store.save)
  <2>1. SUFFICES ASSUME q.plain
                 PROVE  /\ Stay(f, jar[q.who], store, Provider, Store.save)
                        /\ Val(f, store, gone, kind, Provider)
                        /\ Carried(f, store, gone, kind, Provider)
    BY <1>1, <1>7 DEF PlainOk
  <2>2. /\ Stay(q, jar[q.who], store, Provider, Store.save)
        /\ Val(q, store, gone, kind, Provider) /\ Carried(q, store, gone, kind, Provider)
    BY <1>1, <2>1, PlainKnows
  <2>3. Stay(f, jar[q.who], store, Provider, Store.save) BY <1>1, <1>7, <2>2 DEF Stay
  <2>4. Val(f, store, gone, kind, Provider) BY <1>1, <1>6, <1>7, <2>2 DEF Val
  <2>5. Carried(f, store, gone, kind, Provider) BY <1>1, <1>6, <1>7, <2>2 DEF Carried
  <2> QED BY <2>3, <2>4, <2>5
<1> QED BY <1>1, <1>3, <1>7, <1>8, <1>9, <1>10, Continues

\* What a request with a session saves, and where.
LEMMA SaveFacts ==
  ASSUME IInv, NEW r \in Requests, req[r].at \notin {"idle", "read"}, NEW q, q = req[r],
         NEW how, NEW st, st = Saved(how, q)
  PROVE  /\ q.sid \in Sids /\ owner[q.sid] = q.who /\ q.who \in Browsers
         /\ Decoded(q.val) = q.val /\ q.val \notin {Absent, Raw}
         /\ \A s \in Sids \ {q.sid} : st[s] = store[s]
         /\ st[q.sid] = IF q.shut \/ (how = "update" /\ store[q.sid] = Absent) THEN store[q.sid]
                        ELSE q.val
<1>1. q \in Req /\ q.who \in Browsers /\ ReqOk(q, owner, Provider.regen) BY Mine1
<1>2. q.sid # NoSid /\ q.sid # Keep /\ q.sid \in Uses(q)
  BY <1>1, SessionAssumption DEF ReqOk, Req, Uses, Ids, Sids
<1>3. q.sid \in Sids /\ owner[q.sid] = q.who BY <1>2, UsedOwned
<1>4. q.val \in {Empty, q.who} BY <1>1 DEF ReqOk
<1>5. store \in [Sids -> Data] BY DEF IInv, Types
<1>6. Decoded(q.val) = q.val /\ q.val \notin {Absent, Raw} BY <1>1, <1>4, DecodedOwn
<1> QED BY <1>1, <1>3, <1>5, <1>6 DEF Saved, Put

\* SessionReleaseIfPresent in the middle of a handler.
LEMMA ReleaseIfPresentSound ==
  ASSUME SInv, NEW r \in Requests, ReleaseIfPresent(r)
  PROVE  SInv'
<1> DEFINE q == req[r]
<1>1. /\ q.at = "handler" /\ q.inCtl /\ kind # "cookie" /\ Grows
      /\ UNCHANGED <<owner, jar, calm, gone>> /\ store' = Saved(Store.ifPresent, q)
      /\ late' = IF Store.ifPresent = "upsert" THEN late \cup ({q.sid} \cap gone) ELSE late
  BY SameGrows DEF ReleaseIfPresent, Same, Handles, SInv
<1>2. q \in Req /\ ReqOk(q, owner, Provider.regen) BY Mine1 DEF SInv
<1>3. IInv' /\ Others(r) BY ReleaseIfPresentKeeps DEF SInv
<1>4. PICK c, f : c = Called(q) /\ f = Shut(c) /\ req' = [req EXCEPT ![r] = f]
  BY DEF ReleaseIfPresent
<1>5. SameBut(f, q, {"calls", "shut"}) /\ f.shut = Store.closes
  <2>1. SameBut(c, q, {"calls"}) /\ c \in Req BY <1>2, <1>4, CalledOk DEF SameBut
  <2>2. SameBut(f, c, {"shut"}) /\ f.shut = Store.closes BY <1>4, <2>1, ShutOk DEF SInv
  <2> QED BY <2>1, <2>2 DEF SameBut, Fields
<1>6. FirstCookie(f) = FirstCookie(q) BY <1>5, SameUses
<1>7. /\ f.who = q.who /\ f.at = "handler" /\ f.sid = q.sid /\ f.out = q.out /\ f.old = q.old
      /\ f.own = q.own /\ f.plain = q.plain /\ f.inCtx = q.inCtx /\ f.inCtl
      /\ f.done = q.done /\ f.got = q.got /\ f.before = q.before /\ f.val = q.val
  BY <1>1, <1>5 DEF SameBut, Fields
<1>8. req'[r] = f BY <1>4 DEF SInv, IInv, Types
<1>9. /\ q.sid \in Sids /\ owner[q.sid] = q.who /\ q.val \notin {Absent, Raw}
      /\ \A s \in Sids \ {q.sid} : store'[s] = store[s]
      /\ store'[q.sid] = IF q.shut \/ (Store.ifPresent = "update" /\ store[q.sid] = Absent)
                         THEN store[q.sid] ELSE q.val
      /\ Decoded(q.val) = q.val
  <2>1. PICK how : how = Store.ifPresent OBVIOUS
  <2>2. PICK st : st = Saved(how, q) OBVIOUS
  <2>3. /\ q.sid \in Sids /\ owner[q.sid] = q.who /\ q.val \notin {Absent, Raw}
        /\ Decoded(q.val) = q.val /\ \A s \in Sids \ {q.sid} : st[s] = store[s]
        /\ st[q.sid] = IF q.shut \/ (how = "update" /\ store[q.sid] = Absent) THEN store[q.sid]
                       ELSE q.val
    BY <1>1, <2>2, SaveFacts DEF SInv
  <2> QED BY <1>1, <2>1, <2>2, <2>3
<1>10. /\ Store.ifPresent \in {"update", "upsert"}
       /\ Store.closes => Store.ifPresent = Store.save
  BY <1>1, ProviderFacts DEF SInv
<1>11. GoneInv'
  <2>1. \A s \in gone \ late : store[s] = Absent /\ GoneAt(q, s) BY DEF SInv, GoneInv
  <2>2. \A s \in gone \ late' : store'[s] = Absent /\ GoneAt(f, s)
    <3>1. \A s \in gone \ late' : s \in Sids BY DEF SInv, IInv, Types
    <3>2. \A s \in gone \ late' : store'[s] = Absent BY <1>1, <1>9, <1>10, <2>1, <3>1
    <3>3. \A s \in gone \ late' : GoneAt(f, s) BY <1>1, <1>7, <2>1 DEF GoneAt
    <3> QED BY <3>2, <3>3
  <2> QED BY <1>1, <1>3, <1>8, <2>2, GoneKept DEF SInv, Grows
<1>12. PlainOk(f, jar[f.who], store', gone', kind, Provider, Store.save)
  <2>1. SUFFICES ASSUME q.plain
                 PROVE  /\ Stay(f, jar[q.who], store', Provider, Store.save)
                        /\ Val(f, store', gone, kind, Provider)
                        /\ Carried(f, store', gone, kind, Provider)
    BY <1>1, <1>7 DEF PlainOk
  <2>2. /\ Stay(q, jar[q.who], store, Provider, Store.save)
        /\ Val(q, store, gone, kind, Provider) /\ Carried(q, store, gone, kind, Provider)
    BY <1>1, <2>1, PlainKnows
  <2>3. Stay(f, jar[q.who], store', Provider, Store.save)
    BY <1>1, <1>5, <1>7, <1>9, <1>10, <2>2 DEF Stay
  <2>4. Val(f, store', gone, kind, Provider) BY <1>1, <1>6, <1>7, <1>9, <2>2 DEF Val
  <2>5. q.done => q.old \in Sids \ {q.sid} BY <1>2 DEF ReqOk, Req, Ids
  <2>6. Carried(f, store', gone, kind, Provider) BY <1>1, <1>6, <1>7, <1>9, <2>2, <2>5 DEF Carried
  <2> QED BY <2>3, <2>4, <2>6
<1>13. \A s \in Sids : owner'[s] # q.who => store'[s] = store[s] BY <1>1, <1>9
<1> QED BY <1>1, <1>3, <1>7, <1>8, <1>11, <1>12, <1>13, Continues

\* SessionRegenerateID saves what the controller has under the old id.
LEMMA RegenerateIDSound ==
  ASSUME SInv, NEW r \in Requests, RegenerateID(r)
  PROVE  SInv'
<1> DEFINE q == req[r]
<1>1. PICK f : f = Asking(q, Left(q)) OBVIOUS
<1>2. /\ q.at = "handler" /\ Grows /\ UNCHANGED <<owner, jar, calm, gone>>
      /\ store' = (IF q.inCtl /\ kind # "cookie" THEN Saved(Store.save, q) ELSE store)
      /\ late' = (IF q.inCtl /\ ~q.shut THEN late \cup ({q.sid} \cap gone) ELSE late)
      /\ req' = [req EXCEPT ![r] = f]
  BY <1>1, SameGrows DEF RegenerateID, Same, Handles, Released, Asking, Left, SInv
<1>3. q \in Req /\ ReqOk(q, owner, Provider.regen) BY Mine1 DEF SInv
<1>4. IInv' /\ Others(r) BY RegenerateIDKeeps DEF SInv
<1>5. /\ SameBut(f, q, {"at", "before", "own", "done", "calls", "shut"})
      /\ f.at = "ask" /\ f.before = q.val /\ f.own = q.sid /\ ~f.done
  BY <1>1, <1>3, AskingOk DEF SInv
<1>6. FirstCookie(f) = FirstCookie(q) BY <1>5, SameUses
<1>7. /\ f.who = q.who /\ f.sid = q.sid /\ f.out = q.out /\ f.old = q.old
      /\ f.plain = q.plain /\ f.inCtx = q.inCtx /\ f.inCtl = q.inCtl /\ f.val = q.val
  BY <1>5 DEF SameBut, Fields
<1>8. req'[r] = f BY <1>2 DEF SInv, IInv, Types
<1>9. /\ q.sid \in Sids /\ owner[q.sid] = q.who /\ q.val \notin {Absent, Raw}
      /\ Decoded(q.val) = q.val /\ q.at \notin {"idle", "read"} /\ IInv
  BY <1>2, SaveFacts DEF SInv
<1>10. /\ \A s \in Sids \ {q.sid} : store'[s] = store[s]
       /\ ~(q.inCtl /\ kind # "cookie") => store' = store
       /\ q.inCtl /\ kind # "cookie" =>
            store'[q.sid] = IF q.shut \/ (Store.save = "update" /\ store[q.sid] = Absent)
                            THEN store[q.sid] ELSE q.val
  <2>1. PICK how : how = Store.save OBVIOUS
  <2>2. PICK st : st = Saved(how, q) OBVIOUS
  <2>3. /\ \A s \in Sids \ {q.sid} : st[s] = store[s]
        /\ st[q.sid] = IF q.shut \/ (how = "update" /\ store[q.sid] = Absent) THEN store[q.sid]
                       ELSE q.val
    BY <1>9, <2>2 DEF Saved, Put, IInv, Types
  <2> QED BY <1>2, <2>1, <2>2, <2>3
<1>11. kind # "cookie" => Store.save \in {"update", "upsert"} BY ProviderFacts DEF SInv
<1>12. GoneInv'
  <2>1. \A s \in gone \ late : store[s] = Absent /\ GoneAt(q, s) BY DEF SInv, GoneInv
  <2>2. \A s \in gone \ late' : store'[s] = Absent /\ GoneAt(f, s)
    <3>1. \A s \in gone \ late' : s \in Sids BY DEF SInv, IInv, Types
    <3>2. \A s \in gone \ late' : store'[s] = Absent BY <1>2, <1>10, <2>1, <3>1
    <3>3. \A s \in gone \ late' : GoneAt(f, s) BY <1>2, <1>5, <1>7, <2>1 DEF GoneAt
    <3> QED BY <3>2, <3>3
  <2> QED BY <1>2, <1>4, <1>8, <2>2, GoneKept DEF SInv, Grows
<1>13. PlainOk(f, jar[f.who], store', gone', kind, Provider, Store.save)
  <2>1. SUFFICES ASSUME q.plain
                 PROVE  /\ Stay(f, jar[q.who], store', Provider, Store.save)
                        /\ Val(f, store', gone, kind, Provider)
                        /\ Carried(f, store', gone, kind, Provider)
    BY <1>2, <1>7 DEF PlainOk
  <2>2. /\ Stay(q, jar[q.who], store, Provider, Store.save)
        /\ Val(q, store, gone, kind, Provider)
    BY <1>2, <2>1, PlainKnows
  <2>3. Stay(f, jar[q.who], store', Provider, Store.save)
    BY <1>2, <1>5, <1>7, <1>9, <1>10, <2>2 DEF Stay
  <2>4. Val(f, store', gone, kind, Provider)
    BY <1>2, <1>5, <1>6, <1>7, <1>9, <1>10, <2>2 DEF Val
  <2>5. ASSUME f.own = FirstCookie(f), f.own \notin gone, kind # "cookie"
        PROVE  f.before = Decoded(store'[f.own]) /\ (store'[f.own] = Raw => Provider.hasRaw)
    <3>1. FirstCookie(q) = q.sid /\ q.inCtx BY <1>2, <1>5, <1>6, <2>2, <2>5 DEF Val
    <3>2. CASE q.inCtl
      <4>1. /\ Store.save = "update" => store[q.sid] # Absent
            /\ q.shut => q.val = Decoded(store[q.sid])
            /\ store[q.sid] = Raw => Provider.hasRaw
        BY <1>2, <2>2, <3>1 DEF Stay, Val
      <4> QED BY <1>5, <1>9, <1>10, <2>5, <3>2, <4>1
    <3>3. CASE ~q.inCtl
      <4>1. q.val = Decoded(store[q.sid]) /\ (store[q.sid] = Raw => Provider.hasRaw)
        BY <1>2, <2>2, <2>5, <3>1, <3>3 DEF Val
      <4> QED BY <1>5, <1>10, <3>3, <4>1
    <3> QED BY <3>2, <3>3
  <2>6. Carried(f, store', gone, kind, Provider) BY <1>5, <1>7, <2>5 DEF Carried
  <2> QED BY <2>3, <2>4, <2>6
<1>14. \A s \in Sids : owner'[s] # q.who => store'[s] = store[s] BY <1>2, <1>9, <1>10
<1> QED BY <1>2, <1>4, <1>5, <1>7, <1>8, <1>12, <1>13, <1>14, Continues

\* DestroySession of the session of the first cookie.
LEMMA DestroySessionSound ==
  ASSUME SInv, NEW r \in Requests, DestroySession(r)
  PROVE  SInv'
<1> DEFINE q == req[r]
<1>1. PICK o, told, by, f :
        /\ o = FirstCookie(q)
        /\ told = (IF o = NoSid \/ q.sent THEN Called(q).out ELSE NoSid)
        /\ by = carrier /\ f = Destroying(q, told, by)
  OBVIOUS
<1>2. /\ q.at = "handler" /\ q.inCtx /\ Grows /\ UNCHANGED <<owner, jar, calm>>
      /\ req' = [req EXCEPT ![r] = f]
      /\ store' = (IF o = NoSid \/ kind = "cookie" THEN store ELSE [store EXCEPT ![o] = Absent])
      /\ gone' = (IF o = NoSid \/ kind = "cookie" THEN gone ELSE gone \cup {o})
      /\ late' = (IF o # NoSid /\ InUse(r, o) THEN late \cup {o} ELSE late)
  BY <1>1, SameGrows DEF DestroySession, Same, Handles, Destroying, SInv, Put
<1>3. q \in Req /\ ReqOk(q, owner, Provider.regen) /\ q.who \in Browsers
  BY <1>2, Mine1 DEF SInv
<1>4. IInv' /\ Others(r) BY DestroySessionKeeps DEF SInv
<1>5. o # NoSid => o \in Sids /\ owner[o] = q.who
  <2>1. o \in Uses(q) BY <1>1 DEF Uses
  <2> QED BY <1>1, <1>2, <1>3, <2>1, UsedOwned, FirstCookieOk DEF SInv
<1>6. told \in Ids \cup {Keep}
  BY <1>1, <1>3, CalledOk DEF SameBut, Fields, Req, Ids
<1>7. /\ SameBut(f, q, {"inCtx", "val", "field", "out", "plain", "calls"})
      /\ ~f.inCtx /\ f.val = Empty /\ (f.plain => q.plain)
  BY <1>1, <1>3, <1>6, DestroyingOk
<1>8. /\ f.cookies = q.cookies /\ f.sid = q.sid /\ f.old = q.old /\ f.own = q.own
      /\ f.who = q.who /\ f.before = q.before /\ f.got = q.got /\ f.done = q.done
      /\ f.at = "handler" /\ f.inCtl = q.inCtl
  BY <1>2, <1>7 DEF SameBut, Fields
<1>9. FirstCookie(f) = o BY <1>1, <1>8 DEF FirstCookie
<1>10. req'[r] = f /\ store \in [Sids -> Data] BY <1>2 DEF SInv, IInv, Types
<1>11. GoneInv'
  <2>1. ASSUME NEW s \in gone' \ late' PROVE store'[s] = Absent
    <3>1. s \in Sids BY <1>4, <2>1 DEF IInv, Types
    <3>2. s \in gone => store[s] = Absent BY <1>2, <2>1 DEF SInv, GoneInv
    <3> QED BY <1>2, <1>5, <1>10, <2>1, <3>1, <3>2
  <2>2. ASSUME NEW s \in gone' \ late', NEW p \in Requests PROVE GoneAt(req'[p], s)
    <3>1. CASE p = r BY <1>7, <1>8, <1>10, <3>1 DEF GoneAt
    <3>2. CASE p # r
      <4>1. SameBut(req'[p], req[p], {"plain"}) BY <1>4, <3>2, TwinOk DEF Others, SInv, IInv, Types
      <4>2. /\ req'[p].inCtx = req[p].inCtx /\ req'[p].sid = req[p].sid
            /\ req'[p].at = req[p].at /\ req'[p].old = req[p].old
        BY <4>1 DEF SameBut, Fields
      <4>3. GoneAt(req[p], s)
        <5>1. CASE s \in gone BY <1>2, <2>2, <5>1 DEF SInv, GoneInv
        <5>2. CASE s = o /\ o # NoSid
          <6>1. ~InUse(r, s) BY <1>2, <2>2, <5>2
          <6>2. req[p].inCtx => req[p].at # "idle" BY Mine1 DEF SInv, ReqOk
          <6> QED BY <3>2, <6>1, <6>2 DEF InUse, GoneAt
        <5> QED BY <1>2, <2>2, <5>1, <5>2
      <4> QED BY <4>2, <4>3 DEF GoneAt
    <3> QED BY <3>1, <3>2
  <2>3. kind' = "cookie" => gone' = {} BY <1>2 DEF SInv, GoneInv, Grows
  <2> QED BY <2>1, <2>2, <2>3 DEF GoneInv, GoneAt
<1>12. PlainOk(f, jar[f.who], store', gone', kind, Provider, Store.save)
  <2>1. SUFFICES ASSUME q.plain
                 PROVE  /\ Stay(f, jar[q.who], store', Provider, Store.save)
                        /\ Val(f, store', gone', kind, Provider)
                        /\ Carried(f, store', gone', kind, Provider)
    BY <1>7, <1>8 DEF PlainOk
  <2>2. Val(q, store, gone, kind, Provider) /\ Carried(q, store, gone, kind, Provider)
    BY <1>2, <2>1, PlainKnows
  <2>3. Stay(f, jar[q.who], store', Provider, Store.save) BY <1>7, <1>8 DEF Stay
  <2>4. q.sid # NoSid BY <1>2, <1>3 DEF ReqOk
  <2>5. Val(f, store', gone', kind, Provider)
    <3>1. SUFFICES ASSUME o = q.sid
                   PROVE  /\ kind # "cookie" => q.sid \in gone'
                          /\ kind # "cookie" => f.val = Decoded(store'[q.sid])
                          /\ store'[q.sid] = Raw => Provider.hasRaw
      BY <1>8, <1>9 DEF Val
    <3>2. CASE kind = "cookie" BY <1>1, <1>2, <2>2, <3>1, <3>2 DEF Val
    <3>3. CASE kind # "cookie"
      <4>1. store'[o] = Absent /\ o \in gone' BY <1>2, <1>5, <1>10, <2>4, <3>1, <3>3
      <4> QED BY <1>7, <3>1, <4>1 DEF Decoded
    <3> QED BY <3>2, <3>3
  <2>6. Carried(f, store', gone', kind, Provider)
    <3>1. kind # "cookie" => o = NoSid \/ o \in gone' BY <1>2
    <3>2. f.done => o # NoSid BY <1>1, <1>3, <1>8 DEF ReqOk
    <3> QED BY <1>8, <1>9, <3>1, <3>2 DEF Carried
  <2> QED BY <2>3, <2>5, <2>6
<1>13. \A s \in Sids : owner'[s] # q.who => store'[s] = store[s] BY <1>2, <1>5, <1>10
<1>14. gone \subseteq gone' /\ q.at # "idle" BY <1>2
<1> QED BY <1>2, <1>4, <1>7, <1>8, <1>10, <1>11, <1>12, <1>13, <1>14, Continues

\* SessionStart: SessionRead of the id that was there a moment ago.
LEMMA StartReadSound ==
  ASSUME SInv, NEW r \in Requests, StartRead(r)
  PROVE  SInv'
<1> DEFINE q == req[r]
<1>1. PICK v, f : v = Decoded(store[q.old]) /\ f = Reading(q, v) OBVIOUS
<1>2. /\ q.at = "read" /\ Grows /\ UNCHANGED <<owner, jar, calm, gone, late>>
      /\ store' = (IF store[q.old] = Absent /\ Provider.read = "make"
                   THEN [store EXCEPT ![q.old] = Raw] ELSE store)
      /\ req' = [req EXCEPT ![r] = IF store[q.old] = Absent /\ Provider.read = "error"
                                   THEN Fresh ELSE f]
  BY <1>1, SameGrows DEF StartRead, Same, Quiet, Reading, SInv, Put
<1>3. q \in Req /\ ReqOk(q, owner, Provider.regen) /\ q.who \in Browsers
  BY <1>2, Mine1 DEF SInv
<1>4. IInv' /\ Others(r) BY StartReadKeeps DEF SInv
<1>5. q.old \in Sids /\ owner[q.old] = q.who /\ q.old # NoSid
  <2>1. q.old # NoSid /\ q.old # Keep /\ q.old \in Uses(q)
    BY <1>2, <1>3, SessionAssumption DEF ReqOk, Req, Uses, Ids, Sids
  <2> QED BY <1>2, <2>1, UsedOwned DEF SInv
<1>6. store \in [Sids -> Data] /\ v \in Values BY <1>1, <1>5, StoredOwn DEF SInv, IInv, Types
<1>7. /\ \A s \in Sids \ {q.old} : store'[s] = store[s]
      /\ store'[q.old] = IF store[q.old] = Absent /\ Provider.read = "make" THEN Raw
                         ELSE store[q.old]
  BY <1>2, <1>5, <1>6
<1>8. \A s \in gone \ late : store'[s] = Absent /\ s # q.old
  <2>1. \A s \in gone \ late : s \in Sids /\ store[s] = Absent /\ GoneAt(q, s)
    BY DEF SInv, GoneInv, IInv, Types
  <2> QED BY <1>2, <1>7, <2>1 DEF GoneAt
<1>9. CASE req' = [req EXCEPT ![r] = Fresh] /\ store[q.old] = Absent /\ Provider.read = "error"
  <2>1. req'[r] = Fresh /\ store' = store BY <1>2, <1>9 DEF SInv, IInv, Types
  <2>2. PICK w : w = q.who OBVIOUS
  <2>3. Acts(w) BY <1>2, <1>3, <2>1, <2>2 DEF Acts
  <2>4. CalmAt(w)'
    <3>1. ASSUME \A p \in Requests : req'[p].who = w => req'[p].at = "read"
          PROVE  \A p \in Requests : req[p].who = w => req[p].at = "read"
      <4> SUFFICES ASSUME NEW p \in Requests, req[p].who = w, p # r PROVE req[p].at = "read"
        BY <1>2
      <4>1. SameBut(req'[p], req[p], {"plain"}) BY <1>4, TwinOk DEF Others, SInv, IInv, Types
      <4> QED BY <3>1, <4>1 DEF SameBut, Fields
    <3>2. CalmAt(w) BY <1>3, <2>2 DEF SInv, CalmInv
    <3> QED BY <1>2, <2>1, <3>1, <3>2 DEF CalmAt
  <2>5. GoneInv'
    <3>1. \A s : GoneAt(Fresh, s) BY DEF GoneAt, Fresh
    <3> QED BY <1>2, <1>4, <1>8, <2>1, <3>1, GoneKept DEF SInv, Grows
  <2>6. q.at # "idle" BY <1>2
  <2> QED BY <1>2, <1>4, <2>1, <2>2, <2>3, <2>4, <2>5, <2>6, Ends
<1>10. CASE req' = [req EXCEPT ![r] = f]
  <2>1. /\ SameBut(f, q, {"at", "sid", "old", "inCtx", "val"})
        /\ f.at = "handler" /\ f.sid = q.old /\ f.inCtx /\ f.val = v
    BY <1>1, <1>3, <1>6, ReadingOk
  <2>2. /\ f.who = q.who /\ f.plain = q.plain /\ f.out = q.out /\ f.done = q.done
        /\ f.cookies = q.cookies /\ f.inCtl = q.inCtl /\ ~f.shut
    BY <1>2, <1>3, <2>1 DEF ReqOk, SameBut, Fields
  <2>3. req'[r] = f BY <1>10 DEF SInv, IInv, Types
  <2>4. GoneInv'
    <3>1. \A s \in gone \ late : GoneAt(f, s) BY <1>8, <2>1 DEF GoneAt
    <3> QED BY <1>2, <1>4, <1>8, <2>3, <3>1, GoneKept DEF SInv, Grows
  <2>5. PlainOk(f, jar[f.who], store', gone', kind, Provider, Store.save)
    <3>1. SUFFICES ASSUME q.plain
                   PROVE  /\ Stay(f, jar[q.who], store', Provider, Store.save)
                          /\ Val(f, store', gone, kind, Provider)
                          /\ Carried(f, store', gone, kind, Provider)
      BY <1>2, <2>1, <2>2 DEF PlainOk
    <3>2. Stay(q, jar[q.who], store, Provider, Store.save) BY <1>2, <3>1, PlainKnows
    <3>3. /\ Store.save = "update" => Provider.read = "make"
          /\ Provider.read = "make" => Provider.hasRaw
      BY ProviderFacts DEF SInv
    <3>4. Stay(f, jar[q.who], store', Provider, Store.save)
      BY <1>2, <1>7, <2>1, <2>2, <3>2, <3>3 DEF Stay
    <3>5. v = Decoded(store'[q.old]) BY <1>1, <1>7 DEF Decoded
    <3>6. store'[q.old] = Raw => Provider.hasRaw BY <1>2, <1>7, <3>2, <3>3 DEF Stay
    <3>7. Val(f, store', gone, kind, Provider) BY <2>1, <3>5, <3>6 DEF Val
    <3>8. ~f.done BY <1>2, <1>3, <2>2 DEF ReqOk
    <3>9. Carried(f, store', gone, kind, Provider) BY <2>1, <3>8 DEF Carried
    <3> QED BY <3>4, <3>7, <3>9
  <2>6. \A s \in Sids : owner'[s] # q.who => store'[s] = store[s] BY <1>2, <1>5, <1>7
  <2>7. q.at # "idle" /\ gone \subseteq gone' /\ f.at # "read" BY <1>2, <2>1
  <2> QED BY <1>2, <1>4, <2>2, <2>3, <2>4, <2>5, <2>6, <2>7, Continues, ZenonT(60)
<1> QED BY <1>2, <1>9, <1>10

\* SessionStart: getSid, SessionExist, and an id of its own for who has none.
LEMMA BeginSound ==
  ASSUME SInv, NEW r \in Requests, NEW b \in Browsers, Begin(r, b)
  PROVE  SInv'
<1>1. PICK c, h, plain, q0, sid, others, n, g, f :
        /\ c = (IF carrier = "cookie" /\ jar[b] # NoSid THEN <<jar[b]>> ELSE <<>>)
        /\ h = (IF carrier = "header" THEN jar[b] ELSE NoSid)
        /\ plain = (\A p \in Requests : req[p].who # b)
        /\ q0 = Begun(b, c, h, plain)
        /\ sid = (IF FirstCookie(q0) # NoSid THEN FirstCookie(q0) ELSE q0.field)
        /\ others = [p \in Requests |-> IF req[p].who = b THEN [req[p] EXCEPT !.plain = FALSE]
                                        ELSE req[p]]
        /\ n = NewSid /\ g = Issuing(q0, n) /\ f = Tell(g, n)
  OBVIOUS
<1>2. /\ req[r].at = "idle" /\ UNCHANGED <<kind, jar, calm, gone, late>>
      /\ \/ /\ sid # NoSid /\ Exists(sid) = "yes" /\ req' = [others EXCEPT ![r] = Knowing(q0, sid)]
            /\ UNCHANGED <<store, owner>>
         \/ req' = others /\ UNCHANGED <<store, owner>>
         \/ /\ Unused # {} /\ owner' = [owner EXCEPT ![n] = b]
            /\ store' = (IF Provider.read = "make" THEN [store EXCEPT ![n] = Raw] ELSE store)
            /\ req' \in {others, [others EXCEPT ![r] = f]}
  BY <1>1 DEF Begin, Begun, Knowing, Issuing, Quiet, Put
<1>3. IInv' /\ Others(r) BY BeginKeeps DEF SInv
<1>4. /\ req[r] \in Req /\ req[r].who = "nobody" /\ jar[b] \in Ids /\ jar[b] \in Mine(b, owner)
      /\ store \in [Sids -> Data] /\ owner \in [Sids -> {"nobody"} \cup Browsers]
  BY <1>2 DEF SInv, IInv, Types, ReqsOk, ReqOk, JarOk
<1>5. /\ others[r] = req[r] /\ \A p \in Requests : req[p].who = b => ~others[p].plain
      /\ DOMAIN others = Requests
  <2>1. \A p \in Requests : req[p] \in Req BY DEF SInv, IInv, Types
  <2>2. \A p \in Requests : req[p].who = b => others[p] = [req[p] EXCEPT !.plain = FALSE]
    BY <1>1
  <2> QED BY <1>1, <1>4, <2>1, <2>2, SessionAssumption DEF Req
<1>6. \A p \in Requests \ {r} : req'[p] = others[p] BY <1>1, <1>2
<1>7. /\ Grows
      /\ Unused # {} => n \in Sids /\ Free(n) /\ store[n] = Absent /\ n \notin gone
                        /\ n \notin {NoSid, Keep}
  <2>1. Unused # {} => n \in Sids /\ Free(n) BY <1>1, NewSidFree
  <2>2. Unused # {} => store[n] = Absent /\ n \notin gone
    BY <2>1, Owned DEF SInv, IInv, StoreOk, Free
  <2>3. Grows BY <1>2, <1>4, <2>1 DEF Grows, Free
  <2> QED BY <2>1, <2>2, <2>3, SessionAssumption DEF Sids
<1>8. /\ \A s \in Sids : owner'[s] # b => store'[s] = store[s]
      /\ \A s \in gone : store'[s] = store[s]
  BY <1>2, <1>4, <1>7 DEF SInv, IInv, Types
<1>9. Acts(b) BY <1>2, <1>8 DEF Acts
<1>10. /\ \A p \in Requests \ {r} : req[p].who = b => ~req'[p].plain
       /\ req[r].who \in {b, "nobody"}
  BY <1>4, <1>5, <1>6
<1>11. c \in Seq(Sids) /\ h \in Ids /\ plain \in BOOLEAN
  <2>1. jar[b] # NoSid => jar[b] \in Sids BY <1>4 DEF Ids
  <2> QED BY <1>1, <1>4, <2>1 DEF Ids
<1>12. /\ q0 \in Req /\ q0.who = b /\ q0.cookies = c /\ q0.field = h /\ q0.plain = plain
       /\ q0.at = "read" /\ q0.old = NoSid /\ q0.own = NoSid /\ q0.val = Empty /\ q0.out = Keep
       /\ ~q0.inCtx /\ ~q0.inCtl /\ ~q0.sent /\ ~q0.done /\ ~q0.shut
  <2>1. q0 = Begun(b, c, h, plain) BY <1>1
  <2> QED BY ONLY <1>11, <2>1, BegunOk
<1>13. sid \in {jar[b], NoSid}
  <2>1. c \in {<<>>, <<jar[b]>>} /\ h \in {jar[b], NoSid} BY <1>1
  <2>2. c = <<jar[b]>> => c # <<>> /\ c[1] = jar[b] OBVIOUS
  <2>3. FirstCookie(q0) = IF c = <<>> THEN NoSid ELSE c[1] BY <1>12 DEF FirstCookie
  <2>4. FirstCookie(q0) \in {jar[b], NoSid} BY <2>1, <2>2, <2>3
  <2>5. sid \in {FirstCookie(q0), q0.field} BY <1>1
  <2> QED BY <1>12, <2>1, <2>4, <2>5
\* No more requests of b than before read: what b finds stays.
<1>14. ASSUME jar[b] # NoSid => store'[jar[b]] = store[jar[b]] PROVE CalmAt(b)'
  <2>1. ASSUME \A p \in Requests : req'[p].who = b => req'[p].at = "read",
               NEW p \in Requests, req[p].who = b
        PROVE  req[p].at = "read"
    <3>1. p # r BY <1>4, <2>1, SessionAssumption
    <3>2. SameBut(req'[p], req[p], {"plain"})
      BY <1>3, <3>1, TwinOk DEF Others, SInv, IInv, Types
    <3> QED BY <2>1, <3>2 DEF SameBut, Fields
  <2>2. CalmAt(b) BY DEF SInv, CalmInv
  <2> QED BY <1>2, <1>14, <2>1, <2>2 DEF CalmAt
<1>15. CASE req' = others
  <2>1. req'[r] = req[r] /\ req'[r].at = "idle" BY <1>2, <1>5, <1>15
  <2>2. GoneInv'
    <3>1. \A s \in gone \ late' : store'[s] = Absent /\ GoneAt(req'[r], s)
      BY <1>2, <1>8, <2>1 DEF SInv, GoneInv
    <3> QED BY <1>2, <1>3, <3>1, GoneKept DEF SInv
  <2>3. PlainOk(req'[r], jar'[req'[r].who], store', gone', kind, Provider, Store.save)
    BY <2>1 DEF PlainOk
  <2>4. CalmAt(b)'
    <3>1. jar[b] # NoSid => jar[b] \in Sids /\ owner[jar[b]] = b
      BY <1>4, SessionAssumption DEF Mine, Ids, Sids
    <3>2. jar[b] # NoSid => store'[jar[b]] = store[jar[b]]
      <4>1. Unused # {} => owner[n] = "nobody" BY <1>7 DEF Free
      <4> QED BY <1>2, <1>4, <3>1, <4>1, SessionAssumption
    <3> QED BY <1>14, <3>2
  <2> QED BY <1>3, <1>7, <1>9, <1>10, <2>1, <2>2, <2>3, <2>4, SoundStep
<1>16. ASSUME req'[r].plain => plain
       PROVE  req'[r].plain => \A p \in Requests \ {r} : req[p].who # b
  BY <1>1, <1>16
<1>17. CASE sid # NoSid /\ Exists(sid) = "yes" /\ req' = [others EXCEPT ![r] = Knowing(q0, sid)]
            /\ UNCHANGED <<store, owner>>
  <2>1. PICK k : k = Knowing(q0, sid) OBVIOUS
  <2>2. SameBut(k, q0, {"old"}) /\ k.old = sid /\ sid = jar[b]
    BY <1>4, <1>12, <1>13, <1>17, <2>1, KnowingOk
  <2>3. /\ k.who = b /\ k.at = "read" /\ k.plain = plain /\ k.out = Keep /\ ~k.inCtx /\ ~k.done
    BY <1>12, <2>2 DEF SameBut, Fields
  <2>4. req'[r] = k BY <1>5, <1>17, <2>1
  <2>5. store[sid] = Raw => Provider.hasRaw BY <1>17 DEF Exists
  <2>6. kind # "cookie" => store[sid] # Absent BY <1>17, ProviderFacts DEF Exists, SInv
  <2>7. PlainOk(req'[r], jar'[req'[r].who], store', gone', kind, Provider, Store.save)
    BY <1>2, <1>17, <2>2, <2>3, <2>4, <2>5 DEF PlainOk, Stay, Val, Carried
  <2>8. GoneInv'
    <3>1. \A s \in gone \ late' : store'[s] = Absent /\ GoneAt(req'[r], s)
      BY <1>2, <1>17, <2>2, <2>3, <2>4, <2>6 DEF SInv, GoneInv, GoneAt
    <3> QED BY <1>2, <1>3, <3>1, GoneKept DEF SInv
  <2>9. CalmAt(b)' BY <1>14, <1>17
  <2> QED BY <1>3, <1>7, <1>9, <1>10, <1>16, <2>3, <2>4, <2>7, <2>8, <2>9, SoundStep
<1>18. CASE /\ Unused # {} /\ owner' = [owner EXCEPT ![n] = b]
            /\ store' = (IF Provider.read = "make" THEN [store EXCEPT ![n] = Raw] ELSE store)
            /\ req' = [others EXCEPT ![r] = f]
  <2>1. n \in Sids /\ n \in Ids /\ n # NoSid /\ n # Keep /\ n \notin gone /\ store[n] = Absent
    BY <1>7, <1>18 DEF Ids
  <2>2. SameBut(g, q0, {"at", "sid", "inCtx"}) /\ g.at = "handler" /\ g.sid = n /\ g.inCtx
    <3>1. g = Issuing(q0, n) BY <1>1
    <3> QED BY ONLY <1>12, <2>1, <3>1, IssuingOk
  <2>3. /\ g \in Req /\ g.who = b /\ g.plain = plain /\ g.val = Empty /\ g.own = NoSid
        /\ ~g.sent /\ ~g.done /\ ~g.inCtl /\ ~g.shut
    BY <1>12, <2>2 DEF SameBut, Fields
  <2>4. /\ SameBut(f, g, {"cookies", "field", "out", "plain"})
        /\ f.out = n /\ (f.plain => plain)
    <3>1. f = Tell(g, n) BY <1>1
    <3>2. g \in Req /\ n \in Sids BY <2>1, <2>3
    <3>3. /\ SameBut(f, g, {"cookies", "field", "out", "plain"})
          /\ f.out = (IF g.sent THEN g.out ELSE n) /\ f.plain = (g.plain /\ ~g.sent)
      BY ONLY <3>1, <3>2, TellOk
    <3> QED BY <2>3, <3>3
  <2>5. /\ f.who = b /\ f.at = "handler" /\ f.sid = n /\ f.inCtx /\ f.val = Empty /\ ~f.done
        /\ ~f.inCtl /\ ~f.shut
    BY <2>2, <2>3, <2>4 DEF SameBut, Fields
  <2>6. req'[r] = f BY <1>5, <1>18
  <2>7. /\ Provider.read = "make" => Provider.hasRaw
        /\ Store.save = "update" => Provider.read = "make"
    BY ProviderFacts DEF SInv
  <2>8. store'[n] = IF Provider.read = "make" THEN Raw ELSE Absent BY <1>4, <1>18, <2>1
  <2>9. PlainOk(req'[r], jar'[req'[r].who], store', gone', kind, Provider, Store.save)
    <3>1. Stay(f, jar'[f.who], store', Provider, Store.save)
      BY <2>1, <2>4, <2>5, <2>7, <2>8 DEF Stay
    <3>2. Val(f, store', gone', kind, Provider) BY <2>5, <2>7, <2>8 DEF Val, Decoded
    <3>3. Carried(f, store', gone', kind, Provider) BY <2>5 DEF Carried
    <3> QED BY <2>6, <3>1, <3>2, <3>3 DEF PlainOk
  <2>10. GoneInv'
    <3>1. \A s \in gone \ late' : store'[s] = Absent /\ GoneAt(req'[r], s)
      BY <1>2, <1>8, <2>1, <2>5, <2>6 DEF SInv, GoneInv, GoneAt
    <3> QED BY <1>2, <1>3, <3>1, GoneKept DEF SInv
  <2> QED BY <1>3, <1>7, <1>9, <1>10, <1>16, <2>4, <2>5, <2>6, <2>9, <2>10, SoundStep
<1> QED BY <1>2, <1>15, <1>17, <1>18

\* SessionRegenerateID asks the provider, with an id that nobody has.
LEMMA AskProviderSound ==
  ASSUME SInv, NEW r \in Requests, AskProvider(r)
  PROVE  SInv'
<1> DEFINE q == req[r]
<1>1. PICK o, n, g, h : /\ o = FirstCookie(q) /\ n = NewSid /\ g = Naming(q, o, n)
                        /\ h = Starting(g)
  OBVIOUS
<1>2. /\ q.at = "ask" /\ UNCHANGED <<kind, jar, calm, gone, late>> /\ Unused # {}
      /\ owner' = [owner EXCEPT ![n] = g.who]
      /\ \/ /\ g.old = NoSid
            /\ store' = IF Provider.read = "make" THEN [store EXCEPT ![g.new] = Raw] ELSE store
            /\ req' = [req EXCEPT ![r] = Tell(h, g.new)]
         \/ store' = store /\ req' = [req EXCEPT ![r] = Bare(g)]
         \/ store' = store /\ req' = [req EXCEPT ![r] = Tell(Bare(g), g.new)]
         \/ store' = store /\ g.old # NoSid /\ req' = [req EXCEPT ![r] = Going(g, "regen")]
  BY <1>1 DEF AskProvider, Same, Quiet, Naming, Starting, Bare, Going, Put
<1>3. IInv' /\ Others(r) BY AskProviderKeeps DEF SInv
<1>4. q \in Req /\ ReqOk(q, owner, Provider.regen) /\ q.who \in Browsers /\ o \in Ids
  BY <1>1, <1>2, Mine1, FirstCookieOk DEF SInv
<1>5. n \in Sids /\ n \in Ids /\ n # NoSid /\ n # Keep /\ Free(n)
  BY <1>1, <1>2, NewSidFree, SessionAssumption DEF Ids, Sids
<1>6. /\ store[n] = Absent /\ n \notin gone /\ n \notin Uses(q) /\ n # q.own /\ n # o
      /\ store \in [Sids -> Data] /\ owner \in [Sids -> {"nobody"} \cup Browsers]
  <2>1. store[n] = Absent /\ n \notin gone /\ n \notin Uses(q)
    BY <1>5, Owned DEF SInv, IInv, StoreOk, Free
  <2>2. n # q.own BY <1>2, <1>5, UsedOwned, SessionAssumption DEF SInv, Free
  <2> QED BY <1>1, <2>1, <2>2 DEF Uses, SInv, IInv, Types
<1>7. SameBut(g, q, {"old", "new"}) /\ g.old = o /\ g.new = n
  <2>1. g = Naming(q, o, n) BY <1>1
  <2> QED BY ONLY <1>4, <1>5, <2>1, NamingOk
<1>8. /\ g \in Req /\ g.who = q.who /\ g.cookies = q.cookies /\ g.sid = q.sid /\ g.out = q.out
      /\ g.own = q.own /\ g.done = q.done /\ g.plain = q.plain /\ g.sent = q.sent
      /\ g.inCtx = q.inCtx /\ g.before = q.before
  BY <1>7 DEF SameBut, Fields
<1>9. FirstCookie(g) = o BY <1>1, <1>8 DEF FirstCookie
<1>10. Grows /\ owner'[n] = q.who
  BY <1>2, <1>4, <1>5, <1>6, <1>8 DEF Grows, Free
<1>11. \A s \in Sids \ {n} : store'[s] = store[s] BY <1>2, <1>6, <1>7
<1>12. \A s \in gone \ late' : store'[s] = Absent /\ GoneAt(q, s) /\ s # n
  BY <1>2, <1>6, <1>11 DEF SInv, GoneInv, IInv, Types
<1>13. ~q.done BY <1>2, <1>4 DEF ReqOk
\* What is left to show of the record f that the request has next.
<1>14. SUFFICES \E f : /\ req' = [req EXCEPT ![r] = f] /\ f.who = q.who /\ f.at # "read"
                       /\ (f.plain => q.plain)
                       /\ \A s \in gone \ late' : GoneAt(f, s)
                       /\ PlainOk(f, jar[f.who], store', gone', kind, Provider, Store.save)
  <2>1. PICK f : /\ req' = [req EXCEPT ![r] = f] /\ f.who = q.who /\ f.at # "read"
                 /\ (f.plain => q.plain)
                 /\ \A s \in gone \ late' : GoneAt(f, s)
                 /\ PlainOk(f, jar[f.who], store', gone', kind, Provider, Store.save)
    BY <1>14
  <2>2. req'[r] = f BY <2>1 DEF SInv, IInv, Types
  <2>3. GoneInv' BY <1>2, <1>3, <1>12, <2>1, <2>2, GoneKept DEF SInv
  <2>4. \A s \in Sids : owner'[s] # q.who => store'[s] = store[s] BY <1>10, <1>11
  <2>5. q.at # "idle" /\ gone \subseteq gone' BY <1>2
  <2> QED BY <1>2, <1>3, <1>10, <2>1, <2>2, <2>3, <2>4, <2>5, Continues
<1>15. CASE /\ g.old = NoSid /\ req' = [req EXCEPT ![r] = Tell(h, g.new)]
            /\ store' = IF Provider.read = "make" THEN [store EXCEPT ![g.new] = Raw] ELSE store
  <2>1. PICK f : f = Tell(h, n) OBVIOUS
  <2>2. /\ SameBut(h, g, {"at", "sid", "val", "shut", "inCtx", "inCtl"})
        /\ h.at = "handler" /\ h.sid = g.new /\ h.inCtx /\ h.inCtl /\ ~h.shut
    <3>1. h = Starting(g) BY <1>1
    <3> QED BY ONLY <1>8, <3>1, StartingOk
  <2>3. /\ h \in Req /\ h.who = q.who /\ h.cookies = q.cookies /\ h.sid = n /\ h.out = q.out
        /\ h.own = q.own /\ h.done = q.done /\ h.plain = q.plain /\ h.sent = q.sent
    BY <1>7, <1>8, <2>2 DEF SameBut, Fields
  <2>4. /\ SameBut(f, h, {"cookies", "field", "out", "plain"})
        /\ FirstCookie(f) = (IF FirstCookie(h) = NoSid THEN n ELSE FirstCookie(h))
        /\ f.out = (IF h.sent THEN h.out ELSE n) /\ f.plain = (h.plain /\ ~h.sent)
    BY ONLY <1>5, <2>1, <2>3, TellOk
  <2>5. /\ f.who = q.who /\ f.at = "handler" /\ f.sid = n /\ f.own = q.own /\ f.done = q.done
        /\ f.inCtx /\ f.inCtl /\ ~f.shut
    BY <2>2, <2>3, <2>4 DEF SameBut, Fields
  <2>6. FirstCookie(f) = n BY <1>1, <1>7, <1>15, <2>3, <2>4 DEF FirstCookie
  <2>7. store'[n] = IF Provider.read = "make" THEN Raw ELSE Absent
    BY <1>5, <1>6, <1>7, <1>15
  <2>8. /\ Provider.read = "make" => Provider.hasRaw
        /\ Store.save = "update" => Provider.read = "make"
    BY ProviderFacts DEF SInv
  <2>9. PlainOk(f, jar[f.who], store', gone', kind, Provider, Store.save)
    <3>1. SUFFICES ASSUME f.plain
                   PROVE  /\ Stay(f, jar[f.who], store', Provider, Store.save)
                          /\ Val(f, store', gone', kind, Provider)
                          /\ Carried(f, store', gone', kind, Provider)
      BY DEF PlainOk
    <3>2. f.out = n BY <2>4, <3>1
    <3>3. Stay(f, jar[f.who], store', Provider, Store.save)
      BY <1>5, <2>5, <2>7, <2>8, <3>2 DEF Stay
    <3>4. Val(f, store', gone', kind, Provider) BY <2>5, <2>7, <2>8 DEF Val
    <3>5. Carried(f, store', gone', kind, Provider) BY <1>6, <2>5, <2>6 DEF Carried
    <3> QED BY <3>3, <3>4, <3>5
  <2>10. \A s \in gone \ late' : GoneAt(f, s) BY <1>12, <2>5 DEF GoneAt
  <2>11. f.plain => q.plain BY <2>3, <2>4
  <2> QED BY <1>7, <1>15, <2>1, <2>5, <2>9, <2>10, <2>11
<1>16. CASE store' = store /\ req' = [req EXCEPT ![r] = Bare(g)]
  <2>1. PICK f : f = Bare(g) OBVIOUS
  <2>2. SameBut(f, g, {"at", "inCtx", "inCtl", "plain"}) /\ f.at = "handler" /\ ~f.plain /\ ~f.inCtx
    BY ONLY <1>8, <2>1, BareOk
  <2>3. f.who = q.who BY <1>8, <2>2 DEF SameBut, Fields
  <2> QED BY <1>16, <2>1, <2>2, <2>3 DEF PlainOk, GoneAt
<1>17. CASE store' = store /\ g.old # NoSid /\ req' = [req EXCEPT ![r] = Going(g, "regen")]
  <2>1. PICK f : f = Going(g, "regen") OBVIOUS
  <2>2. SameBut(f, g, {"at"}) /\ f.at = "regen"
    <3>1. "regen" \in Places BY DEF Places
    <3> QED BY ONLY <1>8, <2>1, <3>1, GoingOk
  <2>3. /\ f.who = q.who /\ f.cookies = q.cookies /\ f.old = o /\ f.sid = q.sid /\ f.out = q.out
        /\ f.own = q.own /\ f.done = q.done /\ f.plain = q.plain /\ f.inCtx = q.inCtx
        /\ f.before = q.before
    BY <1>7, <1>8, <2>2 DEF SameBut, Fields
  <2>4. FirstCookie(f) = o BY <1>1, <2>3 DEF FirstCookie
  <2>5. \A s \in gone \ late' : GoneAt(f, s) BY <1>12, <2>2, <2>3 DEF GoneAt
  <2>6. PlainOk(f, jar[f.who], store', gone', kind, Provider, Store.save)
    <3>1. SUFFICES ASSUME q.plain
                   PROVE  /\ Stay(f, jar[q.who], store, Provider, Store.save)
                          /\ Val(f, store, gone, kind, Provider)
                          /\ Carried(f, store, gone, kind, Provider)
      BY <1>2, <1>17, <2>3 DEF PlainOk
    <3>2. /\ Stay(q, jar[q.who], store, Provider, Store.save)
          /\ Val(q, store, gone, kind, Provider) /\ Carried(q, store, gone, kind, Provider)
      BY <1>2, <3>1, PlainKnows
    <3>3. Stay(f, jar[q.who], store, Provider, Store.save) BY <1>2, <2>2, <2>3, <3>2 DEF Stay
    <3>4. Val(f, store, gone, kind, Provider) BY <1>1, <1>2, <2>2, <2>3, <2>4, <3>2 DEF Val
    <3>5. Carried(f, store, gone, kind, Provider)
      BY <1>1, <1>2, <1>13, <2>2, <2>3, <2>4, <3>2 DEF Carried
    <3> QED BY <3>3, <3>4, <3>5
  <2> QED BY <1>17, <2>1, <2>2, <2>3, <2>5, <2>6
<1>18. CASE store' = store /\ req' = [req EXCEPT ![r] = Tell(Bare(g), g.new)]
  <2>1. PICK x, f : x = Bare(g) /\ f = Tell(x, n) OBVIOUS
  <2>2. SameBut(x, g, {"at", "inCtx", "inCtl", "plain"}) /\ x.at = "handler" /\ ~x.plain /\ ~x.inCtx
    BY ONLY <1>8, <2>1, BareOk
  <2>3. x \in Req /\ x.who = q.who BY <1>8, <2>2 DEF SameBut, Fields
  <2>4. SameBut(f, x, {"cookies", "field", "out", "plain"}) /\ f.plain = (x.plain /\ ~x.sent)
    BY ONLY <1>5, <2>1, <2>3, TellOk
  <2>5. f.who = q.who /\ f.at = "handler" /\ ~f.inCtx /\ ~f.plain
    BY <2>2, <2>3, <2>4 DEF SameBut, Fields
  <2> QED BY <1>7, <1>18, <2>1, <2>5 DEF PlainOk, GoneAt
<1> QED BY <1>2, <1>15, <1>16, <1>17, <1>18

\* A request that regenerates works with two ids; nobody knows the new one.
LEMMA TwoIds ==
  ASSUME SInv, NEW r \in Requests, NEW q, q = req[r], Regenerates(q)
  PROVE  /\ q.at # "idle" /\ q.at # "read" /\ q \in Req /\ ReqOk(q, owner, Provider.regen)
         /\ q.who \in Browsers /\ q.old \in Sids /\ q.new \in Sids /\ q.old # q.new
         /\ q.old # NoSid /\ q.new # NoSid /\ FirstCookie(q) = q.old
         /\ owner[q.old] = q.who /\ owner[q.new] = q.who
         /\ q.new \notin gone /\ q.sid # q.new /\ ~q.done
<1>1. q.at # "idle" /\ q.at # "read" /\ q.at # "handler" BY DEF Regenerates
<1>2. q \in Req /\ ReqOk(q, owner, Provider.regen) /\ q.who \in Browsers
  BY <1>1, Mine1 DEF SInv
<1>3. /\ q.old # NoSid /\ q.new # NoSid /\ q.old # q.new /\ FirstCookie(q) = q.old /\ ~q.done
  BY <1>1, <1>2 DEF ReqOk
<1>4. q.old # Keep /\ q.new # Keep /\ q.old \in Uses(q)
  BY <1>2, SessionAssumption DEF Req, Ids, Sids, Uses
<1>5. q.old \in Sids /\ q.new \in Sids /\ owner[q.old] = q.who /\ owner[q.new] = q.who
  BY <1>1, <1>3, <1>4, UsedOwned DEF SInv
<1>6. q.new \notin gone /\ q.sid # q.new BY DEF SInv, IInv, PrivateInv, Private, Uses
<1> QED BY <1>1, <1>2, <1>3, <1>5, <1>6

\* A request goes on with the session it moved.
LEMMA MovedSound ==
  ASSUME SInv, IInv', NEW r \in Requests, NEW q, q = req[r], Regenerates(q),
         NEW v \in Values, req' = [req EXCEPT ![r] = Moved(q, v)], Others(r),
         UNCHANGED <<kind, owner, jar, calm, gone>>, late \subseteq late',
         \A s \in Sids \ {q.old, q.new} : store'[s] = store[s],
         store'[q.old] \in {Absent, store[q.old]},
         q.plain /\ Store.save = "update" => store'[q.new] # Absent,
         q.plain /\ q.own = q.old /\ q.own \notin gone /\ kind \notin {"cookie", "ledis"} =>
           v = q.before /\ store'[q.old] = Absent
  PROVE  SInv'
<1>1. PICK h, f : h = Moving(q, v) /\ f = Tell(h, q.new) OBVIOUS
<1>2. /\ q.at # "idle" /\ q \in Req /\ q.who \in Browsers /\ q.old \in Sids /\ q.new \in Sids
      /\ q.old # q.new /\ q.old # NoSid /\ q.new # NoSid /\ FirstCookie(q) = q.old
      /\ owner[q.old] = q.who /\ owner[q.new] = q.who /\ q.new \notin gone
  BY TwoIds
<1>3. /\ SameBut(h, q, {"at", "sid", "val", "shut", "got", "done", "inCtx", "inCtl"})
      /\ h.at = "handler" /\ h.sid = q.new /\ h.val = v /\ h.got = v /\ h.done /\ h.inCtx /\ h.inCtl
      /\ ~h.shut
  BY <1>1, <1>2, MovingOk
<1>4. /\ h \in Req /\ h.who = q.who /\ h.cookies = q.cookies /\ h.old = q.old /\ h.own = q.own
      /\ h.out = q.out /\ h.before = q.before /\ h.plain = q.plain /\ h.sent = q.sent
  BY <1>3 DEF SameBut, Fields
<1>5. /\ SameBut(f, h, {"cookies", "field", "out", "plain"})
      /\ FirstCookie(f) = (IF FirstCookie(h) = NoSid THEN q.new ELSE FirstCookie(h))
      /\ f.out = (IF h.sent THEN h.out ELSE q.new) /\ f.plain = (h.plain /\ ~h.sent)
  BY <1>1, <1>2, <1>4, TellOk
<1>6. /\ f.who = q.who /\ f.at = "handler" /\ f.sid = q.new /\ f.got = v /\ f.old = q.old
      /\ f.own = q.own /\ f.before = q.before /\ f.inCtx /\ f.inCtl /\ ~f.shut
  BY <1>3, <1>4, <1>5 DEF SameBut, Fields
<1>7. FirstCookie(f) = q.old BY <1>2, <1>4, <1>5 DEF FirstCookie
<1>8. Moved(q, v) = f BY <1>1 DEF Moved, Moving
<1>9. req'[r] = f /\ Grows BY <1>8, SameGrows DEF SInv, IInv, Types
<1>10. GoneInv'
  <2>1. \A s \in gone \ late' : s \in Sids /\ store[s] = Absent BY DEF SInv, GoneInv, IInv, Types
  <2>2. \A s \in gone \ late' : store'[s] = Absent /\ GoneAt(f, s)
    BY <1>2, <1>6, <2>1 DEF GoneAt
  <2> QED BY <1>9, <2>2, GoneKept DEF SInv
<1>11. PlainOk(f, jar[f.who], store', gone', kind, Provider, Store.save)
  <2>1. SUFFICES ASSUME f.plain
                 PROVE  /\ Stay(f, jar[f.who], store', Provider, Store.save)
                        /\ Val(f, store', gone', kind, Provider)
                        /\ Carried(f, store', gone', kind, Provider)
    BY DEF PlainOk
  <2>2. f.out = q.new /\ q.plain BY <1>4, <1>5, <2>1
  <2>3. Stay(f, jar[f.who], store', Provider, Store.save) 
    BY <1>2, <1>6, <2>2, SessionAssumption DEF Stay, Sids
  <2>4. Val(f, store', gone', kind, Provider) BY <1>2, <1>6, <1>7 DEF Val
  <2>5. Carried(f, store', gone', kind, Provider) BY <1>6, <1>7, <2>2 DEF Carried
  <2> QED BY <2>3, <2>4, <2>5
<1>12. \A s \in Sids : owner'[s] # q.who => store'[s] = store[s] BY <1>2
<1>13. f.plain => req[r].plain BY <1>4, <1>5
<1> QED BY <1>2, <1>6, <1>9, <1>10, <1>11, <1>12, <1>13, Continues

\* A request goes on moving a session.
LEMMA MovingOn ==
  ASSUME SInv, IInv', NEW r \in Requests, NEW q, q = req[r], Regenerates(q),
         NEW f, req' = [req EXCEPT ![r] = f], Others(r), NEW S,
         SameBut(f, q, S), S \subseteq {"at", "seen"}, f.at \in {"move", "take"},
         UNCHANGED <<kind, owner, jar, calm, gone>>, late \subseteq late',
         \A s \in Sids \ {q.old, q.new} : store'[s] = store[s],
         store'[q.old] \in {Absent, store[q.old]} \/ q.old \notin gone \ late',
         Store.save = "update" /\ store[q.old] # Absent => store'[q.old] # Absent,
         f.at = "move" /\ Provider.regen = "rekey" => store'[q.old] # Absent,
         q.plain /\ q.own = q.old /\ q.own \notin gone /\ kind # "cookie" =>
           /\ f.at = "move" => /\ q.before = Decoded(f.seen)
                               /\ Provider.regen = "rename" => f.seen = store'[q.old]
           /\ f.at = "take" =>
                /\ store'[q.old] = Absent
                /\ q.before = Decoded(IF Provider.regen = "rename" THEN store'[q.new] ELSE f.seen)
  PROVE  SInv'
<1>2. /\ q.at # "idle" /\ q.at # "read" /\ q \in Req /\ q.who \in Browsers /\ q.old \in Sids
      /\ q.new \in Sids /\ q.old # NoSid /\ FirstCookie(q) = q.old
      /\ owner[q.old] = q.who /\ owner[q.new] = q.who /\ q.new \notin gone /\ q.sid # q.new
      /\ ReqOk(q, owner, Provider.regen) /\ ~q.done
  BY TwoIds
<1>3. S \cap {"cookies", "field", "sid", "old", "out"} = {} OBVIOUS
<1>4. FirstCookie(f) = FirstCookie(q) BY <1>2, <1>3, SameUses
<1>5. /\ f.who = q.who /\ f.sid = q.sid /\ f.out = q.out /\ f.old = q.old /\ f.new = q.new
      /\ f.own = q.own /\ f.plain = q.plain /\ f.inCtx = q.inCtx /\ f.done = q.done
      /\ f.before = q.before
  BY DEF SameBut, Fields
<1>6. req'[r] = f /\ Grows BY SameGrows DEF SInv, IInv, Types
<1>7. GoneInv'
  <2>1. \A s \in gone \ late : s \in Sids /\ store[s] = Absent /\ GoneAt(q, s)
    BY DEF SInv, GoneInv, IInv, Types
  <2>2. \A s \in gone \ late' : store'[s] = Absent /\ GoneAt(f, s)
    BY <1>2, <1>5, <2>1 DEF GoneAt
  <2> QED BY <1>6, <2>2, GoneKept DEF SInv
<1>8. q.sid \in Sids BY <1>2 DEF ReqOk, Req, Ids
<1>9. PlainOk(f, jar[f.who], store', gone', kind, Provider, Store.save)
  <2>1. SUFFICES ASSUME q.plain
                 PROVE  /\ Stay(f, jar[q.who], store', Provider, Store.save)
                        /\ Val(f, store', gone, kind, Provider)
                        /\ Carried(f, store', gone, kind, Provider)
    BY <1>2, <1>5 DEF PlainOk
  <2>2. /\ Stay(q, jar[q.who], store, Provider, Store.save) /\ Val(q, store, gone, kind, Provider)
    BY <1>2, <2>1, PlainKnows
  <2>3. q.sid # q.old => store'[q.sid] = store[q.sid] BY <1>2, <1>8
  <2>4. Stay(f, jar[q.who], store', Provider, Store.save) BY <1>2, <1>5, <2>2, <2>3 DEF Stay
  <2>5. Val(f, store', gone, kind, Provider) BY <1>2, <1>4, <1>5, <2>2 DEF Val
  <2>6. Carried(f, store', gone, kind, Provider) BY <1>2, <1>4, <1>5, <2>1 DEF Carried
  <2> QED BY <2>4, <2>5, <2>6
<1>10. \A s \in Sids : owner'[s] # q.who => store'[s] = store[s] BY <1>2
<1>11. f.at # "read" /\ (f.plain => req[r].plain) BY <1>5
<1> QED BY <1>2, <1>5, <1>6, <1>7, <1>9, <1>10, <1>11, Continues

\* SessionRegenerate: its first call of the store.
LEMMA RegenLookSound ==
  ASSUME SInv, NEW r \in Requests, RegenLook(r)
  PROVE  SInv'
<1>1. PICK q, d, v : q = req[r] /\ d = store[q.old] /\ v = Decoded(d) OBVIOUS
<1>2. /\ q.at = "regen" /\ Regenerates(q) /\ UNCHANGED <<kind, owner, gone>> /\ Grows
      /\ late' = IF Provider.regen = "rekey" THEN late \cup ({q.old} \cap gone) ELSE late
  BY <1>1, SameGrows DEF RegenLook, Same, Regenerates, SInv
<1>3. IInv' /\ Others(r) BY RegenLookKeeps DEF SInv
<1>4. /\ q \in Req /\ q.who \in Browsers /\ q.old \in Sids /\ q.new \in Sids /\ q.old # q.new
      /\ q.old # NoSid /\ FirstCookie(q) = q.old /\ owner[q.old] = q.who
      /\ owner[q.new] = q.who /\ q.new \notin gone /\ ReqOk(q, owner, Provider.regen)
  BY <1>1, <1>2, TwoIds
<1>5. store \in [Sids -> Data] /\ req \in [Requests -> Req] BY DEF SInv, IInv, Types
<1>6. d \in Data /\ v \in Values BY <1>1, <1>4, StoredOwn DEF SInv
<1>7. ASSUME q.plain, q.own = q.old, q.own \notin gone, kind # "cookie"
      PROVE  q.before = v /\ (d = Raw => Provider.hasRaw)
  BY <1>1, <1>2, <1>4, <1>7, PlainKnows DEF Carried
<1>8. /\ Store.save = "update" => Provider.regen = "rekey"
      /\ Provider.regen = "copy" => ~Provider.hasRaw
      /\ Provider.regen = "empty" => kind = "ledis"
  BY ProviderFacts DEF SInv
<1>9. CASE /\ Provider.regen = "atomic"
           /\ store' = [store EXCEPT ![q.new] = IF d # Absent THEN d ELSE Raw, ![q.old] = Absent]
           /\ req' = [req EXCEPT ![r] = Moved(q, v)] /\ UNCHANGED <<jar, calm>>
  <2>1. (\A s \in Sids \ {q.old, q.new} : store'[s] = store[s]) /\ store'[q.old] = Absent
    BY <1>4, <1>5, <1>9
  <2>2. late \subseteq late' /\ Store.save # "update" BY <1>2, <1>8, <1>9
  <2> QED BY <1>1, <1>2, <1>3, <1>6, <1>7, <1>9, <2>1, <2>2, MovedSound
<1>10. CASE /\ Provider.regen = "empty" /\ store' = [store EXCEPT ![q.new] = Raw]
            /\ req' = [req EXCEPT ![r] = Moved(q, Empty)] /\ UNCHANGED <<jar, calm>>
  <2>1. /\ \A s \in Sids \ {q.old, q.new} : store'[s] = store[s]
        /\ store'[q.old] = store[q.old]
    BY <1>4, <1>5, <1>10
  <2>2. late \subseteq late' /\ Store.save # "update" /\ Empty \in Values /\ kind = "ledis"
    BY <1>2, <1>8, <1>10 DEF Values
  <2> QED BY <1>1, <1>2, <1>3, <1>10, <2>1, <2>2, MovedSound
<1>11. CASE /\ Provider.regen = "panic" /\ store' = (IF q.inCtx THEN Released(q) ELSE store)
            /\ Gone(r, "unknown")
  <2>1. PICK how, st : how = Store.save /\ st = Saved(how, q) OBVIOUS
  <2>2. q.at \notin {"idle", "read"} BY <1>2
  <2>3. q.sid \in Sids /\ owner[q.sid] = q.who /\ \A s \in Sids \ {q.sid} : st[s] = store[s]
    <3>1. q.sid # NoSid /\ q.sid # Keep /\ q.sid \in Uses(q)
      BY <1>2, <1>4, SessionAssumption DEF ReqOk, Req, Uses, Ids, Sids
    <3>2. q.sid \in Sids /\ owner[q.sid] = q.who BY <1>1, <1>2, <3>1, UsedOwned DEF SInv
    <3> QED BY <1>5, <2>1, <3>2 DEF Saved, Put
  <2>4. store' = IF q.inCtx THEN st ELSE store BY <1>11, <2>1 DEF Released
  <2>5. \A s \in gone \ late : s \in Sids /\ store[s] = Absent /\ GoneAt(q, s)
    BY <1>1 DEF SInv, GoneInv, IInv, Types
  <2>6. \A s \in gone \ late : store'[s] = Absent BY <2>3, <2>4, <2>5 DEF GoneAt
  <2>7. \A s \in Sids : owner'[s] # q.who => store'[s] = store[s] BY <1>2, <2>3, <2>4
  <2>8. UNCHANGED <<gone, late>> BY <1>2, <1>11
  <2> QED BY <1>1, <1>2, <1>3, <1>11, <2>2, <2>6, <2>7, <2>8, EndsUnknown
<1>12. CASE /\ Provider.regen \in {"rename", "copy"} /\ UNCHANGED <<store, jar, calm>>
            /\ req' = [req EXCEPT ![r] = Looking(q, d,
                 IF Provider.regen = "copy" /\ d \in {Absent, Raw} THEN "take" ELSE "move")]
  <2>1. PICK at, f :
          /\ at = IF Provider.regen = "copy" /\ d \in {Absent, Raw} THEN "take" ELSE "move"
          /\ f = Looking(q, d, at)
    OBVIOUS
  <2>2. SameBut(f, q, {"seen", "at"}) /\ f.seen = d /\ f.at = at
    <3>1. at \in Places BY <2>1 DEF Places
    <3> QED BY <1>4, <1>6, <2>1, <3>1, LookingOk
  <2>3. /\ req' = [req EXCEPT ![r] = f] /\ late \subseteq late' /\ f.at \in {"move", "take"}
        /\ {"seen", "at"} \subseteq {"at", "seen"}
    BY <1>2, <1>12, <2>1, <2>2
  <2>4. ASSUME q.plain, q.own = q.old, q.own \notin gone, kind # "cookie"
        PROVE  /\ f.at = "move" => /\ q.before = Decoded(f.seen)
                                   /\ Provider.regen = "rename" => f.seen = store'[q.old]
               /\ f.at = "take" =>
                    /\ store'[q.old] = Absent
                    /\ q.before = Decoded(IF Provider.regen = "rename" THEN store'[q.new] ELSE f.seen)
    BY <1>1, <1>7, <1>8, <1>12, <2>1, <2>2, <2>4
  <2>5. Provider.regen # "rekey" BY <1>12
  <2> QED BY <1>1, <1>2, <1>3, <1>12, <2>2, <2>3, <2>4, <2>5, MovingOn
<1>13. CASE /\ Provider.regen = "rekey" /\ UNCHANGED <<jar, calm>>
            /\ store' = (IF d # Absent THEN store ELSE [store EXCEPT ![q.old] = Raw])
            /\ req' = [req EXCEPT ![r] = Looking(q, d, "move")]
  <2>1. PICK f : f = Looking(q, d, "move") OBVIOUS
  <2>2. SameBut(f, q, {"seen", "at"}) /\ f.seen = d /\ f.at = "move"
    <3>1. "move" \in Places BY DEF Places
    <3> QED BY <1>4, <1>6, <2>1, <3>1, LookingOk
  <2>3. /\ req' = [req EXCEPT ![r] = f] /\ late \subseteq late' /\ f.at \in {"move", "take"}
        /\ {"seen", "at"} \subseteq {"at", "seen"}
    BY <1>2, <1>13, <2>1, <2>2
  <2>4. /\ \A s \in Sids \ {q.old, q.new} : store'[s] = store[s]
        /\ store'[q.old] # Absent /\ q.old \notin gone \ late'
    BY <1>1, <1>2, <1>4, <1>5, <1>13
  <2>5. ASSUME q.plain, q.own = q.old, q.own \notin gone, kind # "cookie"
        PROVE  q.before = Decoded(f.seen) /\ f.at # "take" /\ Provider.regen # "rename"
    BY <1>1, <1>7, <1>13, <2>2, <2>5
  <2> QED BY <1>1, <1>2, <1>3, <2>2, <2>3, <2>4, <2>5, <1>13, MovingOn
<1> QED BY <1>1, <1>9, <1>10, <1>11, <1>12, <1>13 DEF RegenLook, Looking, Put

\* SessionRegenerate: RENAME, UPDATE of the key, or DEL.
LEMMA RegenMoveSound ==
  ASSUME SInv, NEW r \in Requests, RegenMove(r)
  PROVE  SInv'
<1>1. PICK q, d, v : q = req[r] /\ d = store[q.old] /\ v = Decoded(q.seen) OBVIOUS
<1>2. /\ q.at = "move" /\ Regenerates(q)
      /\ UNCHANGED <<kind, owner, jar, calm, gone, late>>
  BY <1>1 DEF RegenMove, Same, Quiet, Regenerates
<1>3. IInv' /\ Others(r) BY RegenMoveKeeps DEF SInv
<1>4. /\ q \in Req /\ q.who \in Browsers /\ q.old \in Sids /\ q.new \in Sids /\ q.old # q.new
      /\ q.old # NoSid /\ FirstCookie(q) = q.old /\ ReqOk(q, owner, Provider.regen)
  BY <1>1, <1>2, TwoIds
<1>5. store \in [Sids -> Data] /\ req \in [Requests -> Req] BY DEF SInv, IInv, Types
<1>6. Provider.regen \in {"rename", "rekey", "copy"} /\ v \in Values
  BY <1>1, <1>2, <1>4 DEF ReqOk, Decoded, Values
<1>7. ASSUME q.plain, q.own = q.old, q.own \notin gone, kind # "cookie"
      PROVE  q.before = v /\ (Provider.regen = "rename" => q.seen = d)
  BY <1>1, <1>2, <1>4, <1>7, PlainKnows DEF Carried
<1>8. Store.save = "update" => Provider.regen = "rekey" BY ProviderFacts DEF SInv
<1>9. ASSUME store' = Renamed(q)
      PROVE  /\ \A s \in Sids \ {q.old, q.new} : store'[s] = store[s]
             /\ store'[q.old] = Absent
             /\ d # Absent => store'[q.new] = d
  BY <1>1, <1>4, <1>5, <1>9 DEF Renamed
<1>10. PICK f : f = Going(q, "take") OBVIOUS
<1>11. SameBut(f, q, {"at"}) /\ f.at = "take" /\ f.seen = q.seen /\ f.at \in {"move", "take"}
       /\ {"at"} \subseteq {"at", "seen"}
  <2>1. "take" \in Places BY DEF Places
  <2>2. SameBut(f, q, {"at"}) /\ f.at = "take" BY <1>4, <1>10, <2>1, GoingOk
  <2> QED BY <2>2 DEF SameBut, Fields
<1>12. CASE /\ Provider.regen = "rename" /\ req' = [req EXCEPT ![r] = f]
            /\ store' = IF q.seen = Absent THEN [store EXCEPT ![q.new] = Raw] ELSE Renamed(q)
  <2>1. /\ \A s \in Sids \ {q.old, q.new} : store'[s] = store[s]
        /\ store'[q.old] \in {Absent, store[q.old]}
    BY <1>4, <1>5, <1>9, <1>12
  <2>2. ASSUME q.plain, q.own = q.old, q.own \notin gone, kind # "cookie"
        PROVE  store'[q.old] = Absent /\ q.before = Decoded(store'[q.new])
    <3>1. q.before = v /\ q.seen = d BY <1>7, <1>12, <2>2
    <3>2. CASE q.seen = Absent
      <4>1. store'[q.new] = Raw /\ store'[q.old] = d BY <1>1, <1>4, <1>5, <1>12, <3>2
      <4> QED BY <1>1, <3>1, <3>2, <4>1 DEF Decoded
    <3>3. CASE q.seen # Absent BY <1>1, <1>9, <1>12, <3>1, <3>3
    <3> QED BY <3>2, <3>3
  <2>3. late \subseteq late' /\ Store.save # "update" BY <1>2, <1>8, <1>12
  <2> QED BY <1>1, <1>2, <1>3, <1>11, <1>12, <2>1, <2>2, <2>3, MovingOn
<1>13. CASE Provider.regen = "rekey" /\ req' = [req EXCEPT ![r] = Moved(q, v)]
            /\ store' = Renamed(q)
  <2>1. CASE q.plain
    <3>1. d # Absent BY <1>1, <1>2, <1>13, <2>1, PlainKnows DEF Stay
    <3>2. late \subseteq late' /\ store'[q.new] # Absent BY <1>2, <1>9, <1>13, <3>1
    <3> QED BY <1>1, <1>2, <1>3, <1>6, <1>7, <1>9, <1>13, <3>2, MovedSound
  <2>2. CASE ~q.plain
    <3>1. late \subseteq late' BY <1>2
    <3> QED BY <1>1, <1>2, <1>3, <1>6, <1>9, <1>13, <2>2, <3>1, MovedSound
  <2> QED BY <2>1, <2>2
<1>14. CASE /\ Provider.regen = "copy" /\ req' = [req EXCEPT ![r] = f]
            /\ store' = [store EXCEPT ![q.old] = Absent]
  <2>1. (\A s \in Sids \ {q.old, q.new} : store'[s] = store[s]) /\ store'[q.old] = Absent
    BY <1>4, <1>5, <1>14
  <2>2. late \subseteq late' /\ Store.save # "update" BY <1>2, <1>8, <1>14
  <2> QED BY <1>1, <1>2, <1>3, <1>7, <1>11, <1>14, <2>1, <2>2, MovingOn
<1> QED BY <1>1, <1>6, <1>10, <1>12, <1>13, <1>14 DEF RegenMove, Going, Put

\* SessionRegenerate: GET of the new key, or SETX of it.
LEMMA RegenTakeSound ==
  ASSUME SInv, NEW r \in Requests, RegenTake(r)
  PROVE  SInv'
<1>1. PICK q, kept : q = req[r] /\ kept = IF q.seen = Absent THEN Raw ELSE q.seen OBVIOUS
<1>2. /\ q.at = "take" /\ Regenerates(q)
      /\ UNCHANGED <<kind, owner, jar, calm, gone, late>>
  BY <1>1 DEF RegenTake, Same, Quiet, Regenerates
<1>3. IInv' /\ Others(r) BY RegenTakeKeeps DEF SInv
<1>4. /\ q \in Req /\ q.who \in Browsers /\ q.old \in Sids /\ q.new \in Sids /\ q.old # q.new
      /\ q.old # NoSid /\ FirstCookie(q) = q.old /\ ReqOk(q, owner, Provider.regen)
  BY <1>1, <1>2, TwoIds
<1>5. store \in [Sids -> Data] /\ req \in [Requests -> Req] BY DEF SInv, IInv, Types
<1>6. ASSUME q.plain, q.own = q.old, q.own \notin gone, kind # "cookie"
      PROVE  /\ store[q.old] = Absent
             /\ q.before = Decoded(IF Provider.regen = "rename" THEN store[q.new] ELSE q.seen)
  BY <1>1, <1>2, <1>4, <1>6, PlainKnows DEF Carried
<1>7. Store.save # "update"
  <2>1. Provider.regen # "rekey" BY <1>2, <1>4 DEF ReqOk
  <2> QED BY <2>1, ProviderFacts DEF SInv
<1>8. CASE /\ Provider.regen = "rename" /\ store' = store
           /\ req' = [req EXCEPT ![r] = Moved(q, Decoded(store[q.new]))]
  <2>1. Decoded(store[q.new]) \in Values BY <1>4, StoredOwn DEF SInv
  <2>2. late \subseteq late' /\ \A s \in Sids : store'[s] = store[s] BY <1>2, <1>8
  <2> QED BY <1>1, <1>2, <1>3, <1>4, <1>6, <1>7, <1>8, <2>1, <2>2, MovedSound
<1>9. CASE /\ Provider.regen # "rename" /\ store' = [store EXCEPT ![q.new] = kept]
           /\ req' = [req EXCEPT ![r] = Moved(q, Decoded(kept))]
  <2>1. Decoded(kept) = Decoded(q.seen) /\ Decoded(kept) \in Values
    BY <1>1, <1>2, <1>4 DEF Decoded, ReqOk, Values
  <2>2. late \subseteq late' /\ \A s \in Sids \ {q.old, q.new} : store'[s] = store[s]
    BY <1>2, <1>4, <1>5, <1>9
  <2>3. store'[q.old] = store[q.old] BY <1>4, <1>5, <1>9
  <2> QED BY <1>1, <1>2, <1>3, <1>6, <1>7, <1>9, <2>1, <2>2, <2>3, MovedSound
<1> QED BY <1>1, <1>8, <1>9 DEF RegenTake, Put

\* The deferred SessionRelease, and what the browser keeps of the answer.
LEMMA EndSound ==
  ASSUME SInv, NEW r \in Requests, End(r)
  PROVE  SInv'
<1>1. PICK q, w : q = req[r] /\ w = q.who OBVIOUS
<1>2. q.at = "handler" /\ q.at # "idle" /\ UNCHANGED <<kind, gone, late>> BY <1>1 DEF End, Same
<1>3. IInv' /\ Others(r) BY EndKeeps DEF SInv
<1>4. /\ q \in Req /\ ReqOk(q, owner, Provider.regen) /\ w \in Browsers
      /\ q.val \in {Empty, w} /\ Decoded(q.val) = q.val
  <2>1. q \in Req /\ ReqOk(q, owner, Provider.regen) /\ w \in Browsers
    BY <1>1, <1>2, Mine1 DEF SInv
  <2>2. q.val \in {Empty, w} BY <1>1, <1>2, <2>1 DEF ReqOk
  <2> QED BY <2>1, <2>2, DecodedOwn
<1>5. /\ store \in [Sids -> Data] /\ req \in [Requests -> Req] /\ jar \in [Browsers -> Ids]
      /\ calm \in [Browsers -> Values \cup {"unknown"}]
      /\ owner \in [Sids -> {"nobody"} \cup Browsers]
  BY DEF SInv, IInv, Types
<1>6. q.sid \in Sids /\ owner[q.sid] = w /\ q.sid # NoSid /\ q.sid # Keep
  <2>1. q.sid # NoSid /\ q.sid # Keep /\ q.sid \in Uses(q)
    BY <1>2, <1>4, SessionAssumption DEF ReqOk, Req, Uses, Ids, Sids
  <2> QED BY <1>1, <1>2, <2>1, UsedOwned DEF SInv
<1>7. \A s \in gone \ late : s \in Sids /\ store[s] = Absent /\ GoneAt(q, s)
  BY <1>1 DEF SInv, GoneInv, IInv, Types
\* With a plain record the browser has the id of the session.
<1>8. ASSUME q.plain, q.inCtx
      PROVE  /\ q.sid = IF q.out = Keep THEN jar[w] ELSE q.out
             /\ Store.save = "update" => store[q.sid] # Absent
             /\ q.shut => q.val = Decoded(store[q.sid])
  BY <1>1, <1>2, <1>8, PlainKnows DEF Stay
<1>9. SUFFICES /\ Grows /\ req'[r] = Fresh
               /\ \A b \in Browsers \ {w} : jar'[b] = jar[b] /\ calm'[b] = calm[b]
               /\ \A s \in Sids : owner'[s] # w => store'[s] = store[s]
               /\ \A s \in gone \ late : store'[s] = Absent
               /\ calm'[w] # "unknown" =>
                    calm'[w] = IF jar'[w] = NoSid THEN Empty ELSE Decoded(store'[jar'[w]])
  <2>1. Acts(w) BY <1>2, <1>4, <1>9 DEF Acts
  <2>2. CalmAt(w)' BY <1>9 DEF CalmAt
  <2>3. GoneInv'
    <3>1. \A s : GoneAt(Fresh, s) BY DEF GoneAt, Fresh
    <3> QED BY <1>2, <1>3, <1>9, <3>1, GoneKept DEF SInv
  <2> QED BY <1>1, <1>2, <1>3, <1>9, <2>1, <2>2, <2>3, Ends
<1>10. ASSUME NEW e, Gone(r, e)
       PROVE  /\ req'[r] = Fresh
              /\ \A b \in Browsers \ {w} : jar'[b] = jar[b] /\ calm'[b] = calm[b]
              /\ jar'[w] = (IF q.out = Keep THEN jar[w] ELSE q.out)
              /\ calm'[w] = (IF q.plain THEN e ELSE "unknown")
  BY <1>1, <1>4, <1>5, <1>10 DEF Gone
<1>11. CASE /\ ~q.inCtx /\ UNCHANGED <<store, owner>>
            /\ Gone(r, IF q.out = NoSid THEN Empty ELSE "unknown")
  <2>1. Grows BY <1>2, <1>11, SameGrows DEF SInv
  <2>2. q.out = NoSid => q.out # Keep OBVIOUS
  <2> QED BY <1>7, <1>10, <1>11, <2>1, <2>2
<1>12. CASE q.inCtx /\ kind # "cookie" /\ store' = Released(q) /\ Gone(r, q.val) /\ owner' = owner
  <2>1. Grows BY <1>2, <1>12, SameGrows DEF SInv
  <2>2. /\ \A s \in Sids \ {q.sid} : store'[s] = store[s]
        /\ q.shut => store' = store
        /\ ~q.shut /\ ~(Store.save = "update" /\ store[q.sid] = Absent) => store'[q.sid] = q.val
    BY <1>5, <1>6, <1>12 DEF Released, Saved, Put
  <2>3. \A s \in gone \ late : store'[s] = Absent BY <1>7, <1>12, <2>2 DEF GoneAt
  <2>4. ASSUME q.plain
        PROVE  q.val = IF jar'[w] = NoSid THEN Empty ELSE Decoded(store'[jar'[w]])
    BY <1>4, <1>6, <1>8, <1>10, <1>12, <2>2, <2>4
  <2> QED BY <1>6, <1>10, <1>12, <2>1, <2>2, <2>3, <2>4
<1>13. CASE /\ q.inCtx /\ kind = "cookie" /\ Unused # {}
            /\ owner' = [owner EXCEPT ![NewSid] = q.who] /\ store' = [store EXCEPT ![NewSid] = q.val]
            /\ jar' = IF q.sent THEN (IF q.out = Keep THEN jar ELSE [jar EXCEPT ![q.who] = q.out])
                      ELSE [jar EXCEPT ![q.who] = NewSid]
            /\ calm' = [calm EXCEPT ![q.who] = IF q.plain /\ ~q.sent THEN q.val ELSE "unknown"]
            /\ req' = [req EXCEPT ![r] = Fresh]
  <2>1. PICK n : n = NewSid OBVIOUS
  <2>2. n \in Sids /\ n # NoSid /\ owner[n] = "nobody"
    BY <1>13, <2>1, NewSidFree, SessionAssumption DEF Free, Sids
  <2>3. owner' = [owner EXCEPT ![n] = w] /\ store' = [store EXCEPT ![n] = q.val]
    BY <1>1, <1>13, <2>1
  <2>4. Grows /\ owner'[n] = w BY <1>2, <1>4, <1>5, <2>2, <2>3 DEF Grows
  <2>5. store'[n] = q.val /\ \A s \in Sids \ {n} : store'[s] = store[s] BY <1>5, <2>2, <2>3
  <2>6. gone = {} BY <1>13 DEF SInv, GoneInv
  <2>7. req'[r] = Fresh BY <1>5, <1>13
  <2>8. \A b \in Browsers \ {w} : jar'[b] = jar[b] /\ calm'[b] = calm[b]
    BY <1>1, <1>5, <1>13
  <2>9. calm'[w] # "unknown" =>
          calm'[w] = IF jar'[w] = NoSid THEN Empty ELSE Decoded(store'[jar'[w]])
    BY <1>1, <1>4, <1>5, <1>13, <2>1, <2>2, <2>5
  <2> QED BY <2>4, <2>5, <2>6, <2>7, <2>8, <2>9
<1> QED BY <1>1, <1>11, <1>12, <1>13 DEF End, EncodedCookie, Put

\* The store forgets a session.
LEMMA ExpireSound ==
  ASSUME SInv, NEW s \in Sids, Expire(s)
  PROVE  SInv'
<1>1. PICK w : w = owner[s] OBVIOUS
<1>2. /\ UNCHANGED <<kind, owner, jar, gone, late>> /\ store[s] # Absent
      /\ store' = [store EXCEPT ![s] = Absent]
      /\ calm' = [calm EXCEPT ![w] = "unknown"]
      /\ req' = [p \in Requests |-> IF req[p].who = w THEN [req[p] EXCEPT !.plain = FALSE]
                                    ELSE req[p]]
  BY <1>1 DEF Expire, Same, Put
<1>3. /\ store \in [Sids -> Data] /\ req \in [Requests -> Req] /\ jar \in [Browsers -> Ids]
      /\ calm \in [Browsers -> Values \cup {"unknown"}]
      /\ owner \in [Sids -> {"nobody"} \cup Browsers]
  BY DEF SInv, IInv, Types
<1>4. IInv' BY ExpireKeeps DEF SInv
<1>5. w \in Browsers /\ store' \in [Sids -> Data]
  BY <1>1, <1>2, <1>3, <1>4 DEF SInv, IInv, StoreOk, Types
<1>6. ASSUME NEW p \in Requests
      PROVE  /\ Twin(req'[p], req[p]) /\ req'[p].who = req[p].who /\ req'[p].at = req[p].at
             /\ req'[p].inCtx = req[p].inCtx /\ req'[p].sid = req[p].sid
             /\ req'[p].old = req[p].old
             /\ (req'[p].plain => req[p].plain /\ req[p].who # w)
  <2>1. Twin(req'[p], req[p]) BY <1>2 DEF Twin
  <2>2. SameBut(req'[p], req[p], {"plain"}) /\ (req'[p].plain => req[p].plain)
    BY <1>3, <2>1, TwinOk
  <2>3. req[p].who = w => ~req'[p].plain
    <3>1. req[p].who = w => req'[p] = [req[p] EXCEPT !.plain = FALSE] BY <1>2
    <3>2. req[p] \in Req BY <1>3
    <3> QED BY <3>1, <3>2 DEF Req
  <2> QED BY <2>1, <2>2, <2>3 DEF SameBut, Fields
<1>7. GoneInv'
  <2>1. \A t \in gone' \ late' : store'[t] = Absent BY <1>2, <1>3 DEF SInv, GoneInv, IInv, Types
  <2>2. \A t \in gone' \ late', p \in Requests : GoneAt(req'[p], t)
    BY <1>2, <1>6 DEF SInv, GoneInv, GoneAt
  <2>3. kind' = "cookie" => gone' = {} BY <1>2 DEF SInv, GoneInv
  <2> QED BY <2>1, <2>2, <2>3 DEF GoneInv, GoneAt
<1>8. AloneInv' BY <1>6 DEF SInv, AloneInv
<1>9. \A t \in Sids : owner[t] # w => store'[t] = store[t] BY <1>1, <1>2, <1>3
<1>10. CalmInv'
  <2> SUFFICES ASSUME NEW b \in Browsers PROVE CalmAt(b)' BY DEF CalmInv
  <2>1. CASE b = w
    <3>1. calm'[b] = "unknown" BY <1>2, <1>3, <2>1
    <3> QED BY <3>1 DEF CalmAt
  <2>2. CASE b # w
    <3>1. calm'[b] = calm[b] /\ jar'[b] = jar[b] BY <1>2, <1>3, <2>2
    <3>2. jar[b] # NoSid => jar[b] \in Sids /\ owner[jar[b]] = b
      BY <1>3, SessionAssumption DEF SInv, IInv, JarOk, Mine, Ids, Sids
    <3>3. jar[b] # NoSid => store'[jar[b]] = store[jar[b]] BY <1>9, <2>2, <3>2
    <3>4. CalmAt(b) BY DEF SInv, CalmInv
    <3> QED BY <1>6, <3>1, <3>3, <3>4 DEF CalmAt
  <2> QED BY <2>1, <2>2
<1>11. PlainInv'
  <2>1. Provider' = Provider /\ Store' = Store BY <1>2, SameProvider
  <2> SUFFICES ASSUME NEW p \in Requests
               PROVE  PlainOk(req'[p], jar'[req'[p].who], store', gone', kind, Provider, Store.save)
    BY <1>2, <2>1 DEF PlainInv, PlainOk, Stay, Val, Carried, FirstCookie
  <2>2. CASE req[p].at = "idle" \/ req[p].who = w
    <3>1. ~req'[p].plain \/ req'[p].at = "idle" BY <1>6, <2>2
    <3> QED BY <3>1 DEF PlainOk
  <2>3. CASE req[p].at # "idle" /\ req[p].who # w
    <3>1. PICK q : q = req[p] OBVIOUS
    <3>2. q \in Req /\ Twin(req'[p], q) /\ req'[p].who = q.who /\ ReqOk(q, owner, Provider.regen)
      BY <1>6, <3>1, Mine1 DEF SInv
    <3>3. \A t \in (Uses(q) \cup {q.new, q.own}) \cap Sids : store'[t] = store[t]
      <4>1. Uses(q) \cup {q.new, q.own} \subseteq Mine(q.who, owner)
        BY <2>3, <3>1, <3>2 DEF ReqOk
      <4>2. \A t \in Mine(q.who, owner) \cap Sids : owner[t] = q.who
        BY SessionAssumption DEF Mine, Sids
      <4> QED BY <1>9, <2>3, <3>1, <4>1, <4>2
    <3>4. PlainOk(q, jar[q.who], store, gone, kind, Provider, Store.save)
      BY <3>1 DEF SInv, PlainInv
    <3>5. PICK k, pr, sv, j, o : /\ k = kind /\ pr = Provider /\ sv = Store.save
                                 /\ j = jar[q.who] /\ o = owner
      OBVIOUS
    <3>6. ReqOk(q, o, pr.regen) /\ PlainOk(q, j, store, gone, k, pr, sv) BY <3>2, <3>4, <3>5
    <3>7. gone \subseteq gone' BY <1>2
    <3>8. PlainOk(req'[p], j, store', gone', k, pr, sv) BY <3>2, <3>3, <3>6, <3>7, PlainKept
    <3> QED BY <1>2, <3>2, <3>5, <3>8
  <2> QED BY <2>2, <2>3
<1> QED BY <1>4, <1>7, <1>8, <1>10, <1>11 DEF SInv

\* Every step.
LEMMA NextSound ==
  ASSUME SInv, [Next]_vars
  PROVE  SInv'
<1>1. CASE UNCHANGED vars
  <2>1. UNCHANGED <<kind, store, owner, jar, req, gone, late, calm>> BY <1>1 DEF vars
  <2>2. IInv' BY <1>1, NextKeeps DEF SInv
  <2>3. GoneInv' /\ AloneInv' /\ CalmInv'
    BY <2>1 DEF SInv, GoneInv, GoneAt, AloneInv, CalmInv, CalmAt
  <2>4. Provider' = Provider /\ Store' = Store BY <2>1, SameProvider
  <2>5. PlainInv'
    BY <2>1, <2>4 DEF SInv, PlainInv, PlainOk, Stay, Val, Carried, FirstCookie
  <2> QED BY <2>2, <2>3, <2>5 DEF SInv
<1> QED BY <1>1, BeginSound, StartReadSound, SetSessionSound, RenderSound, DestroySessionSound,
           ReleaseIfPresentSound, RegenerateIDSound, AskProviderSound, RegenLookSound,
           RegenMoveSound, RegenTakeSound, EndSound, ExpireSound DEF Next

\* Nothing is stored, and every browser expects nothing.
LEMMA InitSound ==
  ASSUME Init
  PROVE  SInv
<1>1. \A r \in Requests : req[r] = Fresh BY DEF Init
<1>2. Fresh.at = "idle" /\ \A s : GoneAt(Fresh, s) BY DEF Fresh, GoneAt
<1>3. GoneInv /\ AloneInv /\ PlainInv
  BY <1>1, <1>2 DEF Init, GoneInv, AloneInv, PlainInv, PlainOk
<1>4. CalmInv BY DEF Init, CalmInv, CalmAt
<1> QED BY <1>3, <1>4, InitHolds DEF SInv

\* From the invariant, the four parts of SessionsSound.
LEMMA SoundIs == SInv => SessionsSound
<1> SUFFICES ASSUME SInv PROVE SessionsSound OBVIOUS
<1>1. TypeOK
  <2>1. \A r \in Requests : req[r].inCtx \/ req[r].inCtl => req[r].sid # NoSid
    BY Mine1 DEF SInv, ReqOk
  <2>2. /\ store \in [Sids -> {Absent, Raw, Empty} \cup Browsers]
        /\ owner \in [Sids -> {"nobody"} \cup Browsers] /\ jar \in [Browsers -> Sids \cup {NoSid}]
        /\ gone \subseteq Sids /\ late \subseteq Sids
    BY DEF SInv, IInv, Types, Data, Ids
  <2> QED BY <2>1, <2>2 DEF TypeOK
<1>2. DestroyedStaysGone BY DEF SInv, GoneInv, DestroyedStaysGone
<1>3. Continuity
  <2> SUFFICES ASSUME NEW b \in Browsers, \A r \in Requests : req[r].who # b, calm[b] # "unknown"
               PROVE  calm[b] = IF jar[b] = NoSid THEN Empty ELSE Decoded(store[jar[b]])
    BY DEF Continuity
  <2> QED BY DEF SInv, CalmInv, CalmAt
<1>4. RegenerateKeeps
  <2> SUFFICES ASSUME NEW r \in Requests, NEW q, q = req[r], q.done, q.plain, q.old = q.own,
                      q.old \notin gone, kind # "ledis"
               PROVE  q.got = q.before /\ store[q.old] = Absent
    BY DEF RegenerateKeeps
  <2>1. q.at = "handler" /\ FirstCookie(q) = q.old /\ kind # "cookie"
    BY Mine1, ProviderFacts DEF SInv, ReqOk
  <2>2. Carried(q, store, gone, kind, Provider) BY <2>1, PlainKnows
  <2> QED BY <2>1, <2>2 DEF Carried
<1> QED BY <1>1, <1>2, <1>3, <1>4 DEF SessionsSound

\* SessionsSound holds in every reachable state: SessionStart brings no
\* destroyed session back (DestroyedStaysGone), a browser whose request ran by
\* itself finds at the next one what that left (Continuity), and
\* SessionRegenerateID keeps the values and leaves nothing under the old id
\* (RegenerateKeeps).
THEOREM SessionsCorrect == Spec => []SessionsSound
<1>1. Spec => []SInv BY InitSound, NextSound, PTL DEF Spec
<1> QED BY <1>1, SoundIs, PTL
==============================================================================
