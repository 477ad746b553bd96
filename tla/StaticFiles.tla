---------------------------- MODULE StaticFiles ------------------------------
(***************************************************************************)
(* Static files (server/web/staticfile.go) and the compressors they share  *)
(* with the answers' bodies (server/web/context/acceptencoder.go).  A      *)
(* request looks at the file, then at the cache, and reads the file if     *)
(* what is cached was made of a file with another time or size; in between *)
(* the file may change, and other requests fill the cache.                 *)
(***************************************************************************)
EXTENDS Integers, FiniteSets

CONSTANTS Requests,      \* requests in flight
          MaxVersion,    \* changes of the file: a bound
          MaxTime,       \* file times: a bound
          CacheFiles     \* StaticCacheFileNum

VARIABLES file,    \* the file: [version, mtime, size]; version 0 is no file
          cache,   \* what is cached, by encoding
          req,     \* the requests
          level,   \* gzipCompressLevel
          custom, best,   \* the pools of compressors: the levels of what is in them
          past     \* history: the times and sizes the file has had

staticVars == <<file, cache, req, level, custom, best, past>>

Encodings == {"", "gzip"}

\* ParseEncoding: the best the request accepts; any of them for some request.
ParseEncoding == Encodings

Sizes == {1, 2, 3}
CacheSize == 2          \* StaticCacheFileSize
BestSpeed == 1
BestCompression == 9
Empty == [version |-> 0, mtime |-> 0, size |-> 0, enc |-> ""]
Start == [pc |-> "start", fi |-> Empty, enc |-> "", since |-> 0, got |-> Empty]

Init ==
  /\ file = [version |-> 1, mtime |-> 1, size |-> 1]
  /\ cache = [e \in Encodings |-> Empty]
  /\ req = [r \in Requests |-> Start]
  /\ level \in {5, BestCompression} /\ custom = {} /\ best = {} /\ past = {<<file.mtime, file.size>>}

\* Somebody writes or removes the file.
Change ==
  /\ file.version < MaxVersion
  /\ \E t \in {file.mtime, file.mtime + 1}, s \in Sizes :
       /\ t <= MaxTime
       /\ file' = [version |-> file.version + 1, mtime |-> t, size |-> s]
       /\ past' = past \cup {<<t, s>>}
  /\ UNCHANGED <<cache, req, level, custom, best>>

-----------------------------------------------------------------------------
(* Compressors.                                                            *)

\* acceptEncoder.put: where a used compressor of level l goes.
Put(l) ==
  CASE l = level -> custom' = custom \cup {l} /\ UNCHANGED best
    [] l # level /\ l = BestCompression -> best' = best \cup {l} /\ UNCHANGED custom
    [] OTHER -> UNCHANGED <<custom, best>>

\* acceptEncoder.encode: the level of the compressor that is used for level l.
Encode(l) ==
  CASE l = BestSpeed -> custom \cup {level}
    [] l = BestCompression -> best \cup {BestCompression}
    [] OTHER -> {l}

\* WriteBody: the body of an answer.
WriteBody ==
  /\ \E l \in Encode(level) : Put(l)
  /\ UNCHANGED <<file, cache, req, level, past>>

-----------------------------------------------------------------------------
(* A request.                                                              *)

\* Mutant: the size decides.
IsOkBySize(s, fi) == s.version # 0 /\ s.size <= CacheSize /\ s.size = fi.size

\* isOk: what is cached was made of the file that fi describes.
IsOk(s, fi) == s.version # 0 /\ s.size <= CacheSize /\ s.mtime = fi.mtime /\ s.size = fi.size

\* lookupFile and ParseEncoding; big files are not cached.
Look(r) ==
  /\ req[r].pc = "start"
  /\ \E e \in ParseEncoding :
       req' = [req EXCEPT ![r] = [pc |-> IF file.size > CacheSize THEN "serve" ELSE "check",
                                  fi |-> file, enc |-> e, since |-> file.version, got |-> Empty]]
  /\ UNCHANGED <<file, cache, level, custom, best, past>>

\* http.ServeFile.
ServeFile(r) ==
  /\ req[r].pc = "serve"
  /\ req' = [req EXCEPT ![r].pc = "done", ![r].got = [version |-> file.version, mtime |-> file.mtime,
                                                      size |-> file.size, enc |-> req[r].enc]]
  /\ UNCHANGED <<file, cache, level, custom, best, past>>

\* mapKey; the path is the same for all.
Key(enc) == enc

\* openFile under the read lock.
Check(r) ==
  /\ req[r].pc = "check"
  /\ LET s == cache[Key(req[r].enc)] IN
       IF IsOk(s, req[r].fi)
       THEN req' = [req EXCEPT ![r].pc = "done", ![r].got = s]
       ELSE req' = [req EXCEPT ![r].pc = "open"]
  /\ UNCHANGED <<file, cache, level, custom, best, past>>

\* The cache after an entry was added; lru.Add drops the one used longest ago.
Added(k, s) ==
  IF Cardinality({e \in Encodings : cache[e].version # 0} \cup {k}) <= CacheFiles
  THEN [cache EXCEPT ![k] = s]
  ELSE [e \in Encodings |-> IF e = k THEN s ELSE Empty]

\* openFile under the lock: looked at again, or read, compressed and kept.
\* What is read is the file as it is now, the time is that of fi.
Open(r) ==
  /\ req[r].pc = "open"
  /\ LET k == Key(req[r].enc)
         fi == req[r].fi
         new == [version |-> file.version, mtime |-> fi.mtime, size |-> fi.size, enc |-> req[r].enc]
     IN  IF IsOk(cache[k], fi)
         THEN req' = [req EXCEPT ![r].pc = "done", ![r].got = cache[k]] /\ UNCHANGED <<cache, custom, best>>
         ELSE /\ req' = [req EXCEPT ![r].pc = "done", ![r].got = new]
              /\ cache' = IF IsOk(new, fi) THEN Added(k, new) ELSE cache
              /\ IF req[r].enc = "" THEN UNCHANGED <<custom, best>>
                 ELSE \E l \in Encode(BestCompression) : Put(l)
  /\ UNCHANGED <<file, level, past>>

\* os.Open fails: 404.
Gone(r) ==
  /\ req[r].pc = "open" /\ ~IsOk(cache[Key(req[r].enc)], req[r].fi)
  /\ req' = [req EXCEPT ![r].pc = "done"]
  /\ UNCHANGED <<file, cache, level, custom, best, past>>

Again(r) ==
  /\ req[r].pc = "done" /\ req' = [req EXCEPT ![r] = Start]
  /\ UNCHANGED <<file, cache, level, custom, best, past>>

Next ==
  \/ Change \/ WriteBody
  \/ \E r \in Requests : Look(r) \/ ServeFile(r) \/ Check(r) \/ Open(r) \/ Gone(r) \/ Again(r)

Spec == Init /\ [][Next]_staticVars

-----------------------------------------------------------------------------
(* Properties.                                                             *)

\* Two versions of the file had the same time and size.
Coarse == Cardinality(past) < file.version

\* What a request gets is never older than the file it found when it began,
\* whatever others cached meanwhile, unless a change kept time and size.
Fresh ==
  \A r \in Requests :
    req[r].pc = "done" /\ req[r].got # Empty /\ ~Coarse => req[r].got.version >= req[r].since

\* What a request gets is compressed as it asked for.
EncodingRight ==
  \A r \in Requests : req[r].pc = "done" /\ req[r].got # Empty => req[r].got.enc = req[r].enc

\* The compressors of a pool have the level for which they are taken from it.
PoolsPure == custom \subseteq {level} /\ best \subseteq {BestCompression}

\* A static file is served as it is now, in an encoding the client takes, and
\* the pooled writers stay with their encoding and level.
StaticSound == Fresh /\ EncodingRight /\ PoolsPure

=============================================================================
