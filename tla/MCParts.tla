------------------------------ MODULE MCParts -------------------------------
(***************************************************************************)
(* The parts of the web server, schedules, configurations, the file log,   *)
(* the cache adapters and the HTTP client, one at a time: which says which *)
(* of them a behaviour is about, and the variables of the others stay at   *)
(* Unused.                                                                 *)
(***************************************************************************)
EXTENDS Integers, Sequences, TLC

CONSTANTS MaxRequests, MaxFilters, MaxRoutes, LongPattern, ShortPattern, MaxPath,
          MaxSteps, Requests, MaxVersion, MaxTime, CacheFiles, Ids, Verifiers,
          MaxChallenges, Clients, Keys, Buckets, NoBucket, Capacity, Rate,
          RateTime, YearLimit, MaxLines, MaxSets, TreeCalls, Writers, MaxMsgs,
          LastDay, MaxFiles, MaxDays, MaxFaults, NKeys, Page, Half, Nil,
          CacheCalls, Reqs, Retries, DefaultCap, MaxAdds, MaxSends

VARIABLES which,
          options, pc, k, n, ctx, sent, panicking, inner, outer, wanted, before, cut, tree,
          routes, done, cs, routers, filters, parent, pattern, placed, got, file,
          cache, req, level, custom, best, past, store, made, shown, verify, spent,
          clock, step, key, bucket, buckets, free, remaining, last, granted, born,
          mark, spec, from, t, added, loop, ini, lines, pos, section, comment,
          mode, sets, saved, over, format, heap, held, treeCalls, prior, wrote,
          conf, today, fs, writer, job, timers, cleaners, msgs, faults, wrong,
          written, removed, orphans, adapter, redis, ctype, kept, expired, incring, clear,
          todo, asked, exist, cacheCalls, arrays, defaults, client, hreq, adds,
          sends, ran, received, given

Pipe == INSTANCE WebPipeline
Tree == INSTANCE RouterTree
Reg == INSTANCE WebRegister
Static == INSTANCE StaticFiles
Captchas == INSTANCE Captcha
Rates == INSTANCE RateLimit WITH MaxTime <- RateTime
Sched == INSTANCE Schedule
Ini == INSTANCE IniConfig
TreeConfigs == INSTANCE TreeConfig WITH calls <- treeCalls, MaxCalls <- TreeCalls
FileLogs == INSTANCE FileLog
Adapters == INSTANCE CacheAdapters WITH store <- kept, calls <- cacheCalls, MaxCalls <- CacheCalls
Http == INSTANCE HttpClient

\* What PartsProofs assumes of the constants.
ASSUME RatesAssumption == Rates!RateAssumption
ASSUME FilesAssumption == FileLogs!FileLogAssumption
ASSUME AdaptersAssumption == Adapters!AdapterAssumption

Unused == <<>>
PipeOff ==
  /\ options = Unused
  /\ pc = Unused /\ k = Unused /\ n = Unused /\ ctx = Unused /\ sent = Unused
  /\ panicking = Unused /\ inner = Unused /\ outer = Unused /\ wanted = Unused
  /\ before = Unused /\ cut = Unused
TreeOff ==
  /\ tree = Unused /\ routes = Unused /\ done = Unused
RegOff ==
  /\ cs = Unused /\ routers = Unused /\ filters = Unused /\ parent = Unused
  /\ pattern = Unused /\ placed = Unused /\ got = Unused
StaticOff ==
  /\ file = Unused /\ cache = Unused /\ req = Unused /\ level = Unused
  /\ custom = Unused /\ best = Unused /\ past = Unused
CaptchasOff ==
  /\ store = Unused /\ made = Unused /\ shown = Unused /\ verify = Unused
  /\ spent = Unused
RatesOff ==
  /\ clock = Unused /\ step = Unused /\ key = Unused /\ bucket = Unused
  /\ buckets = Unused /\ free = Unused /\ remaining = Unused /\ last = Unused
  /\ granted = Unused /\ born = Unused /\ mark = Unused
SchedOff ==
  /\ spec = Unused /\ from = Unused /\ t = Unused /\ added = Unused /\ loop = Unused
IniOff ==
  /\ ini = Unused /\ lines = Unused /\ pos = Unused /\ section = Unused
  /\ comment = Unused /\ mode = Unused /\ sets = Unused /\ saved = Unused
  /\ over = Unused
TreeConfigsOff ==
  /\ format = Unused /\ heap = Unused /\ held = Unused /\ treeCalls = Unused
  /\ prior = Unused /\ wrote = Unused
FileLogsOff ==
  /\ conf = Unused /\ today = Unused /\ fs = Unused /\ writer = Unused
  /\ job = Unused /\ timers = Unused /\ cleaners = Unused /\ msgs = Unused
  /\ faults = Unused /\ wrong = Unused /\ written = Unused /\ removed = Unused
  /\ orphans = Unused
AdaptersOff ==
  /\ adapter = Unused /\ redis = Unused /\ ctype = Unused /\ kept = Unused /\ expired = Unused
  /\ incring = Unused /\ clear = Unused /\ todo = Unused /\ asked = Unused
  /\ exist = Unused /\ cacheCalls = Unused
HttpOff ==
  /\ arrays = Unused /\ defaults = Unused /\ client = Unused /\ hreq = Unused
  /\ adds = Unused /\ sends = Unused /\ ran = Unused /\ received = Unused
  /\ given = Unused

pipeVars == <<options, pc, k, n, ctx, sent, panicking, inner, outer, wanted, before, cut>>
treeVars == <<tree, routes, done>>
registerVars == <<cs, routers, filters, parent, pattern, placed, got>>
staticVars == <<file, cache, req, level, custom, best, past>>
captchaVars == <<store, made, shown, verify, spent>>
rateVars ==
  <<clock, step, key, bucket, buckets, free, remaining, last, granted, born, mark>>
scheduleVars == <<spec, from, t, added, loop>>
iniVars == <<ini, lines, pos, section, comment, mode, sets, saved, over>>
treeconfigVars == <<format, heap, held, treeCalls, prior, wrote>>
filelogVars ==
  <<conf, today, fs, writer, job, timers, cleaners, msgs, faults, wrong, written,
    removed, orphans>>
adaptersVars ==
  <<adapter, redis, ctype, kept, expired, incring, clear, todo, asked, exist, cacheCalls>>
httpVars == <<arrays, defaults, client, hreq, adds, sends, ran, received, given>>
vars ==
  <<which, pipeVars, treeVars, registerVars, staticVars, captchaVars, rateVars,
  scheduleVars, iniVars, treeconfigVars, filelogVars, adaptersVars, httpVars>>

Init ==
  \/ /\ which = "pipe" /\ Pipe!Init
     /\ TreeOff /\ RegOff /\ StaticOff /\ CaptchasOff /\ RatesOff /\ SchedOff
     /\ IniOff /\ TreeConfigsOff /\ FileLogsOff /\ AdaptersOff /\ HttpOff
  \/ /\ which = "tree" /\ Tree!Init
     /\ PipeOff /\ RegOff /\ StaticOff /\ CaptchasOff /\ RatesOff /\ SchedOff
     /\ IniOff /\ TreeConfigsOff /\ FileLogsOff /\ AdaptersOff /\ HttpOff
  \/ /\ which = "register" /\ Reg!Init
     /\ PipeOff /\ TreeOff /\ StaticOff /\ CaptchasOff /\ RatesOff /\ SchedOff
     /\ IniOff /\ TreeConfigsOff /\ FileLogsOff /\ AdaptersOff /\ HttpOff
  \/ /\ which = "static" /\ Static!Init
     /\ PipeOff /\ TreeOff /\ RegOff /\ CaptchasOff /\ RatesOff /\ SchedOff
     /\ IniOff /\ TreeConfigsOff /\ FileLogsOff /\ AdaptersOff /\ HttpOff
  \/ /\ which = "captcha" /\ Captchas!Init
     /\ PipeOff /\ TreeOff /\ RegOff /\ StaticOff /\ RatesOff /\ SchedOff /\ IniOff
     /\ TreeConfigsOff /\ FileLogsOff /\ AdaptersOff /\ HttpOff
  \/ /\ which = "rate" /\ Rates!Init
     /\ PipeOff /\ TreeOff /\ RegOff /\ StaticOff /\ CaptchasOff /\ SchedOff
     /\ IniOff /\ TreeConfigsOff /\ FileLogsOff /\ AdaptersOff /\ HttpOff
  \/ /\ which = "schedule" /\ Sched!Init
     /\ PipeOff /\ TreeOff /\ RegOff /\ StaticOff /\ CaptchasOff /\ RatesOff
     /\ IniOff /\ TreeConfigsOff /\ FileLogsOff /\ AdaptersOff /\ HttpOff
  \/ /\ which = "ini" /\ Ini!Init
     /\ PipeOff /\ TreeOff /\ RegOff /\ StaticOff /\ CaptchasOff /\ RatesOff
     /\ SchedOff /\ TreeConfigsOff /\ FileLogsOff /\ AdaptersOff /\ HttpOff
  \/ /\ which = "treeconfig" /\ TreeConfigs!Init
     /\ PipeOff /\ TreeOff /\ RegOff /\ StaticOff /\ CaptchasOff /\ RatesOff
     /\ SchedOff /\ IniOff /\ FileLogsOff /\ AdaptersOff /\ HttpOff
  \/ /\ which = "filelog" /\ FileLogs!Init
     /\ PipeOff /\ TreeOff /\ RegOff /\ StaticOff /\ CaptchasOff /\ RatesOff
     /\ SchedOff /\ IniOff /\ TreeConfigsOff /\ AdaptersOff /\ HttpOff
  \/ /\ which = "adapters" /\ Adapters!Init
     /\ PipeOff /\ TreeOff /\ RegOff /\ StaticOff /\ CaptchasOff /\ RatesOff
     /\ SchedOff /\ IniOff /\ TreeConfigsOff /\ FileLogsOff /\ HttpOff
  \/ /\ which = "http" /\ Http!Init
     /\ PipeOff /\ TreeOff /\ RegOff /\ StaticOff /\ CaptchasOff /\ RatesOff
     /\ SchedOff /\ IniOff /\ TreeConfigsOff /\ FileLogsOff /\ AdaptersOff

Next ==
  \/ /\ which = "pipe" /\ Pipe!Next
     /\ UNCHANGED <<which, treeVars, registerVars, staticVars, captchaVars, rateVars,
                    scheduleVars, iniVars, treeconfigVars, filelogVars,
                    adaptersVars, httpVars>>
  \/ /\ which = "tree" /\ Tree!Next
     /\ UNCHANGED <<which, pipeVars, registerVars, staticVars, captchaVars, rateVars,
                    scheduleVars, iniVars, treeconfigVars, filelogVars,
                    adaptersVars, httpVars>>
  \/ /\ which = "register" /\ Reg!Next
     /\ UNCHANGED <<which, pipeVars, treeVars, staticVars, captchaVars, rateVars,
                    scheduleVars, iniVars, treeconfigVars, filelogVars,
                    adaptersVars, httpVars>>
  \/ /\ which = "static" /\ Static!Next
     /\ UNCHANGED <<which, pipeVars, treeVars, registerVars, captchaVars, rateVars,
                    scheduleVars, iniVars, treeconfigVars, filelogVars,
                    adaptersVars, httpVars>>
  \/ /\ which = "captcha" /\ Captchas!Next
     /\ UNCHANGED <<which, pipeVars, treeVars, registerVars, staticVars, rateVars,
                    scheduleVars, iniVars, treeconfigVars, filelogVars,
                    adaptersVars, httpVars>>
  \/ /\ which = "rate" /\ Rates!Next
     /\ UNCHANGED <<which, pipeVars, treeVars, registerVars, staticVars, captchaVars,
                    scheduleVars, iniVars, treeconfigVars, filelogVars,
                    adaptersVars, httpVars>>
  \/ /\ which = "schedule" /\ Sched!Next
     /\ UNCHANGED <<which, pipeVars, treeVars, registerVars, staticVars, captchaVars,
                    rateVars, iniVars, treeconfigVars, filelogVars, adaptersVars,
                    httpVars>>
  \/ /\ which = "ini" /\ Ini!Next
     /\ UNCHANGED <<which, pipeVars, treeVars, registerVars, staticVars, captchaVars,
                    rateVars, scheduleVars, treeconfigVars, filelogVars,
                    adaptersVars, httpVars>>
  \/ /\ which = "treeconfig" /\ TreeConfigs!Next
     /\ UNCHANGED <<which, pipeVars, treeVars, registerVars, staticVars, captchaVars,
                    rateVars, scheduleVars, iniVars, filelogVars, adaptersVars,
                    httpVars>>
  \/ /\ which = "filelog" /\ FileLogs!Next
     /\ UNCHANGED <<which, pipeVars, treeVars, registerVars, staticVars, captchaVars,
                    rateVars, scheduleVars, iniVars, treeconfigVars, adaptersVars,
                    httpVars>>
  \/ /\ which = "adapters" /\ Adapters!Next
     /\ UNCHANGED <<which, pipeVars, treeVars, registerVars, staticVars, captchaVars,
                    rateVars, scheduleVars, iniVars, treeconfigVars, filelogVars,
                    httpVars>>
  \/ /\ which = "http" /\ Http!Next
     /\ UNCHANGED <<which, pipeVars, treeVars, registerVars, staticVars, captchaVars,
                    rateVars, scheduleVars, iniVars, treeconfigVars, filelogVars,
                    adaptersVars>>

Spec == Init /\ [][Next]_vars

\* See WebPipeline: contexts are a request's own and sessions are released.
PipelineSound == which = "pipe" => Pipe!PipelineSound
\* See RouterTree: a request gets the route its path calls for.
RoutingSound == which = "tree" => Tree!RoutingSound
\* See WebRegister: routers end up where their full pattern says.
RegisterSound == which = "register" => Reg!RegisterSound
\* See StaticFiles: files are served as they are, encoded as asked.
StaticSound == which = "static" => Static!StaticSound
\* See Captcha: a challenge that was deleted after a try stays gone.
OneTry == which = "captcha" => Captchas!OneTry
\* See RateLimit: no more requests pass than the bucket allows.
LimitsHold == which = "rate" => Rates!LimitsHold
\* See Schedule: Next is the first time of the schedule to come.
NextSound == which = "schedule" => Sched!NextSound
\* See IniConfig: a saved configuration says the same when parsed.
\* See TreeConfig: a sub-configuration and its root agree.
ConfigsSound ==
  /\ which = "ini" => Ini!IniSound
  /\ which = "treeconfig" => TreeConfigs!TreeSound
\* See FileLog: rotation loses no line and goes on.
FileLogSound == which = "filelog" => FileLogs!FileLogSound
\* See CacheAdapters: adapters keep to their keys, and clear and count them right.
AdaptersSound == which = "adapters" => Adapters!AdaptersSound
\* See HttpClient: every try sends the whole request.
ClientSound == which = "http" => Http!ClientSound

Symmetry == Permutations(Requests) \cup Permutations(Writers)
=============================================================================
