----------------------------- MODULE WebPipeline -----------------------------
(***************************************************************************)
(* One request after another through the web server (server/web: router.go *)
(* ServeHTTP and serveHttp, filter.go, policy.go, error.go, config.go;     *)
(* server/web/context: context.go, input.go, output.go), each with a       *)
(* context from the pool.  Filters, policies and handlers are the user's:  *)
(* they answer, set a status, steer the request to a controller or panic.  *)
(* A panic unwinds the deferred calls: the session is released, then the   *)
(* recover function answers, then the context goes back to the pool.       *)
(***************************************************************************)
EXTENDS Integers, FiniteSets

CONSTANTS MaxRequests,   \* requests, one after another: a bound
          MaxFilters     \* filters of one position, policies, chain filters: a bound

VARIABLES
  options,     \* the configuration's RecoverPanic and EnableErrorsShow
  pc, k,       \* the stage of the request, and how many filters of it have run
  n,           \* the number of the request
  ctx,         \* its context
  sent,        \* the status the client gets, 0 while none was sent
  panicking,   \* what a panic carries: "none", "stop" (ErrAbort), "named", "other"
  inner, outer,   \* sessions to release: of serveHttp, of session filters
  wanted,      \* history: the status asked for, until a direct write overtakes it
  before,      \* history: sent when the panic began
  cut          \* the panic reached net/http, which closes the connection

vars == <<options, pc, k, n, ctx, sent, panicking, inner, outer, wanted, before, cut>>

OwnStatuses == {200, 201}   \* what user code sets with Output.SetStatus
Named == 403                \* a page of ErrorMaps

NewContext == [started |-> FALSE, status |-> 0, out |-> 0, run |-> 0, sess |-> 0]

\* Context.Reset: Response.reset, BeegoInput.Reset, BeegoOutput.Reset.  What
\* filters put in RunController and RunMethod stays.
Reset(c) == [c EXCEPT !.started = FALSE, !.status = 0, !.out = 0, !.sess = 0]

Init ==
  /\ options \in [RecoverPanic : BOOLEAN, EnableErrorsShow : BOOLEAN]
  /\ pc = "idle" /\ k = 0 /\ n = 0 /\ ctx = NewContext /\ sent = 0
  /\ panicking = "none" /\ inner = 0 /\ outer = 0 /\ wanted = 0 /\ before = 0 /\ cut = FALSE

-----------------------------------------------------------------------------
(* Answering.  An answer is the context, the status that was sent and the  *)
(* one that is wanted.                                                     *)

Now == [c |-> ctx, s |-> sent, w |-> wanted, p |-> "none"]

\* Response.Write: net/http sends 200 with the first bytes.
Write(a) ==
  [a EXCEPT !.c.started = TRUE, !.s = IF a.s = 0 THEN 200 ELSE a.s, !.w = IF a.s = 0 THEN 0 ELSE a.w]

\* Response.WriteHeader: only the first one counts, here and in net/http.
WriteHeader(a, code) ==
  IF a.c.status > 0 THEN a
  ELSE [a EXCEPT !.c.status = code, !.c.started = TRUE, !.s = IF a.s = 0 THEN code ELSE a.s]

\* BeegoOutput.SetStatus.
SetStatus(a, code) == [a EXCEPT !.c.out = code, !.w = IF a.s = 0 THEN code ELSE a.w]

\* BeegoOutput.Body; JSON, XML, YAML and Render end in it.
Body(a) ==
  IF a.c.out # 0 THEN [WriteHeader(a, a.c.out) EXCEPT !.c.out = 0]
  ELSE Write(a)

\* notFound, internalServerError and the other pages of ErrorMaps.
ErrorPage(a) == Write(a)

\* exception and executeError, with an error handler or an error controller,
\* whose Render may fail and panics then.
Exceptions(a, code) ==
  LET w == IF a.s = 0 THEN [a EXCEPT !.w = code] ELSE a
      c == SetStatus(a, code)
  IN  {ErrorPage(WriteHeader(w, code)), Body(c), [c EXCEPT !.p = "other"]}

\* http.Error, http.Redirect and http.ServeFile, on the context's Response.
Direct(a, code) == Write(WriteHeader(IF a.s = 0 THEN [a EXCEPT !.w = code] ELSE a, code))

\* The methods a controller does not define.
NotAllowed(a) == Direct(a, 405)

Redirect(a) == Direct(a, 302)
Download(a) == Direct(a, 200)

\* JSON, JSONP, XML, YAML, Proto and ServeFormatted; encoding may fail.
Formatted(a) == {Body(a), Direct(a, 500)}

\* RenderMethodResult: nothing, a status, an error or a value.
MethodResult(a) ==
  {a, Body(SetStatus(a, 500))} \cup {SetStatus(a, code) : code \in OwnStatuses} \cup Formatted(a)

StopRun(a) == [a EXCEPT !.p = "stop"]

\* Abort takes the code for the status, or 200 if it is no number.  A code of
\* ErrorMaps is left to the recover function; any other is the answer.
Statuses == {Named, 200}
Abort(a) == {[SetStatus(a, code) EXCEPT !.p = "named"] : code \in Statuses}
CustomAbort(a) == {StopRun(Write(WriteHeader(SetStatus(a, code), code))) : code \in Statuses}

\* What user code may do.
UserCode(a) ==
  {Write(a), [a EXCEPT !.p = "other"], NotAllowed(a), Redirect(a), Download(a), StopRun(a)}
    \cup Abort(a) \cup CustomAbort(a) \cup MethodResult(a)

-----------------------------------------------------------------------------
(* Stages.                                                                 *)

Go(to) == pc' = to /\ k' = 0 /\ UNCHANGED <<n, ctx, sent, panicking, inner, outer, wanted, before, cut>>

\* The answer a; then on to the stage "to", or unwind.
Then(a, to, kk) ==
  /\ ctx' = a.c /\ sent' = a.s /\ wanted' = a.w /\ panicking' = a.p
  /\ pc' = IF a.p = "none" THEN to ELSE "unwind"
  /\ k' = IF a.p = "none" THEN kk ELSE 0
  /\ before' = IF a.p = "none" THEN before ELSE sent
  /\ UNCHANGED <<n, inner, outer, cut>>

Exception(code) == \E a \in Exceptions(Now, code) : Then(a, "admin", 0)

\* ServeHTTP: a context of the pool, or a new one.
Take ==
  /\ pc = "idle" /\ n < MaxRequests
  /\ n' = n + 1
  /\ ctx' \in {Reset(ctx), Reset(NewContext)}
  /\ pc' = "chain" /\ k' = 0 /\ sent' = 0 /\ panicking' = "none" /\ inner' = 0 /\ outer' = 0
  /\ wanted' = 0 /\ before' = 0 /\ cut' = FALSE

\* A filter of the chain calls the next one, or answers itself.
Chain ==
  /\ pc = "chain"
  /\ \/ Go("method")
     \/ k < MaxFilters /\ \E a \in {Now, Write(Now)} : Then(a, "chain", k + 1)
     \/ k < MaxFilters /\ Then(Write(Now), "giveback", 0)

\* A chain filter that panics: nobody recovers.
ChainPanics ==
  /\ pc = "chain" /\ k < MaxFilters
  /\ pc' = "giveback" /\ cut' = TRUE /\ k' = 0
  /\ UNCHANGED <<n, ctx, sent, panicking, inner, outer, wanted, before>>

\* The session filter does not call the next filter if there is a session.
SessionFilter ==
  /\ pc = "chain" /\ k < MaxFilters
  /\ \/ ctx.sess # 0 /\ Go("giveback")
     \/ /\ ctx.sess = 0
        /\ \/ /\ ctx' = [ctx EXCEPT !.sess = n] /\ outer' = outer + 1
              /\ UNCHANGED <<pc, n, sent, panicking, inner, wanted, before, cut>>
           \/ UNCHANGED <<pc, n, ctx, sent, panicking, inner, outer, wanted, before, cut>>
        /\ k' = k + 1

KnownMethod == pc = "method" /\ (Go("BeforeStatic") \/ Exception(405))

After == [BeforeStatic |-> "static", BeforeRouter |-> "route", BeforeExec |-> "policy",
          AfterExec |-> "FinishRouter", FinishRouter |-> "admin"]
Positions == DOMAIN After

\* execFilter: one filter, that stops the request once there is output
\* (returnOnOutput) or not.
ExecFilter ==
  /\ pc \in Positions
  /\ \/ Go(After[pc])
     \/ /\ k < MaxFilters
        /\ \E returnOnOutput \in BOOLEAN :
             IF returnOnOutput /\ ctx.started THEN Go("admin")
             ELSE \E a \in UserCode(Now) :
                    Then(a, IF returnOnOutput /\ a.c.started THEN "admin" ELSE pc, k + 1)

\* A filter in front of the router sets RunController and RunMethod.
Steer ==
  /\ pc \in {"BeforeStatic", "BeforeRouter"} /\ k < MaxFilters
  /\ Then([Now EXCEPT !.c.run = n], pc, k + 1)

\* serverStaticRouter.
Static ==
  /\ pc = "static"
  /\ \/ Then(Direct(Now, 200), "admin", 0)
     \/ Exception(Named)
     \/ Go(IF ctx.started THEN "admin" ELSE "body")

\* The size of the body, and its parsing.
CopyBody == pc = "body" /\ (Go("session") \/ Exception(413) \/ Exception(500))

\* Sessions are on or off for the route FindRouter gives, or for all.
SessionStart ==
  /\ pc = "session"
  /\ \/ Go("BeforeRouter")
     \/ Exception(503)
     \/ /\ ctx' = [ctx EXCEPT !.sess = n] /\ inner' = inner + 1 /\ pc' = "BeforeRouter"
        /\ UNCHANGED <<k, n, sent, panicking, outer, wanted, before, cut>>

\* The controller a filter chose, or FindRouter's.
Route ==
  /\ pc = "route"
  /\ \/ Go("BeforeExec")
     \/ ctx.run = 0 /\ Exception(404)

ExecPolicy ==
  /\ pc = "policy"
  /\ \/ Go("dispatch")
     \/ k < MaxFilters /\ \E a \in UserCode(Now) : Then(a, IF a.c.started THEN "admin" ELSE "policy", k + 1)

\* A function or http.Handler runs at once; a controller is prepared.  A
\* session may be destroyed by what runs.
Dispatch ==
  /\ pc = "dispatch"
  /\ \/ ctx.run = 0 /\ \E a \in UserCode(Now) : Then(a, "AfterExec", 0)
     \/ ctx.run = 0 /\ Exception(405)
     \/ \E a \in UserCode(Now) : Then(a, "xsrf", 0)

\* CheckXSRFCookie: 422, 417.
CheckXSRF ==
  /\ pc = "xsrf"
  /\ \/ Go("exec")
     \/ Then([SetStatus(Now, 422) EXCEPT !.p = "named"], "exec", 0)

\* The method of the controller, and Render if that left it to do; a Render
\* that fails is only logged.
Rendered(a) ==
  IF a.p = "none" /\ ~a.c.started /\ a.c.out = 0 THEN {a, Body(a)} ELSE {a}
Exec ==
  /\ pc = "exec"
  /\ IF ctx.started THEN Go("finish")
     ELSE \E a \in UserCode(Now) : \E r \in Rendered(a) : Then(r, "finish", 0)

DestroySession ==
  /\ pc = "exec" /\ ctx.sess # 0
  /\ ctx' = [ctx EXCEPT !.sess = 0]
  /\ UNCHANGED <<pc, k, n, sent, panicking, inner, outer, wanted, before, cut>>

Finish == pc = "finish" /\ \E a \in UserCode(Now) : Then(a, "AfterExec", 0)

Admin ==
  /\ pc = "admin"
  /\ Then(IF ctx.out # 0 THEN WriteHeader(Now, ctx.out) ELSE Now, "unwind", 0)

-----------------------------------------------------------------------------
(* Deferred calls.                                                         *)

\* Mutant: the session is released only when nothing panicked.
ReleaseQuiet ==
  /\ pc = "unwind"
  /\ inner' = IF panicking = "none" THEN 0 ELSE inner
  /\ pc' = "recover" /\ UNCHANGED <<k, n, ctx, sent, panicking, outer, wanted, before, cut>>

\* serveHttp's: if CruSession is still there.
Release ==
  /\ pc = "unwind"
  /\ inner' = 0
  /\ pc' = "recover" /\ UNCHANGED <<k, n, ctx, sent, panicking, outer, wanted, before, cut>>

\* showErr: the page with the stack.
ShowErr(a) == Write(a)

\* defaultRecoverPanic of a panic that is not ErrAbort and not in ErrorMaps:
\* the status that was set, or 500, and in development the stack.
Crashed(a) ==
  LET h == WriteHeader(IF a.c.out = 0 /\ a.s = 0 THEN [a EXCEPT !.w = 500] ELSE a,
                       IF a.c.out # 0 THEN a.c.out ELSE 500)
  IN  {h, ShowErr(h)}

\* With RecoverPanic off it panics again, and so does an error controller
\* whose Render fails: both now for net/http.
Recovered ==
  IF panicking \in {"none", "stop"} THEN {Now}
  ELSE IF ~options.RecoverPanic THEN {[Now EXCEPT !.p = "other"]}
  ELSE IF options.EnableErrorsShow /\ panicking = "named" THEN Exceptions(Now, ctx.out)
  ELSE Crashed(Now)

RecoverPanic ==
  /\ pc = "recover"
  /\ \E a \in Recovered :
       /\ ctx' = a.c /\ sent' = a.s /\ wanted' = a.w /\ cut' = (a.p # "none")
  /\ pc' = "giveback" /\ UNCHANGED <<k, n, panicking, inner, outer, before>>

\* Session filters release theirs; the context goes to the pool; net/http
\* sends 200 if nothing was sent.
GiveBackContext ==
  /\ pc = "giveback"
  /\ outer' = 0
  /\ sent' = IF sent = 0 /\ ~cut THEN 200 ELSE sent
  /\ pc' = "idle" /\ UNCHANGED <<k, n, ctx, panicking, inner, wanted, before, cut>>

Step ==
  \/ Take \/ Chain \/ ChainPanics \/ SessionFilter \/ KnownMethod \/ ExecFilter \/ Steer \/ Static
  \/ CopyBody \/ SessionStart \/ Route \/ ExecPolicy \/ Dispatch \/ CheckXSRF \/ Exec \/ DestroySession
  \/ Finish \/ Admin \/ Release \/ RecoverPanic \/ GiveBackContext

Next == Step /\ UNCHANGED options

Spec == Init /\ [][Next]_vars

-----------------------------------------------------------------------------
(* Properties.                                                             *)

\* No filter or handler sees the session of another request, whatever the
\* last user of the context left in it.
SessionIsOwn == pc # "idle" => ctx.sess \in {0, n}

\* When the context is back in the pool every session that was started for
\* the request has been released, however the request ended.
SessionsReleased == pc = "idle" => inner = 0 /\ outer = 0

\* A status asked for before anything was sent is the one the client gets,
\* also when the handler, a later filter or a policy panics.  (StopRun is the
\* exception: a status that was only set is forgotten then.)
StatusDelivered ==
  pc = "idle" /\ wanted # 0 /\ panicking # "stop" /\ ~cut => sent = wanted

\* When nothing was sent before a panic that is not ErrAbort, the client gets
\* 200 only if that was asked for (as Abort does for a code that is no number):
\* a crash is not taken for success.
PanicShows ==
  pc = "idle" /\ panicking \in {"named", "other"} /\ before = 0 /\ ~cut =>
    (sent = 200 => wanted = 200)

\* "Reset initializes Context, BeegoInput and BeegoOutput": the controller a
\* request runs is the router's, or one that a filter of this request chose.
OwnHandler == pc = "dispatch" => ctx.run \in {0, n}

\* A pooled context shows a request nothing of another one, and every way out
\* of the handler saves the session and tells the client its status.
PipelineSound ==
  /\ SessionIsOwn
  /\ SessionsReleased
  /\ StatusDelivered
  /\ PanicShows

=============================================================================
