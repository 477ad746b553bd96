----------------------------- MODULE GraceServer -----------------------------
(***************************************************************************)
(* Hot restart (server/web/grace): a process with several listening        *)
(* servers forks a child on SIGHUP and hands it its sockets; each server   *)
(* of the child sends SIGTERM to the parent, whose servers then close      *)
(* their listeners, wait for their requests and end.  A server has a main  *)
(* goroutine (ListenAndServe, internalServe) and a signal goroutine        *)
(* (handleSignals) that meet on the unbuffered terminalChan.  Signals come *)
(* through unbuffered channels: one that finds the goroutine busy is lost. *)
(* The program is the one the package documents: ListenAndServe in a       *)
(* goroutine per address, and an exit when all of them have returned.      *)
(***************************************************************************)
EXTENDS Integers

CONSTANTS Servers,    \* addresses
          MaxGen,     \* processes, each the parent of the next: a bound
          MaxSignals  \* signals the operator sends: a bound

ASSUME GraceAssumption == MaxGen \in Nat \ {0} /\ MaxSignals \in Nat

Procs == 1 .. MaxGen
Insts == Procs \X Servers

VARIABLES
  proc,       \* is the process "unborn", "alive" or "dead"
  main,       \* where a server's main goroutine is
  handler,    \* where its handleSignals goroutine is
  state,      \* Server.state
  ln,         \* its listener: "nil", "open" or "closed"
  inherited,  \* the sockets a process got as ExtraFiles
  forked,     \* runningServersForked
  children,   \* history: processes it has started
  req,        \* is a request of the server being answered
  signals,    \* signals the operator has sent
  stopped,    \* history: the operator sent SIGINT
  early,      \* history: the operator signalled a process that was starting
  lost,       \* history: a signal found a handler busy, or ended a process
  forkFailed, \* history: a fork started no child, or one without some socket
  cut         \* history: a process ended during a request

procVars == <<proc, inherited, forked, children>>
history  == <<signals, stopped, early, lost, forkFailed, cut>>
vars == <<procVars, main, handler, state, ln, req, history>>

Init ==
  /\ proc = [p \in Procs |-> IF p = 1 THEN "alive" ELSE "unborn"]
  /\ main = [i \in Insts |-> "listen"] /\ handler = [i \in Insts |-> "off"]
  /\ state = [i \in Insts |-> "init"] /\ ln = [i \in Insts |-> "nil"]
  /\ inherited = [p \in Procs |-> {}]
  /\ forked = [p \in Procs |-> FALSE] /\ children = [p \in Procs |-> 0]
  /\ req = [i \in Insts |-> FALSE]
  /\ signals = 0 /\ stopped = FALSE /\ early = FALSE /\ lost = FALSE
  /\ forkFailed = FALSE /\ cut = FALSE

Alive(i)   == proc[i[1]] = "alive"
isChild(i) == i[1] > 1

\* Does a living process keep the socket of s open?
Held(s) ==
  \E p \in Procs : proc[p] = "alive" /\ (ln[<<p, s>>] = "open" \/ s \in inherited[p])

\* A process ends, in whatever its servers are doing.
End(p) ==
  /\ proc' = [proc EXCEPT ![p] = "dead"]
  /\ cut' = (cut \/ \E s \in Servers : req[<<p, s>>])

-----------------------------------------------------------------------------
(* The main goroutine of a server, after NewServer has registered it.      *)

Goto(i, label) == main' = [main EXCEPT ![i] = label]

\* The goroutine of go srv.handleSignals() calls signal.Notify, at some time.
Notify(i) ==
  /\ Alive(i) /\ handler[i] = "off"
  /\ handler' = [handler EXCEPT ![i] = "wait"]
  /\ UNCHANGED <<procVars, main, state, ln, req, history>>

\* getListener takes the inherited socket in a child and opens a new one
\* otherwise, which fails while the address is in use.
Listenable(i) == IF isChild(i) THEN i[2] \in inherited[i[1]] ELSE ~Held(i[2])

getListener(i) ==
  /\ Alive(i) /\ main[i] = "listen"
  /\ \/ /\ Listenable(i)
        /\ ln' = [ln EXCEPT ![i] = "open"]
        /\ Goto(i, IF isChild(i) THEN "signal" ELSE "serve")
     \/ /\ ~Listenable(i)
        /\ Goto(i, "failed")
        /\ UNCHANGED ln
  /\ UNCHANGED <<procVars, handler, state, req, history>>

\* signal.Notify's delivery to a process: each handler that waits gets the
\* signal, the others miss it; before any Notify it ends the process.
Deliver(p, sig) ==
  LET I == {i \in Insts : i[1] = p} IN
  \/ /\ \A i \in I : handler[i] = "off"
     /\ End(p)
     /\ lost' = TRUE
     /\ UNCHANGED handler
  \/ /\ \E i \in I : handler[i] # "off"
     /\ handler' = [i \in Insts |-> IF i \in I /\ handler[i] = "wait" THEN sig ELSE handler[i]]
     /\ lost' = (lost \/ \E i \in I : handler[i] # "wait")
     /\ UNCHANGED <<proc, cut>>

\* Mutant: the parent is looked up and not signalled.
SignalNobody(i) ==
  /\ Alive(i) /\ main[i] = "signal"
  /\ Goto(i, "serve")
  /\ UNCHANGED <<procVars, handler, state, ln, req, history>>

\* A child's server tells the parent to go.  Once the parent is gone Getppid
\* is the init process, which an ordinary user may not signal: the error ends
\* ListenAndServe.
SignalParent(i) ==
  /\ Alive(i) /\ main[i] = "signal"
  /\ \/ /\ proc[i[1] - 1] = "alive"
        /\ Deliver(i[1] - 1, "SIGTERM")
        /\ Goto(i, "serve")
     \/ /\ proc[i[1] - 1] = "dead"
        /\ Goto(i, "serve") \/ Goto(i, "failed")
        /\ UNCHANGED <<proc, handler, lost, cut>>
  /\ UNCHANGED <<inherited, forked, children, state, ln, req, signals, stopped, early, forkFailed>>

\* internalServe: srv.state = StateRunning, and http.Server.Serve.
Serve(i) ==
  /\ Alive(i) /\ main[i] = "serve"
  /\ state' = [state EXCEPT ![i] = "running"]
  /\ Goto(i, "serving")
  /\ UNCHANGED <<procVars, handler, ln, req, history>>

\* A connection is accepted; the bounds are one request at a time, none of the
\* last process, which nothing restarts, and none after a failed fork, of which
\* no property says anything.
Request(i) ==
  /\ Alive(i) /\ i[1] < MaxGen /\ main[i] = "serving" /\ ln[i] = "open"
  /\ \A j \in Insts : Alive(j) => ~req[j]
  /\ ~forkFailed
  /\ req' = [req EXCEPT ![i] = TRUE]
  /\ UNCHANGED <<procVars, main, handler, state, ln, history>>

Respond(i) ==
  /\ Alive(i) /\ req[i]
  /\ req' = [req EXCEPT ![i] = FALSE]
  /\ UNCHANGED <<procVars, main, handler, state, ln, history>>

\* The listener is closed: Serve returns ErrServerClosed and internalServe
\* waits for Shutdown.
ServeReturns(i) ==
  /\ Alive(i) /\ main[i] = "serving" /\ ln[i] = "closed"
  /\ Goto(i, "await")
  /\ UNCHANGED <<procVars, handler, state, ln, req, history>>

-----------------------------------------------------------------------------
(* The signal goroutine of a server.                                       *)

\* Mutant: the child gets the socket of one server only.
forkOneSocket(i) ==
  /\ Alive(i) /\ handler[i] = "SIGHUP"
  /\ \/ forked[i[1]] /\ UNCHANGED procVars
     \/ /\ ~forked[i[1]]
        /\ proc' = [proc EXCEPT ![i[1] + 1] = "alive"]
        /\ forked' = [forked EXCEPT ![i[1]] = TRUE]
        /\ children' = [children EXCEPT ![i[1]] = @ + 1]
        /\ inherited' = [inherited EXCEPT ![i[1] + 1] = {i[2]}]
  /\ handler' = [handler EXCEPT ![i] = "post"]
  /\ UNCHANGED <<main, state, ln, req, history>>

\* fork: the sockets that are open go to the child.  One that is closed is left
\* out, silently, and so is one that File() cannot duplicate; a server that has
\* no listener yet makes the process panic, and a child that cannot be launched
\* makes it exit (log.Fatalf), with whatever it was serving.
fork(i) ==
  /\ Alive(i) /\ handler[i] = "SIGHUP"
  /\ \/ /\ forked[i[1]]
        /\ handler' = [handler EXCEPT ![i] = "post"]
        /\ UNCHANGED <<procVars, forkFailed, cut>>
     \/ /\ ~forked[i[1]]
        /\ End(i[1])
        /\ forkFailed' = (forkFailed \/ \A s \in Servers : ln[<<i[1], s>>] # "nil")
        /\ UNCHANGED <<handler, inherited, forked, children>>
     \/ /\ ~forked[i[1]] /\ \A s \in Servers : ln[<<i[1], s>>] # "nil"
        /\ proc' = [proc EXCEPT ![i[1] + 1] = "alive"]
        /\ forked' = [forked EXCEPT ![i[1]] = TRUE]
        /\ children' = [children EXCEPT ![i[1]] = @ + 1]
        /\ \E F \in SUBSET {s \in Servers : ln[<<i[1], s>>] = "open"} :
             /\ inherited' = [inherited EXCEPT ![i[1] + 1] = F]
             /\ forkFailed' = (forkFailed \/ F # {s \in Servers : ln[<<i[1], s>>] = "open"})
        /\ handler' = [handler EXCEPT ![i] = "post"]
        /\ UNCHANGED cut
  /\ UNCHANGED <<main, state, ln, req, signals, stopped, early, lost>>

\* PostSignal hooks, and back to the channel.
PostSignal(i) ==
  /\ Alive(i) /\ handler[i] = "post"
  /\ handler' = [handler EXCEPT ![i] = "wait"]
  /\ UNCHANGED <<procVars, main, state, ln, req, history>>

\* shutdown: nothing unless the server runs; else Shutdown closes the listener.
shutdown(i) ==
  /\ Alive(i) /\ handler[i] = "SIGTERM"
  /\ \/ /\ state[i] # "running"
        /\ handler' = [handler EXCEPT ![i] = "post"]
        /\ UNCHANGED <<state, ln>>
     \/ /\ state[i] = "running"
        /\ state' = [state EXCEPT ![i] = "closing"]
        /\ ln' = [ln EXCEPT ![i] = "closed"]
        /\ handler' = [handler EXCEPT ![i] = "drain"]
  /\ UNCHANGED <<procVars, main, req, history>>

\* Shutdown returns when no request is left.
Drained(i) ==
  /\ Alive(i) /\ handler[i] = "drain" /\ ~req[i]
  /\ handler' = [handler EXCEPT ![i] = "send"]
  /\ UNCHANGED <<procVars, main, state, ln, req, history>>

\* Or with the error of DefaultTimeout: the request is given up.
DrainTimesOut(i) ==
  /\ Alive(i) /\ handler[i] = "drain" /\ req[i]
  /\ handler' = [handler EXCEPT ![i] = "send"]
  /\ req' = [req EXCEPT ![i] = FALSE]
  /\ UNCHANGED <<procVars, main, state, ln, history>>

\* terminalChan: the two goroutines meet, and ListenAndServe returns.
Terminal(i) ==
  /\ Alive(i) /\ handler[i] = "send" /\ main[i] = "await"
  /\ handler' = [handler EXCEPT ![i] = "post"]
  /\ state' = [state EXCEPT ![i] = "terminate"]
  /\ Goto(i, "done")
  /\ UNCHANGED <<procVars, ln, req, history>>

-----------------------------------------------------------------------------
(* The program and the operator.                                           *)

Over(i) == main[i] \in {"done", "failed"}

\* The program exits.
Exit(p) ==
  /\ proc[p] = "alive"
  /\ \A s \in Servers : Over(<<p, s>>)
  /\ End(p)
  /\ UNCHANGED <<inherited, forked, children, main, handler, state, ln, req,
                 signals, stopped, early, lost, forkFailed>>

\* Signals that the operator sends; the bounds are their number, and none after
\* a failed fork.
Starting(p) == \E s \in Servers : state[<<p, s>>] = "init" \/ handler[<<p, s>>] = "off"

SIGHUP(p) ==
  /\ proc[p] = "alive" /\ p < MaxGen
  /\ ~forkFailed /\ signals < MaxSignals /\ signals' = signals + 1
  /\ Deliver(p, "SIGHUP")
  /\ early' = (early \/ Starting(p))
  /\ UNCHANGED <<inherited, forked, children, main, state, ln, req, stopped, forkFailed>>

SIGINT(p) ==
  /\ proc[p] = "alive"
  /\ ~forkFailed /\ signals < MaxSignals /\ signals' = signals + 1
  /\ Deliver(p, "SIGTERM")
  /\ stopped' = TRUE /\ early' = (early \/ Starting(p))
  /\ UNCHANGED <<inherited, forked, children, main, state, ln, req, forkFailed>>

Main(i) ==
  \/ Notify(i) \/ getListener(i) \/ SignalParent(i) \/ Serve(i) \/ ServeReturns(i)

Handler(i) ==
  \/ fork(i) \/ PostSignal(i) \/ shutdown(i) \/ Drained(i) \/ DrainTimesOut(i) \/ Terminal(i)

Next ==
  \/ \E i \in Insts : Main(i) \/ Handler(i) \/ Request(i) \/ Respond(i)
  \/ \E p \in Procs : Exit(p) \/ SIGHUP(p) \/ SIGINT(p)

Spec == Init /\ [][Next]_vars

\* Goroutines run, DefaultTimeout ends the wait for requests, and a program
\* whose servers are over exits.  The operator and the clients need do nothing.
Fairness ==
  /\ \A i \in Insts : WF_vars(Main(i)) /\ WF_vars(Handler(i))
  /\ \A p \in Procs : WF_vars(Exit(p))

FairSpec == Spec /\ Fairness

-----------------------------------------------------------------------------
(* Properties.                                                             *)

\* Every variable has its type, and a process has at most one child, although
\* SIGHUP reaches the handler of each of its servers.
TypeOK ==
  /\ proc \in [Procs -> {"unborn", "alive", "dead"}]
  /\ main \in [Insts -> {"listen", "signal", "serve", "serving", "await", "done", "failed"}]
  /\ handler \in [Insts -> {"off", "wait", "SIGHUP", "SIGTERM", "post", "drain", "send"}]
  /\ state \in [Insts -> {"init", "running", "closing", "terminate"}]
  /\ ln \in [Insts -> {"nil", "open", "closed"}]
  /\ inherited \in [Procs -> SUBSET Servers] /\ forked \in [Procs -> BOOLEAN]
  /\ children \in [Procs -> 0 .. 1]
  /\ req \in [Insts -> BOOLEAN] /\ signals \in 0 .. MaxSignals
  /\ stopped \in BOOLEAN /\ early \in BOOLEAN /\ lost \in BOOLEAN
  /\ forkFailed \in BOOLEAN /\ cut \in BOOLEAN

\* As long as the operator only restarts, and only a process that is up, and
\* each fork gets its child started with all the sockets, every address that was
\* listened on stays open in some process: no connection is refused during a
\* restart.  A restart that cannot launch its child closes them all.
SocketKept ==
  ~stopped /\ ~early /\ ~forkFailed =>
    \A s \in Servers : (\E p \in Procs : ln[<<p, s>>] # "nil") => Held(s)

\* A process that was signalled when it was up, and whose fork did not fail,
\* cuts no request short, whether it is told to go by the operator or by the
\* servers of its child: it ends with its last server, after Shutdown, which
\* gives up only requests that outlive DefaultTimeout.
NoRequestCut == ~early /\ ~forkFailed => ~cut

\* A parent whose child has come up goes, unless a signal was lost.
ParentRetires ==
  \A p \in Procs \ {MaxGen} :
    (\A s \in Servers : main[<<p + 1, s>>] = "serving")
       ~> (proc[p] = "dead" \/ lost \/ early)

\* The package is for hot reload with several listeners (socketorder: "used
\* when more than one listener was started"): when the parent has gone, every
\* server of the child comes up.
HandoverComplete ==
  ~stopped /\ ~early /\ ~lost => \A i \in Insts : main[i] # "failed"

\* A restart whose child starts closes no address and cuts no request.
HandoverSound == TypeOK /\ SocketKept /\ NoRequestCut

=============================================================================
