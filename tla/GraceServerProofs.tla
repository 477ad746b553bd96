-------------------------- MODULE GraceServerProofs --------------------------
(***************************************************************************)
(* Hot restart keeps every socket open and cuts no request, for any number *)
(* of addresses, generations of processes and signals.                     *)
(*                                                                         *)
(* SocketKept looks at all processes; what carries it is the youngest one. *)
(* A parent may close its listeners as soon as one server of the child has *)
(* signalled it, so that the other sockets are held only as ExtraFiles     *)
(* the child has not got to yet.  The child must therefore stay alive,     *)
(* which it does because the server that signalled cannot fail any more    *)
(* (HandoverInv).                                                          *)
(***************************************************************************)
EXTENDS GraceServer, TLAPS

Born(p) == proc[p] # "unborn"

\* Processes are born in a row, each forked by the one before, and nothing has
\* happened in a process that is not born.
BirthInv ==
  /\ Born(1) /\ inherited[1] = {}
  /\ \A p \in Procs : forked[p] <=> p + 1 \in Procs /\ Born(p + 1)
  /\ \A p \in Procs : forked[p] => \E i \in Insts : i[1] = p /\ handler[i] # "off"
  /\ \E p \in Procs : Born(p) /\ ~forked[p]
  /\ \A p \in Procs : children[p] = IF forked[p] THEN 1 ELSE 0
  /\ \A p, q \in Procs : p < q /\ Born(q) => Born(p)
  /\ \A i \in Insts : ~Born(i[1]) => main[i] = "listen" /\ handler[i] = "off"

\* The goroutines of a server, its state and its listener agree; a process that
\* was up when SIGHUP came has all its servers past the start.
ServerInv ==
  \A i \in Insts :
    /\ state[i] = "init" <=> main[i] \in {"listen", "signal", "serve", "failed"}
    /\ ln[i] = "nil" => main[i] \in {"listen", "failed"}
    /\ main[i] = "listen" => ln[i] = "nil"
    /\ ln[i] = "closed" <=> state[i] \in {"closing", "terminate"}
    /\ handler[i] \in {"drain", "send"} => state[i] = "closing"
    /\ main[i] = "await" => state[i] = "closing"
    /\ main[i] = "done" <=> state[i] = "terminate"
    /\ main[i] = "signal" => i[1] # 1
    /\ handler[i] = "SIGHUP" => i[1] + 1 \in Procs
    /\ forked[i[1]] => ln[i] # "nil"
    /\ handler[i] = "SIGHUP" /\ ~early => \A j \in Insts : j[1] = i[1] => state[j] # "init"

\* A request is being answered only where ListenAndServe has not returned, and
\* not any more when its server reports the end of Shutdown; only a signal that
\* came too early, and a fork that failed, end a process with one.
RequestInv ==
  /\ \A i \in Insts : req[i] => main[i] \in {"serving", "await"} /\ handler[i] # "send"
  /\ cut => early \/ forkFailed

\* A server that has got past its signal to the parent, and one that was told
\* to go.
Past(i) == main[i] \in {"serve", "serving", "await", "done"}
Told(i) == handler[i] \in {"SIGTERM", "drain", "send"} \/ state[i] \in {"closing", "terminate"}

\* A process that was told to go, or has gone.
Leaving(p) == proc[p] = "dead" \/ \E i \in Insts : i[1] = p /\ Told(i)

\* While the operator only restarts what is up: no process has all its servers
\* failed; a process leaves only when a server of its child has got past its
\* signal; the youngest process lives, was told nothing, and in a child every
\* socket is inherited.
Handover(p) ==
  /\ \E i \in Insts : i[1] = p /\ main[i] # "failed"
  /\ forked[p] /\ Leaving(p) => \E i \in Insts : i[1] = p + 1 /\ Past(i)
  /\ ~forked[p] =>
       /\ ~Leaving(p)
       /\ p = 1 => \A i \in Insts : i[1] = 1 => main[i] # "failed"
       /\ p > 1 => inherited[p] = Servers
HandoverInv ==
  Servers # {} /\ ~stopped /\ ~early /\ ~forkFailed => \A p \in Procs : Born(p) => Handover(p)

IInv == TypeOK /\ BirthInv /\ ServerInv /\ RequestInv /\ HandoverInv

-----------------------------------------------------------------------------
\* A server instance is a process and an address.
LEMMA Pairs ==
  /\ \A i \in Insts : i[1] \in Procs /\ i[2] \in Servers /\ i = <<i[1], i[2]>>
  /\ \A p \in Procs, s \in Servers : <<p, s>> \in Insts /\ <<p, s>>[1] = p /\ <<p, s>>[2] = s
BY DEF Insts

\* The process of an instance.
LEMMA InstProc == \A i \in Insts : i[1] \in Procs
BY Pairs

\* Processes are numbered from 1.
LEMMA Numbers ==
  /\ 1 \in Procs
  /\ \A p \in Procs : p \in Int /\ p >= 1
  /\ \A p \in Procs : p # 1 => p - 1 \in Procs
  /\ \A p \in Procs : p + 1 \in Procs <=> p < MaxGen
  /\ \A p, q \in Procs : p < q => p + 1 \in Procs /\ (p + 1 = q \/ p + 1 < q)
BY GraceAssumption DEF GraceAssumption, Procs

\* A socket is held by an instance, or by the process of one.
LEMMA HeldBy ==
  ASSUME NEW s \in Servers
  PROVE  Held(s) <=> \E j \in Insts : /\ j[2] = s /\ proc[j[1]] = "alive"
                                      /\ ln[j] = "open" \/ s \in inherited[j[1]]
<1>1. ASSUME NEW p \in Procs, proc[p] = "alive", ln[<<p, s>>] = "open" \/ s \in inherited[p]
      PROVE  \E j \in Insts : /\ j[2] = s /\ proc[j[1]] = "alive"
                              /\ ln[j] = "open" \/ s \in inherited[j[1]]
  <2>1. <<p, s>> \in Insts /\ <<p, s>>[1] = p /\ <<p, s>>[2] = s BY Pairs
  <2> QED BY <1>1, <2>1, Zenon
<1>2. ASSUME NEW j \in Insts, j[2] = s, proc[j[1]] = "alive", ln[j] = "open" \/ s \in inherited[j[1]]
      PROVE  Held(s)
  <2>1. j[1] \in Procs /\ j = <<j[1], s>> BY <1>2, Pairs
  <2> QED BY <1>2, <2>1, Zenon DEF Held
<1> QED BY <1>1, <1>2, Zenon DEF Held

\* A process is starting while one of its servers is.
LEMMA StartingOf ==
  ASSUME NEW p \in Procs
  PROVE  Starting(p) <=> \E j \in Insts : j[1] = p /\ (state[j] = "init" \/ handler[j] = "off")
<1>1. ASSUME NEW s \in Servers, state[<<p, s>>] = "init" \/ handler[<<p, s>>] = "off"
      PROVE  \E j \in Insts : j[1] = p /\ (state[j] = "init" \/ handler[j] = "off")
  <2>1. <<p, s>> \in Insts /\ <<p, s>>[1] = p BY Pairs
  <2> QED BY <1>1, <2>1, Zenon
<1>2. ASSUME NEW j \in Insts, j[1] = p, state[j] = "init" \/ handler[j] = "off" PROVE Starting(p)
  <2>1. j = <<p, j[2]>> /\ j[2] \in Servers BY <1>2, Pairs
  <2> QED BY <1>2, <2>1, Zenon DEF Starting
<1> QED BY <1>1, <1>2, Zenon DEF Starting

\* fork's test for a server without listener.
LEMMA NoListener ==
  ASSUME NEW p \in Procs
  PROVE  (\E s \in Servers : ln[<<p, s>>] = "nil") <=> \E j \in Insts : j[1] = p /\ ln[j] = "nil"
<1>1. ASSUME NEW s \in Servers, ln[<<p, s>>] = "nil" PROVE \E j \in Insts : j[1] = p /\ ln[j] = "nil"
  <2>1. <<p, s>> \in Insts /\ <<p, s>>[1] = p BY Pairs
  <2> QED BY <1>1, <2>1, Zenon
<1>2. ASSUME NEW j \in Insts, j[1] = p, ln[j] = "nil" PROVE \E s \in Servers : ln[<<p, s>>] = "nil"
  <2>1. j = <<p, j[2]>> /\ j[2] \in Servers BY <1>2, Pairs
  <2> QED BY <1>2, <2>1, Zenon
<1> QED BY <1>1, <1>2, Zenon

\* The sockets fork hands on, when all are open.
LEMMA AllOpen ==
  ASSUME NEW p \in Procs, \A j \in Insts : j[1] = p => ln[j] = "open"
  PROVE  {s \in Servers : ln[<<p, s>>] = "open"} = Servers
BY Pairs

\* The end of a process, over instances.
LEMMA EndOf ==
  ASSUME NEW p \in Procs, End(p)
  PROVE  /\ proc' = [proc EXCEPT ![p] = "dead"]
         /\ cut' = (cut \/ \E j \in Insts : j[1] = p /\ req[j])
<1>1. ASSUME NEW s \in Servers, req[<<p, s>>] PROVE \E j \in Insts : j[1] = p /\ req[j]
  <2> <<p, s>> \in Insts /\ <<p, s>>[1] = p BY Pairs
  <2> QED BY <1>1, Zenon
<1>2. ASSUME NEW j \in Insts, j[1] = p, req[j] PROVE \E s \in Servers : req[<<p, s>>]
  <2>1. j = <<p, j[2]>> /\ j[2] \in Servers BY <1>2, Pairs
  <2> QED BY <1>2, <2>1, Zenon
<1> QED BY <1>1, <1>2, Zenon DEF End

\* Exit, over instances.
LEMMA ExitOf ==
  ASSUME NEW p \in Procs, Exit(p)
  PROVE  /\ proc[p] = "alive"
         /\ \A j \in Insts : j[1] = p => Over(j)
         /\ proc' = [proc EXCEPT ![p] = "dead"]
         /\ cut' = (cut \/ \E j \in Insts : j[1] = p /\ req[j])
         /\ UNCHANGED <<inherited, forked, children, main, handler, state, ln, req,
                        signals, stopped, early, lost, forkFailed>>
<1>1. \A j \in Insts : j[1] = p => Over(j)
  <2> TAKE j \in Insts
  <2> HAVE j[1] = p
  <2>1. j = <<p, j[2]>> /\ j[2] \in Servers BY Pairs
  <2> QED BY <2>1, Zenon DEF Exit
<1>2. End(p) BY DEF Exit
<1> QED BY <1>1, <1>2, EndOf, Zenon DEF Exit

\* A signal ends a process none of whose handlers has called Notify, and else
\* reaches the handlers that wait.
LEMMA Delivered ==
  ASSUME TypeOK, NEW p \in Procs, proc[p] = "alive", NEW sig, Deliver(p, sig)
  PROVE  /\ \A q \in Procs : Born(q)' <=> Born(q)
         /\ \A q \in Procs : q # p => proc'[q] = proc[q]
         /\ (\E j \in Insts : j[1] = p /\ handler[j] # "off") => proc' = proc /\ cut' = cut
         /\ cut' \in BOOLEAN
         /\ \A j \in Insts : \/ handler'[j] = handler[j]
                             \/ j[1] = p /\ handler[j] = "wait" /\ handler'[j] = sig
<1>1. CASE \A j \in Insts : j[1] = p => handler[j] = "off"
  <2>1. End(p) /\ handler' = handler BY <1>1 DEF Deliver
  <2>2. proc' = [proc EXCEPT ![p] = "dead"] /\ cut' \in BOOLEAN BY <2>1, Zenon DEF End, TypeOK
  <2> QED BY <1>1, <2>1, <2>2 DEF TypeOK, Born
<1>2. CASE \E j \in Insts : j[1] = p /\ handler[j] # "off"
  BY <1>2 DEF TypeOK, Deliver, Born
<1> QED BY <1>1, <1>2

-----------------------------------------------------------------------------
(* Every action keeps the inductive invariant.                             *)

\* Notify touches one handler only.
LEMMA NotifyInv ==
  ASSUME IInv, NEW i \in Insts, Notify(i)
  PROVE  IInv'
<1> USE InstProc, Numbers DEF IInv, Notify, Alive, procVars, history
<1>1. TypeOK' BY DEF TypeOK
<1>2. BirthInv' BY DEF TypeOK, BirthInv, Born
<1>3. ServerInv' BY DEF TypeOK, ServerInv
<1>4. RequestInv' BY DEF TypeOK, ServerInv, RequestInv
<1>5. ASSUME (Servers # {} /\ ~stopped /\ ~early /\ ~forkFailed)', NEW q \in Procs, Born(q)' PROVE Handover(q)'
  <2>1. Servers # {} /\ ~stopped /\ ~early /\ ~forkFailed /\ (Born(q) => Handover(q)) BY <1>5 DEF TypeOK, HandoverInv
  <2> QED BY <1>5, <2>1 DEF TypeOK, BirthInv, ServerInv, HandoverInv, Handover, Born, Past, Told, Leaving
<1> QED BY <1>1, <1>2, <1>3, <1>4, <1>5 DEF HandoverInv

\* In an orderly restart a listener is always to be had: a child inherited all of them.
LEMMA ListenInv ==
  ASSUME IInv, NEW i \in Insts, getListener(i)
  PROVE  IInv'
<1> USE InstProc, Numbers DEF IInv, getListener, Goto, Alive, isChild, procVars, history
<1>1. TypeOK' BY DEF TypeOK
<1>2. BirthInv' BY DEF TypeOK, BirthInv, Born
<1>3. ServerInv' BY DEF TypeOK, BirthInv, ServerInv
<1>4. RequestInv' BY DEF TypeOK, ServerInv, RequestInv
<1>5. ASSUME (Servers # {} /\ ~stopped /\ ~early /\ ~forkFailed)', NEW q \in Procs, Born(q)' PROVE Handover(q)'
  <2>1. ~stopped /\ ~early /\ ~forkFailed /\ Born(q) /\ Handover(q) BY <1>5 DEF HandoverInv, Born
  <2>2. ~forked[i[1]] /\ Born(i[1]) /\ Handover(i[1])
    BY <1>5, <2>1 DEF ServerInv, HandoverInv, Born
  <2>3. i[2] \in Servers BY Pairs
  <2>4. Listenable(i)
    <3>1. CASE i[1] > 1 BY <2>2, <2>3, <3>1 DEF Listenable, Handover
    <3>2. CASE ~(i[1] > 1)
      <4>1. i[1] = 1 BY <3>2
      <4>2. ASSUME NEW j \in Insts, j[2] = i[2], proc[j[1]] = "alive",
                   ln[j] = "open" \/ i[2] \in inherited[j[1]]
            PROVE  FALSE
        <5>1. j[1] = 1
          BY <2>2, <4>1, <4>2 DEF BirthInv, Born
        <5>2. j = i BY <4>1, <4>2, <5>1, Pairs
        <5> QED BY <4>1, <4>2, <5>1, <5>2 DEF BirthInv, ServerInv
      <4> QED BY <2>3, <3>2, <4>2, HeldBy DEF Listenable
    <3> QED BY <3>1, <3>2
  <2>5. /\ ln' = [ln EXCEPT ![i] = "open"]
        /\ main' = [main EXCEPT ![i] = IF i[1] > 1 THEN "signal" ELSE "serve"]
        /\ UNCHANGED <<proc, inherited, forked, handler, state>>
    BY <2>4
  <2>6. main[i] = "listen" OBVIOUS
  <2> HIDE DEF getListener
  <2>7. \A j \in Insts : (Past(j) => Past(j)') /\ (Told(j)' <=> Told(j))
    BY <2>5, <2>6 DEF TypeOK, Past, Told
  <2>8. \A j \in Insts : main'[j] = "failed" => main[j] = "failed"
    BY <2>5 DEF TypeOK
  <2>9. Leaving(q)' <=> Leaving(q) BY <2>5, <2>7 DEF Leaving
  <2> QED BY <2>1, <2>5, <2>7, <2>8, <2>9 DEF Handover
<1> QED BY <1>1, <1>2, <1>3, <1>4, <1>5 DEF HandoverInv

\* The SIGTERM of a child ends no parent that has a handler, and makes the server Past.
LEMMA SignalInv ==
  ASSUME IInv, NEW i \in Insts, SignalParent(i)
  PROVE  IInv'
<1> USE InstProc, Numbers DEF IInv, SignalParent, Goto, Alive
<1>0. i[1] # 1 /\ i[1] - 1 \in Procs BY DEF ServerInv
<1>a. CASE proc[i[1] - 1] = "alive"
  <2> DEFINE p == i[1] - 1
  <2>0. p \in Procs /\ p + 1 = i[1] /\ proc[p] = "alive" BY <1>0, <1>a
  <2>1. Deliver(p, "SIGTERM") /\ main' = [main EXCEPT ![i] = "serve"] BY <1>a
  <2>2. TypeOK'
    <3>1. (proc \in [Procs -> {"unborn", "alive", "dead"}])' BY <1>0, <2>1 DEF TypeOK, Deliver, End
    <3>2. (handler \in [Insts -> {"off", "wait", "SIGHUP", "SIGTERM", "post", "drain", "send"}])'
      BY <2>1 DEF TypeOK, Deliver
    <3>3. (lost \in BOOLEAN)' BY <2>1, Zenon DEF TypeOK, Deliver
    <3>4. (main \in [Insts -> {"listen", "signal", "serve", "serving", "await", "done", "failed"}])'
      BY <2>1 DEF TypeOK
    <3>5. (cut \in BOOLEAN)' BY <2>0, <2>1, Delivered
    <3> QED BY <3>1, <3>2, <3>3, <3>4, <3>5 DEF TypeOK
  <2>3. /\ \A q \in Procs : Born(q)' <=> Born(q)
        /\ \A q \in Procs : q # p => proc'[q] = proc[q]
        /\ (\E j \in Insts : j[1] = p /\ handler[j] # "off") => proc' = proc /\ cut' = cut
        /\ \A j \in Insts : \/ handler'[j] = handler[j]
                            \/ j[1] = p /\ handler[j] = "wait" /\ handler'[j] = "SIGTERM"
    BY <2>0, <2>1, Delivered
  <2>4. UNCHANGED <<inherited, forked, children, state, ln, req, stopped, early, forkFailed>> OBVIOUS
  <2>5. Born(i[1]) /\ forked[p] /\ main[i] = "signal" BY <2>0 DEF BirthInv, Born
  <2>a. proc' = proc /\ cut' = cut BY <2>0, <2>3, <2>5, Zenon DEF BirthInv
  <2> HIDE DEF SignalParent, p
  <2>6. BirthInv' BY <2>1, <2>3, <2>4, <2>5 DEF BirthInv, TypeOK
  <2>7. ServerInv' BY <2>1, <2>3, <2>4, <2>5 DEF ServerInv, TypeOK
  <2>8. RequestInv' BY <2>1, <2>3, <2>4, <2>5, <2>a DEF RequestInv, TypeOK
  <2>9. ASSUME (Servers # {} /\ ~stopped /\ ~early /\ ~forkFailed)', NEW q \in Procs, Born(q)' PROVE Handover(q)'
    <3>1. ~stopped /\ ~early /\ ~forkFailed /\ Born(q) /\ Handover(q) /\ Born(p) /\ Handover(p)
      BY <1>0, <2>0, <2>3, <2>4, <2>9 DEF HandoverInv, Born
    <3>2. proc' = proc BY <2>a
    <3>3. Past(i)' BY <2>1 DEF Past, TypeOK
    <3>4. CASE q = p
      BY <2>0, <2>1, <2>3, <2>4, <2>5, <3>1, <3>3, <3>4 DEF Handover, TypeOK
    <3>5. CASE q # p
      BY <2>0, <2>1, <2>3, <2>4, <3>1, <3>2, <3>5 DEF Handover, Past, Told, Leaving, TypeOK
    <3> QED BY <3>4, <3>5
  <2> QED BY <2>2, <2>6, <2>7, <2>8, <2>9 DEF HandoverInv
<1>b. CASE proc[i[1] - 1] = "dead"
  <2>1. /\ \/ main' = [main EXCEPT ![i] = "serve"]
           \/ main' = [main EXCEPT ![i] = "failed"]
        /\ UNCHANGED <<proc, handler, lost, cut>>
    BY <1>b
  <2>2. TypeOK' BY <2>1 DEF TypeOK
  <2>4. UNCHANGED <<inherited, forked, children, state, ln, req, stopped, early, forkFailed>> OBVIOUS
  <2> HIDE DEF SignalParent
  <2>5. Born(i[1]) /\ main[i] = "signal" BY DEF SignalParent, Born
  <2>6. BirthInv' BY <2>1, <2>4, <2>5 DEF BirthInv, TypeOK, Born
  <2>7. ServerInv' BY <2>1, <2>4, <2>5 DEF ServerInv, TypeOK
  <2>8. RequestInv' BY <2>1, <2>4, <2>5 DEF RequestInv, TypeOK
  <2>9. ASSUME (Servers # {} /\ ~stopped /\ ~early /\ ~forkFailed)', NEW q \in Procs, Born(q)' PROVE Handover(q)'
    <3> DEFINE p == i[1] - 1
    <3>0. p \in Procs /\ p + 1 = i[1] /\ Born(p) /\ Leaving(p) BY <1>0, <1>b DEF Leaving, Born
    <3>1. ~stopped /\ ~early /\ ~forkFailed /\ Born(q) /\ Handover(q) /\ Handover(p)
      BY <2>1, <2>4, <2>9, <3>0 DEF HandoverInv, Born
    <3>2. forked[p] BY <2>5, <3>0 DEF BirthInv
    <3>3. PICK k \in Insts : k[1] = i[1] /\ Past(k)
      BY <3>0, <3>1, <3>2 DEF Handover
    <3>4. k # i BY <2>5, <3>3 DEF Past
    <3>5. \A j \in Insts : Past(j) => Past(j)' BY <2>1, <2>5 DEF Past, TypeOK
    <3> HIDE DEF p
    <3>6. \A j \in Insts : j # i => main'[j] = main[j] BY <2>1 DEF TypeOK
    <3>7. main'[k] # "failed" /\ main[k] # "failed" BY <3>3, <3>5 DEF Past
    <3> QED BY <1>0, <2>1, <2>4, <2>5, <3>1, <3>3, <3>4, <3>5, <3>6, <3>7 DEF Handover, Told, Leaving
  <2> QED BY <2>2, <2>6, <2>7, <2>8, <2>9 DEF HandoverInv
<1> QED BY <1>a, <1>b

\* A server that runs was past its signal already.
LEMMA ServeInv ==
  ASSUME IInv, NEW i \in Insts, Serve(i)
  PROVE  IInv'
<1> USE InstProc, Numbers DEF IInv, Serve, Goto, Alive, procVars, history
<1>1. TypeOK' BY DEF TypeOK
<1>2. BirthInv' BY DEF TypeOK, BirthInv, Born
<1>3. ServerInv' BY DEF TypeOK, ServerInv
<1>4. RequestInv' BY DEF TypeOK, ServerInv, RequestInv
<1>5. ASSUME (Servers # {} /\ ~stopped /\ ~early /\ ~forkFailed)', NEW q \in Procs, Born(q)' PROVE Handover(q)'
  <2>1. Servers # {} /\ ~stopped /\ ~early /\ ~forkFailed /\ (Born(q) => Handover(q)) BY <1>5 DEF TypeOK, HandoverInv
  <2> QED BY <1>5, <2>1 DEF TypeOK, BirthInv, ServerInv, HandoverInv, Handover, Born, Past, Told, Leaving
<1> QED BY <1>1, <1>2, <1>3, <1>4, <1>5 DEF HandoverInv

\* A request starts only where the server serves.
LEMMA RequestStep ==
  ASSUME IInv, NEW i \in Insts, Request(i)
  PROVE  IInv'
<1> USE InstProc, Numbers DEF IInv, Request, Alive, procVars, history
<1>1. TypeOK' BY DEF TypeOK
<1>2. BirthInv' BY DEF TypeOK, BirthInv, Born
<1>3. ServerInv' BY DEF TypeOK, ServerInv
<1>4. RequestInv' BY DEF TypeOK, ServerInv, RequestInv
<1>5. ASSUME (Servers # {} /\ ~stopped /\ ~early /\ ~forkFailed)', NEW q \in Procs, Born(q)' PROVE Handover(q)'
  <2>1. Servers # {} /\ ~stopped /\ ~early /\ ~forkFailed /\ (Born(q) => Handover(q)) BY <1>5 DEF TypeOK, HandoverInv
  <2> QED BY <1>5, <2>1 DEF TypeOK, BirthInv, ServerInv, HandoverInv, Handover, Born, Past, Told, Leaving
<1> QED BY <1>1, <1>2, <1>3, <1>4, <1>5 DEF HandoverInv

\* A response ends the request.
LEMMA RespondInv ==
  ASSUME IInv, NEW i \in Insts, Respond(i)
  PROVE  IInv'
<1> USE InstProc, Numbers DEF IInv, Respond, Alive, procVars, history
<1>1. TypeOK' BY DEF TypeOK
<1>2. BirthInv' BY DEF TypeOK, BirthInv, Born
<1>3. ServerInv' BY DEF TypeOK, ServerInv
<1>4. RequestInv' BY DEF TypeOK, ServerInv, RequestInv
<1>5. ASSUME (Servers # {} /\ ~stopped /\ ~early /\ ~forkFailed)', NEW q \in Procs, Born(q)' PROVE Handover(q)'
  <2>1. Servers # {} /\ ~stopped /\ ~early /\ ~forkFailed /\ (Born(q) => Handover(q)) BY <1>5 DEF TypeOK, HandoverInv
  <2> QED BY <1>5, <2>1 DEF TypeOK, BirthInv, ServerInv, HandoverInv, Handover, Born, Past, Told, Leaving
<1> QED BY <1>1, <1>2, <1>3, <1>4, <1>5 DEF HandoverInv

\* Serve returns only when Shutdown has closed the listener.
LEMMA ReturnInv ==
  ASSUME IInv, NEW i \in Insts, ServeReturns(i)
  PROVE  IInv'
<1> USE InstProc, Numbers DEF IInv, ServeReturns, Goto, Alive, procVars, history
<1>1. TypeOK' BY DEF TypeOK
<1>2. BirthInv' BY DEF TypeOK, BirthInv, Born
<1>3. ServerInv' BY DEF TypeOK, ServerInv
<1>4. RequestInv' BY DEF TypeOK, ServerInv, RequestInv
<1>5. ASSUME (Servers # {} /\ ~stopped /\ ~early /\ ~forkFailed)', NEW q \in Procs, Born(q)' PROVE Handover(q)'
  <2>1. Servers # {} /\ ~stopped /\ ~early /\ ~forkFailed /\ (Born(q) => Handover(q)) BY <1>5 DEF TypeOK, HandoverInv
  <2> QED BY <1>5, <2>1 DEF TypeOK, BirthInv, ServerInv, HandoverInv, Handover, Born, Past, Told, Leaving
<1> QED BY <1>1, <1>2, <1>3, <1>4, <1>5 DEF HandoverInv

\* fork: the new process is the youngest, and unless the fork failed it inherits them all.
LEMMA ForkInv ==
  ASSUME IInv, NEW i \in Insts, fork(i)
  PROVE  IInv'
<1> USE InstProc, Numbers DEF IInv
<1> DEFINE p == i[1]
<1>0. /\ p \in Procs /\ proc[p] = "alive" /\ handler[i] = "SIGHUP" /\ Born(p) /\ p + 1 \in Procs
      /\ UNCHANGED <<main, state, ln, req, signals, stopped, early, lost>>
  BY DEF fork, Alive, Born, ServerInv
<1>a. CASE forked[p]
  <2>1. handler' = [handler EXCEPT ![i] = "post"] /\ UNCHANGED <<procVars, forkFailed, cut>>
    <3> HIDE DEF IInv, p
    <3> QED BY <1>a, Zenon DEF fork, p
  <2>2. TypeOK' BY <1>0, <2>1 DEF TypeOK, procVars
  <2>3. BirthInv' BY <1>0, <2>1 DEF TypeOK, BirthInv, Born, procVars
  <2>4. ServerInv' BY <1>0, <2>1 DEF TypeOK, ServerInv, procVars
  <2>5. RequestInv' BY <1>0, <2>1 DEF TypeOK, RequestInv, procVars
  <2>6. ASSUME (Servers # {} /\ ~stopped /\ ~early /\ ~forkFailed)', NEW q \in Procs, Born(q)' PROVE Handover(q)'
    <3>1. Born(q) /\ Handover(q) BY <1>0, <2>1, <2>6 DEF HandoverInv, Born, procVars
    <3> QED BY <1>0, <2>1, <3>1 DEF TypeOK, Handover, Past, Told, Leaving, procVars
  <2> QED BY <2>2, <2>3, <2>4, <2>5, <2>6 DEF HandoverInv
<1>b. CASE /\ ~forked[p] /\ End(p) /\ UNCHANGED <<handler, inherited, forked, children>>
           /\ forkFailed' = (forkFailed \/ \A s \in Servers : ln[<<p, s>>] # "nil")
  <2>1. /\ proc' = [proc EXCEPT ![p] = "dead"] /\ UNCHANGED <<handler, inherited, forked, children>>
        /\ cut' \in BOOLEAN /\ forkFailed' \in BOOLEAN
    <3>1. cut' \in BOOLEAN BY <1>0, <1>b, Zenon DEF End, TypeOK
    <3>2. forkFailed' \in BOOLEAN BY <1>b, Zenon DEF TypeOK
    <3> QED BY <1>b, <3>1, <3>2, Zenon DEF End
  <2>2. TypeOK' BY <1>0, <2>1 DEF TypeOK
  <2>3. BirthInv' BY <1>0, <2>1 DEF TypeOK, BirthInv, Born
  <2>4. ServerInv' BY <1>0, <2>1 DEF TypeOK, ServerInv
  <2>5. early' \/ forkFailed'
    <3>1. ASSUME ~early, NEW s \in Servers, ln[<<p, s>>] = "nil" PROVE FALSE
      <4>1. PICK j \in Insts : j[1] = p /\ ln[j] = "nil" BY <1>0, <3>1, NoListener
      <4>2. state[j] # "init" BY <1>0, <3>1, <4>1, Zenon DEF ServerInv
      <4> QED BY <4>1, <4>2 DEF ServerInv
    <3>2. early' = early BY <1>0
    <3>3. CASE early BY <3>2, <3>3
    <3>4. CASE ~early
      <4>1. \A s \in Servers : ln[<<p, s>>] # "nil" BY <3>1, <3>4, Zenon
      <4> QED BY <1>b, <4>1, Zenon
    <3> QED BY <3>3, <3>4
  <2>6. RequestInv' BY <1>0, <2>1, <2>5 DEF TypeOK, RequestInv
  <2>7. HandoverInv' BY <2>5 DEF HandoverInv
  <2> QED BY <2>2, <2>3, <2>4, <2>6, <2>7
<1> DEFINE O == {s \in Servers : ln[<<p, s>>] = "open"}
<1>c. ASSUME ~forked[p], \A s \in Servers : ln[<<p, s>>] # "nil", NEW F \in SUBSET O,
             /\ proc' = [proc EXCEPT ![p + 1] = "alive"]
             /\ forked' = [forked EXCEPT ![p] = TRUE]
             /\ children' = [children EXCEPT ![p] = @ + 1]
             /\ inherited' = [inherited EXCEPT ![p + 1] = F]
             /\ forkFailed' = (forkFailed \/ F # O)
             /\ handler' = [handler EXCEPT ![i] = "post"] /\ cut' = cut
      PROVE  IInv'
  <2>1. /\ proc' = [proc EXCEPT ![p + 1] = "alive"]
        /\ forked' = [forked EXCEPT ![p] = TRUE]
        /\ children' = [children EXCEPT ![p] = @ + 1]
        /\ inherited' = [inherited EXCEPT ![p + 1] = F]
        /\ handler' = [handler EXCEPT ![i] = "post"]
    BY <1>c
  <2>2. \A j \in Insts : j[1] = p => ln[j] # "nil" BY ZenonT(20), <1>0, <1>c, NoListener
  <2>3. ~Born(p + 1) /\ children[p] = 0 /\ p + 1 # 1 /\ p # p + 1 BY <1>0, <1>c DEF BirthInv
  <2>4. TypeOK'
    <3>1. F \in SUBSET Servers OBVIOUS
    <3>3. forkFailed' \in BOOLEAN BY <1>c, Zenon DEF TypeOK
    <3>2. (children \in [Procs -> 0 .. 1])' BY <1>0, <2>1, <2>3 DEF TypeOK
    <3> QED BY <1>0, <1>c, <2>1, <3>1, <3>2, <3>3 DEF TypeOK
  <2> HIDE DEF p, O
  <2>5. BirthInv'
    <3>1. (Born(1) /\ inherited[1] = {})' BY <1>0, <2>1, <2>3 DEF TypeOK, BirthInv, Born
    <3>2. \A q \in Procs : Born(q)' <=> Born(q) \/ q = p + 1 BY <1>0, <2>1 DEF TypeOK, Born
    <3>3. \A q \in Procs : forked'[q] <=> forked[q] \/ q = p BY <1>0, <2>1 DEF TypeOK
    <3>4. \A q \in Procs : q > p => ~Born(q) BY <1>0, <2>3 DEF BirthInv
    <3>5. (\A q \in Procs : forked[q] <=> q + 1 \in Procs /\ Born(q + 1))'
      BY <1>0, <3>2, <3>3 DEF BirthInv
    <3>6. (\E q \in Procs : Born(q) /\ ~forked[q])'
      BY <1>0, <2>3, <3>2, <3>3, <3>4 DEF BirthInv
    <3>a. (\A q \in Procs : forked[q] => \E j \in Insts : j[1] = q /\ handler[j] # "off")'
      <4>1. handler'[i] = "post" /\ i[1] = p BY <2>1 DEF TypeOK, p
      <4>2. \A j \in Insts : handler[j] # "off" => handler'[j] # "off" BY <2>1 DEF TypeOK
      <4> QED BY <3>3, <4>1, <4>2 DEF BirthInv
    <3>7. (\A q \in Procs : children[q] = IF forked[q] THEN 1 ELSE 0)'
      BY <1>0, <1>c, <2>1 DEF TypeOK, BirthInv
    <3>8. (\A q, r \in Procs : q < r /\ Born(r) => Born(q))'
      BY <1>0, <3>2 DEF BirthInv
    <3>9. (\A j \in Insts : ~Born(j[1]) => main[j] = "listen" /\ handler[j] = "off")'
      BY <1>0, <2>1, <3>2, p = i[1] DEF TypeOK, BirthInv, p
    <3> QED BY <3>1, <3>5, <3>a, <3>6, <3>7, <3>8, <3>9 DEF BirthInv
  <2>6. ServerInv' BY <1>0, <2>1, <2>2 DEF TypeOK, ServerInv
  <2>7. RequestInv' BY <1>0, <1>c, <2>1 DEF TypeOK, RequestInv
  <2>8. ASSUME (Servers # {} /\ ~stopped /\ ~early /\ ~forkFailed)', NEW q \in Procs, Born(q)' PROVE Handover(q)'
    <3>0. ~forkFailed BY <1>c, <2>8
    <3>1. \A r \in Procs : Born(r) => Handover(r) BY <1>0, <2>8, <3>0 DEF HandoverInv
    <3>2. Handover(p) /\ ~Leaving(p) BY <1>0, <1>c, <3>1 DEF Handover
    <3>3. \A j \in Insts : Told(j)' => Told(j) BY <1>0, <2>1 DEF Told, TypeOK
    <3>4. CASE q = p
      <4>1. ~Leaving(p)' BY <1>0, <2>1, <2>3, <3>2, <3>3 DEF Leaving, TypeOK
      <4>2. handler'[i] # "off" BY <2>1 DEF TypeOK
      <4> QED BY <1>0, <2>1, <3>2, <3>4, <4>1, <4>2 DEF Handover, TypeOK, p
    <3>5. CASE q = p + 1
      <4>1. \A j \in Insts : j[1] = p => ln[j] = "open"
        BY <1>0, <2>2, <3>2 DEF ServerInv, Leaving, Told, TypeOK
      <4>2. inherited'[q] = Servers
        <5>1. F = O BY <1>c, <2>8, Zenon DEF TypeOK
        <5>2. O = Servers BY <1>0, <4>1, AllOpen DEF O
        <5> QED BY <1>0, <2>1, <3>5, <5>1, <5>2 DEF TypeOK
      <4>3. proc'[q] = "alive" BY <1>0, <2>1, <3>5 DEF TypeOK
      <4>4. forked'[q] = FALSE BY <1>0, <2>1, <2>3, <3>5 DEF TypeOK, BirthInv
      <4>5. \A j \in Insts : j[1] = q => /\ main'[j] = "listen" /\ handler'[j] = "off"
                                         /\ state'[j] = "init"
        BY <1>0, <2>1, <2>3, <3>5 DEF TypeOK, BirthInv, ServerInv, p
      <4>6. \E j \in Insts : j[1] = q
        <5>1. PICK s : s \in Servers BY <2>8
        <5> QED BY <5>1, Pairs
      <4> QED BY <2>3, <3>5, <4>2, <4>3, <4>4, <4>5, <4>6 DEF Handover, Leaving, Told
    <3>6. CASE q # p /\ q # p + 1
      <4>1. Born(q) /\ Handover(q) BY <1>0, <2>1, <2>8, <3>1, <3>6 DEF Born, TypeOK
      <4> QED BY <1>0, <2>1, <3>6, <4>1 DEF Handover, Past, Told, Leaving, TypeOK, p
    <3> QED BY <3>4, <3>5, <3>6
  <2> QED BY <2>4, <2>5, <2>6, <2>7, <2>8 DEF HandoverInv
<1> QED BY <1>0, <1>a, <1>b, <1>c DEF fork

\* PostSignal brings a handler back to its channel.
LEMMA PostInv ==
  ASSUME IInv, NEW i \in Insts, PostSignal(i)
  PROVE  IInv'
<1> USE InstProc, Numbers DEF IInv, PostSignal, Alive, procVars, history
<1>1. TypeOK' BY DEF TypeOK
<1>2. BirthInv' BY DEF TypeOK, BirthInv, Born
<1>3. ServerInv' BY DEF TypeOK, ServerInv
<1>4. RequestInv' BY DEF TypeOK, ServerInv, RequestInv
<1>5. ASSUME (Servers # {} /\ ~stopped /\ ~early /\ ~forkFailed)', NEW q \in Procs, Born(q)' PROVE Handover(q)'
  <2>1. Servers # {} /\ ~stopped /\ ~early /\ ~forkFailed /\ (Born(q) => Handover(q)) BY <1>5 DEF TypeOK, HandoverInv
  <2> QED BY <1>5, <2>1 DEF TypeOK, BirthInv, ServerInv, HandoverInv, Handover, Born, Past, Told, Leaving
<1> QED BY <1>1, <1>2, <1>3, <1>4, <1>5 DEF HandoverInv

\* Shutdown is for a server that was told to go.
LEMMA ShutdownInv ==
  ASSUME IInv, NEW i \in Insts, shutdown(i)
  PROVE  IInv'
<1> USE InstProc, Numbers DEF IInv, shutdown, Alive, procVars, history
<1>1. TypeOK' BY DEF TypeOK
<1>2. BirthInv' BY DEF TypeOK, BirthInv, Born
<1>3. ServerInv' BY DEF TypeOK, ServerInv
<1>4. RequestInv' BY DEF TypeOK, ServerInv, RequestInv
<1>5. ASSUME (Servers # {} /\ ~stopped /\ ~early /\ ~forkFailed)', NEW q \in Procs, Born(q)' PROVE Handover(q)'
  <2>1. Servers # {} /\ ~stopped /\ ~early /\ ~forkFailed /\ (Born(q) => Handover(q)) BY <1>5 DEF TypeOK, HandoverInv
  <2> QED BY <1>5, <2>1 DEF TypeOK, BirthInv, ServerInv, HandoverInv, Handover, Born, Past, Told, Leaving
<1> QED BY <1>1, <1>2, <1>3, <1>4, <1>5 DEF HandoverInv

\* Shutdown returns when the requests are answered.
LEMMA DrainedInv ==
  ASSUME IInv, NEW i \in Insts, Drained(i)
  PROVE  IInv'
<1> USE InstProc, Numbers DEF IInv, Drained, Alive, procVars, history
<1>1. TypeOK' BY DEF TypeOK
<1>2. BirthInv' BY DEF TypeOK, BirthInv, Born
<1>3. ServerInv' BY DEF TypeOK, ServerInv
<1>4. RequestInv' BY DEF TypeOK, ServerInv, RequestInv
<1>5. ASSUME (Servers # {} /\ ~stopped /\ ~early /\ ~forkFailed)', NEW q \in Procs, Born(q)' PROVE Handover(q)'
  <2>1. Servers # {} /\ ~stopped /\ ~early /\ ~forkFailed /\ (Born(q) => Handover(q)) BY <1>5 DEF TypeOK, HandoverInv
  <2> QED BY <1>5, <2>1 DEF TypeOK, BirthInv, ServerInv, HandoverInv, Handover, Born, Past, Told, Leaving
<1> QED BY <1>1, <1>2, <1>3, <1>4, <1>5 DEF HandoverInv

\* Shutdown returns when DefaultTimeout has passed.
LEMMA TimeoutInv ==
  ASSUME IInv, NEW i \in Insts, DrainTimesOut(i)
  PROVE  IInv'
<1> USE InstProc, Numbers DEF IInv, DrainTimesOut, Alive, procVars, history
<1>1. TypeOK' BY DEF TypeOK
<1>2. BirthInv' BY DEF TypeOK, BirthInv, Born
<1>3. ServerInv' BY DEF TypeOK, ServerInv
<1>4. RequestInv' BY DEF TypeOK, ServerInv, RequestInv
<1>5. ASSUME (Servers # {} /\ ~stopped /\ ~early /\ ~forkFailed)', NEW q \in Procs, Born(q)' PROVE Handover(q)'
  <2>1. Servers # {} /\ ~stopped /\ ~early /\ ~forkFailed /\ (Born(q) => Handover(q)) BY <1>5 DEF TypeOK, HandoverInv
  <2> QED BY <1>5, <2>1 DEF TypeOK, BirthInv, ServerInv, HandoverInv, Handover, Born, Past, Told, Leaving
<1> QED BY <1>1, <1>2, <1>3, <1>4, <1>5 DEF HandoverInv

\* terminalChan ends a server that has been shut down.
LEMMA TerminalInv ==
  ASSUME IInv, NEW i \in Insts, Terminal(i)
  PROVE  IInv'
<1> USE InstProc, Numbers DEF IInv, Terminal, Goto, Alive, procVars, history
<1>1. TypeOK' BY DEF TypeOK
<1>2. BirthInv' BY DEF TypeOK, BirthInv, Born
<1>3. ServerInv' BY DEF TypeOK, ServerInv
<1>4. RequestInv' BY DEF TypeOK, ServerInv, RequestInv
<1>5. ASSUME (Servers # {} /\ ~stopped /\ ~early /\ ~forkFailed)', NEW q \in Procs, Born(q)' PROVE Handover(q)'
  <2>1. Servers # {} /\ ~stopped /\ ~early /\ ~forkFailed /\ (Born(q) => Handover(q)) BY <1>5 DEF TypeOK, HandoverInv
  <2> QED BY <1>5, <2>1 DEF TypeOK, BirthInv, ServerInv, HandoverInv, Handover, Born, Past, Told, Leaving
<1> QED BY <1>1, <1>2, <1>3, <1>4, <1>5 DEF HandoverInv

\* A process exits when its servers are over: no request is left, and it was leaving.
LEMMA ExitInv ==
  ASSUME IInv, NEW p \in Procs, Exit(p)
  PROVE  IInv'
<1> USE InstProc, Numbers DEF IInv
<1>0. /\ proc[p] = "alive"
      /\ \A j \in Insts : j[1] = p => main[j] \in {"done", "failed"}
      /\ proc' = [proc EXCEPT ![p] = "dead"]
      /\ cut' = (cut \/ \E j \in Insts : j[1] = p /\ req[j])
      /\ UNCHANGED <<inherited, forked, children, main, handler, state, ln, req,
                     signals, stopped, early, lost, forkFailed>>
  BY ExitOf DEF Over
<1>1. cut' = cut BY <1>0 DEF RequestInv, TypeOK
<1>a. RequestInv' BY <1>0, <1>1 DEF RequestInv
<1>2. TypeOK' BY <1>0, <1>1 DEF TypeOK
<1>3. BirthInv' BY <1>0 DEF TypeOK, BirthInv, Born
<1>4. ServerInv' BY <1>0 DEF TypeOK, ServerInv
<1>5. ASSUME (Servers # {} /\ ~stopped /\ ~early /\ ~forkFailed)', NEW q \in Procs, Born(q)' PROVE Handover(q)'
  <2>1. Born(q) /\ Handover(q) BY <1>0, <1>5 DEF HandoverInv, Born, TypeOK
  <2>2. CASE q # p BY <1>0, <2>1, <2>2 DEF Handover, Past, Told, Leaving, TypeOK
  <2>3. CASE q = p
    <3>1. PICK j \in Insts : j[1] = p /\ main[j] # "failed" BY <2>1, <2>3 DEF Handover
    <3>2. Leaving(p) BY <1>0, <3>1 DEF Leaving, Told, ServerInv
    <3> QED BY <1>0, <2>1, <2>3, <3>2 DEF Handover, Past, TypeOK
  <2> QED BY <2>2, <2>3
<1> QED BY <1>a, <1>2, <1>3, <1>4, <1>5 DEF HandoverInv

\* The operator's signals: what Deliver does to the invariant.
LEMMA OperatorInv ==
  ASSUME IInv, NEW p \in Procs, NEW sig \in {"SIGHUP", "SIGTERM"}, proc[p] = "alive",
         sig = "SIGHUP" => p < MaxGen,
         signals < MaxSignals, signals' = signals + 1, Deliver(p, sig),
         stopped' \in BOOLEAN, early' = (early \/ Starting(p)),
         UNCHANGED <<inherited, forked, children, main, state, ln, req, forkFailed>>
  PROVE  TypeOK' /\ BirthInv' /\ ServerInv' /\ RequestInv'
<1> USE InstProc, Numbers DEF IInv
<1>1. TypeOK'
  <2>1. (proc \in [Procs -> {"unborn", "alive", "dead"}])' BY DEF TypeOK, Deliver, End
  <2>2. (handler \in [Insts -> {"off", "wait", "SIGHUP", "SIGTERM", "post", "drain", "send"}])'
    BY DEF TypeOK, Deliver
  <2>3. (signals \in 0 .. MaxSignals)' BY GraceAssumption DEF TypeOK, GraceAssumption
  <2>4. (early \in BOOLEAN /\ lost \in BOOLEAN)' BY Zenon DEF TypeOK, Deliver
  <2>5. (cut \in BOOLEAN)' BY Delivered
  <2> QED BY <2>1, <2>2, <2>3, <2>4, <2>5 DEF TypeOK
<1>2. /\ \A q \in Procs : Born(q)' <=> Born(q)
      /\ \A j \in Insts : \/ handler'[j] = handler[j]
                          \/ j[1] = p /\ handler[j] = "wait" /\ handler'[j] = sig
  BY Delivered
<1>3. BirthInv' BY <1>2 DEF BirthInv, Born
<1>4. ServerInv'
  <2>1. ASSUME NEW j \in Insts, NEW k \in Insts, handler'[j] = "SIGHUP", ~early', k[1] = j[1]
        PROVE  state[k] # "init"
    <3>1. ~early /\ ~Starting(p) BY <2>1
    <3>2. CASE handler'[j] = handler[j] BY <2>1, <3>1, <3>2, Zenon DEF ServerInv
    <3>3. CASE j[1] = p BY <2>1, <3>1, <3>3, StartingOf
    <3> QED BY <1>2, <2>1, <3>2, <3>3
  <2> QED BY <1>2, <2>1 DEF ServerInv, TypeOK
<1>5. cut' => early' \/ forkFailed'
  <2>1. CASE Starting(p) BY <2>1
  <2>2. CASE ~Starting(p)
    <3>1. ASSUME NEW j \in Insts, req[j], j[1] = p PROVE handler[j] # "off"
      BY <2>2, <3>1, StartingOf
    <3>2. (\E j \in Insts : j[1] = p /\ handler[j] # "off") => cut' = cut BY Delivered
    <3>3. (\A j \in Insts : j[1] = p => handler[j] = "off") => cut' = cut
      <4>1. ASSUME \A j \in Insts : j[1] = p => handler[j] = "off" PROVE cut' = cut
        <5>1. End(p) BY <4>1 DEF Deliver
        <5>2. cut' = (cut \/ \E j \in Insts : j[1] = p /\ req[j]) BY <5>1, EndOf
        <5> QED BY <3>1, <4>1, <5>2 DEF TypeOK
      <4> QED BY <4>1
    <3>4. cut' = cut BY <3>2, <3>3
    <3> QED BY <3>4 DEF RequestInv
  <2> QED BY <2>1, <2>2
<1>6. RequestInv' BY <1>2, <1>5 DEF RequestInv
<1> QED BY <1>1, <1>3, <1>4, <1>6

\* SIGHUP to a process that is up starts no server and tells none to go.
LEMMA HupInv ==
  ASSUME IInv, NEW p \in Procs, SIGHUP(p)
  PROVE  IInv'
<1> USE InstProc, Numbers DEF IInv
<1>0. /\ proc[p] = "alive" /\ p < MaxGen /\ Deliver(p, "SIGHUP")
      /\ early' = (early \/ Starting(p))
      /\ UNCHANGED <<inherited, forked, children, main, state, ln, req, stopped, forkFailed>>
  BY DEF SIGHUP
<1>1. TypeOK' /\ BirthInv' /\ ServerInv' /\ RequestInv'
  <2>1. stopped' \in BOOLEAN BY <1>0 DEF TypeOK
  <2>2. signals < MaxSignals /\ signals' = signals + 1 BY DEF SIGHUP
  <2> QED BY <1>0, <2>1, <2>2, OperatorInv
<1>2. ASSUME (Servers # {} /\ ~stopped /\ ~early /\ ~forkFailed)', NEW q \in Procs, Born(q)' PROVE Handover(q)'
  <2>1. /\ \A r \in Procs : Born(r)' <=> Born(r)
        /\ (\E j \in Insts : j[1] = p /\ handler[j] # "off") => proc' = proc
        /\ \A j \in Insts : \/ handler'[j] = handler[j]
                            \/ j[1] = p /\ handler[j] = "wait" /\ handler'[j] = "SIGHUP"
    BY <1>0, Delivered
  <2>2. ~stopped /\ ~early /\ ~forkFailed /\ ~Starting(p) BY <1>0, <1>2, Zenon
  <2>3. Born(q) /\ Handover(q) /\ Born(p) /\ Handover(p)
    BY <1>0, <1>2, <2>1, <2>2 DEF HandoverInv, Born
  <2>4. \A j \in Insts : j[1] = p => state[j] # "init" /\ handler[j] # "off"
    BY <2>2, StartingOf
  <2>5. proc' = proc BY <2>1, <2>3, <2>4 DEF Handover
  <2>6. \A j \in Insts : Told(j)' <=> Told(j) BY <1>0, <2>1 DEF Told
  <2>7. Leaving(q)' <=> Leaving(q) BY <2>5, <2>6 DEF Leaving
  <2>8. \A j \in Insts : Past(j)' <=> Past(j) BY <1>0 DEF Past
  <2> QED BY <1>0, <2>1, <2>3, <2>4, <2>7, <2>8 DEF Handover
<1> QED BY <1>1, <1>2 DEF HandoverInv

\* SIGINT: what follows is no restart any more.
LEMMA IntInv ==
  ASSUME IInv, NEW p \in Procs, SIGINT(p)
  PROVE  IInv'
<1>1. TypeOK' /\ BirthInv' /\ ServerInv' /\ RequestInv'
  BY OperatorInv DEF SIGINT
<1>2. stopped' = TRUE BY DEF SIGINT
<1> QED BY <1>1, <1>2 DEF IInv, HandoverInv

-----------------------------------------------------------------------------
\* At the start the first process is alive and listens on nothing yet.
LEMMA InitInv == Init => IInv
<1> SUFFICES ASSUME Init PROVE IInv OBVIOUS
<1> USE InstProc, Numbers DEF Init
<1>1. TypeOK
  <2>1. signals \in 0 .. MaxSignals BY GraceAssumption DEF GraceAssumption
  <2>2. /\ stopped \in BOOLEAN /\ early \in BOOLEAN /\ lost \in BOOLEAN /\ cut \in BOOLEAN
        /\ forkFailed \in BOOLEAN /\ req \in [Insts -> BOOLEAN] /\ forked \in [Procs -> BOOLEAN]
    BY Zenon
  <2>3. inherited \in [Procs -> SUBSET Servers] /\ children \in [Procs -> 0 .. 1] OBVIOUS
  <2> QED BY <2>1, <2>2, <2>3 DEF TypeOK
<1>2. BirthInv BY DEF BirthInv, Born
<1>3. ServerInv BY DEF ServerInv
<1>4. RequestInv BY DEF RequestInv
<1>5. ASSUME Servers # {}, NEW p \in Procs, Born(p) PROVE Handover(p)
  <2>1. p = 1 /\ ~forked[p] /\ proc[p] = "alive" BY <1>5 DEF Born
  <2>2. \A j \in Insts : main[j] = "listen" /\ handler[j] = "off" /\ state[j] = "init" OBVIOUS
  <2>3. PICK s : s \in Servers BY <1>5
  <2>4. \E j \in Insts : j[1] = p BY <2>3, Pairs
  <2> QED BY <2>1, <2>2, <2>4 DEF Handover, Leaving, Told
<1> QED BY <1>1, <1>2, <1>3, <1>4, <1>5 DEF IInv, HandoverInv

\* Every step keeps the inductive invariant.
LEMMA NextInv == IInv /\ [Next]_vars => IInv'
<1> SUFFICES ASSUME IInv, [Next]_vars PROVE IInv' OBVIOUS
<1>1. CASE UNCHANGED vars
  BY <1>1 DEF vars, procVars, history, IInv, TypeOK, BirthInv, ServerInv, RequestInv, HandoverInv,
              Handover, Born, Past, Told, Leaving
<1>2. ASSUME NEW i \in Insts, Main(i) PROVE IInv'
  BY <1>2, NotifyInv, ListenInv, SignalInv, ServeInv, ReturnInv DEF Main
<1>3. ASSUME NEW i \in Insts, Handler(i) PROVE IInv'
  BY <1>3, ForkInv, PostInv, ShutdownInv, DrainedInv, TimeoutInv, TerminalInv DEF Handler
<1>4. ASSUME NEW i \in Insts, Request(i) \/ Respond(i) PROVE IInv'
  BY <1>4, RequestStep, RespondInv
<1>5. ASSUME NEW p \in Procs, Exit(p) \/ SIGHUP(p) \/ SIGINT(p) PROVE IInv'
  BY <1>5, ExitInv, HupInv, IntInv
<1> QED BY <1>1, <1>2, <1>3, <1>4, <1>5 DEF Next

\* The youngest process keeps every socket: what it listens on itself, and
\* what it inherited.
LEMMA Kept == IInv => SocketKept
<1> SUFFICES ASSUME IInv, ~stopped, ~early, ~forkFailed, NEW s \in Servers, NEW p \in Procs, ln[<<p, s>>] # "nil"
             PROVE  Held(s)
  BY DEF SocketKept
<1> USE InstProc, Numbers DEF IInv
<1> DEFINE i == <<p, s>>
<1>1. i \in Insts /\ i[1] = p BY Pairs
<1> HIDE DEF i
<1>2. ln[i] # "nil" BY DEF i
<1>3. PICK y \in Procs : Born(y) /\ ~forked[y] BY DEF BirthInv
<1>4. Handover(y) BY <1>3 DEF HandoverInv
<1>5. proc[y] = "alive" /\ ~Leaving(y) BY <1>3, <1>4 DEF Handover, Leaving, Born, TypeOK
<1>6. CASE y > 1 BY <1>3, <1>4, <1>5, <1>6 DEF Handover, Held
<1>7. CASE y = 1
  <2>1. Born(p)
    <3>1. ASSUME ~Born(p) PROVE FALSE
      <4>1. main[i] = "listen" BY <1>1, <3>1 DEF BirthInv
      <4> QED BY <1>1, <1>2, <4>1 DEF ServerInv
    <3> QED BY <3>1
  <2>2. p = 1 BY <1>3, <1>7, <2>1 DEF BirthInv
  <2>3. ln[i] = "open" BY <1>1, <1>2, <1>5, <1>7, <2>2 DEF ServerInv, Leaving, Told, TypeOK
  <2> QED BY <1>5, <1>7, <2>2, <2>3 DEF Held, i
<1> QED BY <1>6, <1>7

\* The inductive invariant holds in every reachable state.
THEOREM Invariance == Spec => []IInv
BY InitInv, NextInv, PTL DEF Spec

\* Every variable has its type and a process forks at most one child, however
\* many of its servers' handlers get SIGHUP.
THEOREM TypeCorrect == Spec => []TypeOK
<1>1. IInv => TypeOK BY DEF IInv
<1> QED BY <1>1, Invariance, PTL

\* Restarts of processes that are up and whose child starts with all sockets
\* close no address that was listened on, and no request is cut by the end of a
\* process: for any set of addresses, number of generations and of signals.
THEOREM HandoverCorrect == Spec => []HandoverSound
<1>1. IInv => NoRequestCut BY DEF IInv, NoRequestCut, RequestInv
<1>2. IInv => HandoverSound BY <1>1, Kept DEF IInv, HandoverSound
<1> QED BY <1>2, Invariance, PTL

=============================================================================
