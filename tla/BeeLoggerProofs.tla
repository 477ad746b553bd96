--------------------------- MODULE BeeLoggerProofs ---------------------------
(***************************************************************************)
(* The asynchronous logger, for any writers, any channel length and any    *)
(* calls of one controlling goroutine: the adapters get the messages of a  *)
(* writer in its order and once, nothing accepted before a Flush, Reset or *)
(* Close is in the channel when the call has been released, and the        *)
(* WaitGroup the callers share with the goroutine is never upset.          *)
(*                                                                         *)
(* Order follows from the channel alone: what is written, what is in the   *)
(* channel and what a writer is about to send are three stretches of one   *)
(* sequence per writer.  The rest needs to know at which point of the      *)
(* goroutine's loop a controller can be at each point of its call (Phase): *)
(* the goroutine's one is lent out from its Done to the caller's Add, and  *)
(* a second controller would break exactly that.                           *)
(***************************************************************************)
EXTENDS BeeLogger, SequenceTheorems, TLAPS

\* The calls are made by one goroutine.  With two of them FlushDrains and
\* WaitGroupSound do not hold.
OneController == \E c \in Ctls : Ctls = {c}

\* The messages of a writer are numbered in the order it logged them.
Earlier(m, n) == m[1] = n[1] => m[2] < n[2]

Increasing(s) == \A i, j \in 1 .. Len(s) : i < j => Earlier(s[i], s[j])

OrderInv ==
  /\ Increasing(written) /\ Increasing(chan)
  /\ \A m \in ToSet(written), n \in ToSet(chan) : Earlier(m, n)

\* What a writer is about to send is newer than all that was accepted from it.
AcceptInv ==
  /\ ToSet(chan) \subseteq accepted
  /\ \A w \in Writers :
       /\ wpc[w] = "send" => count[w] # 0
       /\ \A m \in accepted : m[1] = w => /\ m[2] <= count[w]
                                          /\ wpc[w] = "send" => m[2] < count[w]

\* Before Async nothing is sent to the goroutine.
Unused == ~async => chan = <<>> /\ \A w \in Writers : wpc[w] = "idle"

\* Before Async nothing runs; after Close no controller does.
OffInv ==
  /\ ~async => /\ chan = <<>> /\ pc = "off" /\ wg = 0 /\ ~flushTok /\ ~closeTok
               /\ \A w \in Writers : wpc[w] = "idle"
               /\ \A c \in Ctls : cpc[c] \in {"idle", "end"}
  /\ async => pc # "off"
  /\ \A c \in Ctls : chanClosed <=> cpc[c] = "end"

Waiting(c)  == cpc[c] \in {"sent", "wait"} /\ wg = 1
Released(c) == cpc[c] \in {"sent", "woken", "return"} /\ wg = 0
NoToken     == ~flushTok /\ ~closeTok

\* Where the goroutine is while a controller is where it is.
Phase(c) ==
  \/ cpc[c] \in {"idle", "call"} /\ wg = 1 /\ pc = "select" /\ NoToken
  \/ /\ Waiting(c) /\ op[c] # "close" /\ ~closeTok
     /\ IF flushTok THEN pc = "select" ELSE pc \in {"flush", "flushed"}
  \/ /\ Waiting(c) /\ op[c] = "close" /\ ~flushTok
     /\ IF closeTok THEN pc = "select" ELSE pc \in {"close", "closed"}
  \/ Released(c) /\ op[c] # "close" /\ pc = "select" /\ NoToken
  \/ Released(c) /\ op[c] = "close" /\ pc = "over" /\ NoToken
  \/ cpc[c] = "end" /\ wg = 0 /\ pc = "over" /\ NoToken

PhaseInv == async => \A c \in Ctls : Phase(c)

\* The channel has been emptied of what came before the call.
DrainInv ==
  \A c \in Ctls :
    /\ before[c] \subseteq accepted
    /\ pc \in {"flushed", "closed"} \/ (async /\ Released(c)) => before[c] \cap ToSet(chan) = {}

IInv == TypeOK /\ OrderInv /\ AcceptInv /\ OffInv /\ PhaseInv /\ DrainInv /\ WaitGroupSound

-----------------------------------------------------------------------------
(* Sequences of messages.                                                  *)

LEMMA Appended ==
  ASSUME NEW s \in Seq(Msgs), NEW m \in Msgs
  PROVE  /\ Append(s, m) \in Seq(Msgs) /\ Len(Append(s, m)) = Len(s) + 1
         /\ ToSet(Append(s, m)) = ToSet(s) \cup {m}
         /\ Increasing(s) /\ (\A x \in ToSet(s) : Earlier(x, m)) => Increasing(Append(s, m))
<1> DEFINE t == Append(s, m)
<1>1. /\ t \in Seq(Msgs) /\ Len(s) \in Nat /\ Len(t) = Len(s) + 1
      /\ \A i \in 1 .. Len(s) : t[i] = s[i]
      /\ t[Len(s) + 1] = m
  BY AppendProperties, LenProperties
<1>2. DOMAIN s = 1 .. Len(s) /\ DOMAIN t = 1 .. Len(s) + 1 BY <1>1, LenProperties
<1> HIDE DEF t
<1>3. ToSet(t) = ToSet(s) \cup {m}
  <2>1. ASSUME NEW x \in ToSet(t) PROVE x \in ToSet(s) \cup {m}
    <3>1. PICK i \in 1 .. Len(s) + 1 : x = t[i] BY <1>2, <2>1 DEF ToSet
    <3>2. i \in 1 .. Len(s) \/ i = Len(s) + 1 BY <1>1, <3>1
    <3> QED BY <1>1, <1>2, <3>1, <3>2 DEF ToSet
  <2>2. ASSUME NEW x \in ToSet(s) PROVE x \in ToSet(t)
    <3>1. PICK i \in 1 .. Len(s) : x = s[i] BY <1>2, <2>2 DEF ToSet
    <3>2. i \in 1 .. Len(s) + 1 /\ t[i] = x BY <1>1, <3>1
    <3> QED BY <1>2, <3>2 DEF ToSet
  <2>3. m \in ToSet(t)
    <3>1. Len(s) + 1 \in 1 .. Len(s) + 1 BY <1>1
    <3> QED BY <1>1, <1>2, <3>1 DEF ToSet
  <2> QED BY <2>1, <2>2, <2>3
<1>4. ASSUME Increasing(s), \A x \in ToSet(s) : Earlier(x, m),
             NEW i \in 1 .. Len(s) + 1, NEW j \in 1 .. Len(s) + 1, i < j
      PROVE  Earlier(t[i], t[j])
  <2>1. i \in 1 .. Len(s) /\ t[i] = s[i] /\ s[i] \in ToSet(s)
    <3>1. i \in 1 .. Len(s) BY <1>1, <1>4
    <3> QED BY <1>1, <1>2, <3>1 DEF ToSet
  <2>2. j \in 1 .. Len(s) \/ j = Len(s) + 1 BY <1>1
  <2>3. CASE j \in 1 .. Len(s) BY <1>1, <1>4, <2>1, <2>3 DEF Increasing
  <2>4. CASE j = Len(s) + 1 BY <1>1, <1>4, <2>1, <2>4
  <2> QED BY <2>2, <2>3, <2>4
<1>5. Increasing(s) /\ (\A x \in ToSet(s) : Earlier(x, m)) => Increasing(t)
  BY <1>1, <1>4 DEF Increasing
<1> QED BY <1>1, <1>3, <1>5 DEF t

LEMMA Popped ==
  ASSUME NEW s \in Seq(Msgs), s # <<>>
  PROVE  /\ Head(s) \in Msgs /\ Head(s) \in ToSet(s)
         /\ Tail(s) \in Seq(Msgs) /\ Len(Tail(s)) <= Len(s) /\ ToSet(Tail(s)) \subseteq ToSet(s)
         /\ Increasing(s) => Increasing(Tail(s)) /\ \A x \in ToSet(Tail(s)) : Earlier(Head(s), x)
<1> DEFINE t == Tail(s)
<1>1. /\ Len(s) \in Nat \ {0} /\ DOMAIN s = 1 .. Len(s)
      /\ Head(s) \in Msgs /\ t \in Seq(Msgs) /\ Len(t) = Len(s) - 1
      /\ \A i \in 1 .. Len(t) : t[i] = s[i + 1]
  BY HeadTailProperties, EmptySeq, LenProperties
<1>2. Head(s) = s[1] /\ 1 \in DOMAIN s BY <1>1
<1>3. DOMAIN t = 1 .. Len(s) - 1 BY <1>1, LenProperties
<1> HIDE DEF t
<1>4. \A i \in 1 .. Len(s) - 1 : i + 1 \in 1 .. Len(s) /\ t[i] = s[i + 1] /\ 1 < i + 1 BY <1>1
<1>5. ASSUME NEW x \in ToSet(t) PROVE x \in ToSet(s) /\ (Increasing(s) => Earlier(Head(s), x))
  <2>1. PICK i \in 1 .. Len(s) - 1 : x = t[i] BY <1>3, <1>5 DEF ToSet
  <2>2. x \in ToSet(s) BY <1>1, <1>4, <2>1 DEF ToSet
  <2>3. Increasing(s) => Earlier(s[1], s[i + 1]) BY <1>1, <1>2, <1>4 DEF Increasing
  <2> QED BY <1>2, <1>4, <2>1, <2>2, <2>3
<1>6. ASSUME Increasing(s), NEW i \in 1 .. Len(s) - 1, NEW j \in 1 .. Len(s) - 1, i < j
      PROVE  Earlier(t[i], t[j])
  <2>1. i + 1 < j + 1 BY <1>6
  <2>2. Earlier(s[i + 1], s[j + 1]) BY <1>4, <1>6, <2>1 DEF Increasing
  <2> QED BY <1>4, <2>2
<1>7. Increasing(s) => Increasing(t) BY <1>1, <1>6 DEF Increasing
<1>8. Head(s) \in ToSet(s) BY <1>2 DEF ToSet
<1>9. Len(t) <= Len(s) BY <1>1
<1> QED BY <1>1, <1>5, <1>7, <1>8, <1>9 DEF t

-----------------------------------------------------------------------------
(* What each step does to the messages.                                    *)

msgVars == <<chan, written, accepted, wpc, count>>

MsgTypes ==
  /\ chan \in Seq(Msgs) /\ Len(chan) <= ChanLen
  /\ wpc \in [Writers -> {"idle", "send"}] /\ count \in [Writers -> 0 .. MaxMsgs]
  /\ written \in Seq(Msgs) /\ ToSet(written) \subseteq accepted /\ accepted \subseteq Msgs

MsgInv == MsgTypes /\ OrderInv /\ AcceptInv

\* A message taken from the channel goes to the end of what is written.
LEMMA PopKeeps ==
  ASSUME MsgInv, Pop, UNCHANGED <<accepted, wpc, count>>
  PROVE  MsgInv'
<1> DEFINE m == Head(chan)
<1>1. /\ m \in Msgs /\ m \in ToSet(chan) /\ m \in accepted
      /\ chan' \in Seq(Msgs) /\ Len(chan') <= Len(chan) /\ ToSet(chan') \subseteq ToSet(chan)
      /\ Increasing(chan') /\ \A x \in ToSet(chan') : Earlier(m, x)
  BY Popped DEF MsgInv, MsgTypes, OrderInv, AcceptInv, Pop
<1>2. Len(chan) \in Nat /\ Len(chan') \in Nat BY <1>1, LenProperties DEF MsgInv, MsgTypes
<1>3. Len(chan') <= ChanLen BY <1>1, <1>2, LoggerAssumption DEF MsgInv, MsgTypes, LoggerAssumption
<1>4. /\ written' \in Seq(Msgs) /\ ToSet(written') \subseteq ToSet(written) \cup {m}
      /\ Increasing(written')
  <2>1. CASE open
    <3>1. written' = Append(written, m) BY <2>1 DEF Pop, WriteToLoggers
    <3> QED BY <1>1, <3>1, Appended DEF MsgInv, MsgTypes, OrderInv
  <2>2. CASE ~open BY <2>2 DEF Pop, WriteToLoggers, MsgInv, MsgTypes, OrderInv
  <2> QED BY <2>1, <2>2
<1> HIDE DEF m
<1>5. MsgTypes' BY <1>1, <1>3, <1>4 DEF MsgInv, MsgTypes
<1>6. OrderInv' BY <1>1, <1>4 DEF MsgInv, OrderInv
<1>7. AcceptInv' BY <1>1 DEF MsgInv, AcceptInv
<1> QED BY <1>5, <1>6, <1>7 DEF MsgInv

LEMMA WriteSyncKeeps ==
  ASSUME MsgInv, Unused, NEW w \in Writers, WriteSync(w)
  PROVE  MsgInv'
<1> USE LoggerAssumption DEF LoggerAssumption, MsgInv, MsgTypes
<1> DEFINE m == <<w, count[w] + 1>>
<1>1. /\ chan = <<>> /\ UNCHANGED <<chan, wpc>> /\ wpc[w] = "idle" /\ count[w] < MaxMsgs
      /\ count' = [count EXCEPT ![w] = @ + 1]
      /\ accepted' = accepted \cup {m}
      /\ written' = IF open THEN Append(written, m) ELSE written
  <2>1. /\ ~async /\ UNCHANGED <<chan, wpc>> /\ wpc[w] = "idle" /\ count[w] < MaxMsgs
        /\ count' = [count EXCEPT ![w] = @ + 1]
        /\ accepted' = accepted \cup {<<w, count'[w]>>}
        /\ written' = IF open THEN Append(written, <<w, count'[w]>>) ELSE written
    BY DEF WriteSync, WriteToLoggers, Msg, loopVars
  <2>2. count'[w] = count[w] + 1 BY <2>1
  <2> QED BY <2>1, <2>2 DEF Unused
<1>2. /\ m \in Msgs /\ count' \in [Writers -> 0 .. MaxMsgs]
      /\ count'[w] = count[w] + 1 /\ \A v \in Writers : v # w => count'[v] = count[v]
  BY <1>1 DEF Msgs
<1>3. \A x \in ToSet(written) : Earlier(x, m)
  BY <1>2 DEF AcceptInv, Earlier, Msgs
<1>4. /\ written' \in Seq(Msgs) /\ ToSet(written') \subseteq ToSet(written) \cup {m}
      /\ Increasing(written')
  BY <1>1, <1>2, <1>3, Appended DEF OrderInv
<1>5. ToSet(chan) = {} /\ Increasing(chan) BY <1>1 DEF ToSet, Increasing
<1>6. MsgTypes' BY <1>1, <1>2, <1>4
<1>7. OrderInv' BY <1>1, <1>4, <1>5 DEF OrderInv
<1>8. AcceptInv'
  <2> SUFFICES ASSUME NEW v \in Writers
               PROVE  /\ wpc[v] = "send" => count'[v] # 0
                      /\ \A x \in accepted' : x[1] = v => /\ x[2] <= count'[v]
                                                          /\ wpc[v] = "send" => x[2] < count'[v]
    BY <1>1, <1>5 DEF AcceptInv
  <2>1. CASE v = w
    <3>1. \A x \in accepted : x[2] \in Nat BY DEF Msgs
    <3> QED BY <1>1, <1>2, <2>1, <3>1 DEF AcceptInv
  <2>2. CASE v # w BY <1>1, <1>2, <2>2 DEF AcceptInv
  <2> QED BY <2>1, <2>2
<1> QED BY <1>6, <1>7, <1>8

LEMMA WriteCheckKeeps ==
  ASSUME MsgInv, NEW w \in Writers, WriteCheck(w)
  PROVE  MsgInv'
<1> USE LoggerAssumption DEF LoggerAssumption, MsgInv, MsgTypes
<1>1. /\ UNCHANGED <<chan, written, accepted>> /\ wpc[w] = "idle" /\ count[w] < MaxMsgs
      /\ count' = [count EXCEPT ![w] = @ + 1]
      /\ wpc' = [wpc EXCEPT ![w] = "send"] \/ UNCHANGED wpc
  BY DEF WriteCheck, loopVars
<1>2. /\ count' \in [Writers -> 0 .. MaxMsgs]
      /\ count'[w] = count[w] + 1 /\ \A v \in Writers : v # w => count'[v] = count[v] /\ wpc'[v] = wpc[v]
      /\ wpc' \in [Writers -> {"idle", "send"}]
  BY <1>1
<1>3. MsgTypes' BY <1>1, <1>2
<1>4. OrderInv' BY <1>1 DEF OrderInv
<1>5. AcceptInv'
  <2> SUFFICES ASSUME NEW v \in Writers
               PROVE  /\ wpc'[v] = "send" => count'[v] # 0
                      /\ \A x \in accepted : x[1] = v => /\ x[2] <= count'[v]
                                                         /\ wpc'[v] = "send" => x[2] < count'[v]
    BY <1>1 DEF AcceptInv
  <2>1. CASE v = w
    <3>1. \A x \in accepted : x[2] \in Nat BY DEF Msgs
    <3> QED BY <1>1, <1>2, <2>1, <3>1 DEF AcceptInv
  <2>2. CASE v # w BY <1>1, <1>2, <2>2 DEF AcceptInv
  <2> QED BY <2>1, <2>2
<1> QED BY <1>3, <1>4, <1>5

LEMMA SendKeeps ==
  ASSUME MsgInv, NEW w \in Writers, Send(w)
  PROVE  MsgInv'
<1> USE LoggerAssumption DEF LoggerAssumption, MsgInv, MsgTypes
<1> DEFINE m == <<w, count[w]>>
<1>1. /\ UNCHANGED <<written, count>> /\ wpc[w] = "send" /\ Len(chan) < ChanLen
      /\ chan' = Append(chan, m) /\ accepted' = accepted \cup {m}
      /\ wpc' = [wpc EXCEPT ![w] = "idle"]
  BY DEF Send, Msg
<1>2. m \in Msgs BY <1>1 DEF AcceptInv, Msgs
<1>3. \A x \in accepted : Earlier(x, m) BY <1>1 DEF AcceptInv, Earlier
<1>4. /\ chan' \in Seq(Msgs) /\ Len(chan') = Len(chan) + 1 /\ ToSet(chan') = ToSet(chan) \cup {m}
      /\ Increasing(chan')
  BY <1>1, <1>2, <1>3, Appended DEF OrderInv, AcceptInv
<1>5. Len(chan') <= ChanLen
  <2>1. Len(chan) \in Nat BY LenProperties
  <2> QED BY <1>1, <1>4, <2>1
<1>6. /\ wpc'[w] = "idle" /\ \A v \in Writers : v # w => wpc'[v] = wpc[v]
      /\ wpc' \in [Writers -> {"idle", "send"}]
  BY <1>1
<1>7. MsgTypes' BY <1>1, <1>2, <1>4, <1>5, <1>6
<1>8. OrderInv' BY <1>1, <1>3, <1>4 DEF OrderInv
<1>9. AcceptInv'
  <2> SUFFICES ASSUME NEW v \in Writers
               PROVE  /\ wpc'[v] = "send" => count[v] # 0
                      /\ \A x \in accepted' : x[1] = v => /\ x[2] <= count[v]
                                                          /\ wpc'[v] = "send" => x[2] < count[v]
    BY <1>1, <1>4 DEF AcceptInv
  <2>1. CASE v = w BY <1>1, <1>2, <1>6, <2>1 DEF AcceptInv
  <2>2. CASE v # w BY <1>1, <1>6, <2>2 DEF AcceptInv
  <2> QED BY <2>1, <2>2
<1> QED BY <1>7, <1>8, <1>9

LEMMA DiscardKeeps ==
  ASSUME MsgInv, NEW w \in Writers, Discard(w)
  PROVE  MsgInv'
<1>1. /\ UNCHANGED <<chan, written, accepted, count>>
      /\ wpc' = [wpc EXCEPT ![w] = "idle"]
  BY DEF Discard, loopVars
<1>2. MsgTypes' BY <1>1 DEF MsgInv, MsgTypes
<1>3. OrderInv' BY <1>1 DEF MsgInv, OrderInv
<1>4. \A v \in Writers : wpc'[v] = "send" => wpc[v] = "send" BY <1>1 DEF MsgInv, MsgTypes
<1>5. AcceptInv' BY <1>1, <1>4 DEF MsgInv, AcceptInv
<1> QED BY <1>2, <1>3, <1>5 DEF MsgInv

LEMMA QuietKeeps ==
  ASSUME MsgInv, UNCHANGED msgVars
  PROVE  MsgInv'
BY DEF MsgInv, MsgTypes, OrderInv, AcceptInv, msgVars

LEMMA MessageStep ==
  ASSUME MsgInv, Unused, Next
  PROVE  MsgInv'
<1>1. CASE RecvMsg BY <1>1, PopKeeps DEF RecvMsg, wrtVars
<1>2. CASE Drain BY <1>2, PopKeeps DEF Drain, wrtVars
<1>3. CASE Async \/ RecvFlush \/ RecvClose \/ Drained \/ Done
  <2>1. UNCHANGED msgVars
    BY <1>3 DEF Async, RecvFlush, RecvClose, Drained, Done, Panic, msgVars, loopVars, wrtVars
  <2> QED BY <2>1, QuietKeeps
<1>4. ASSUME NEW c \in Ctls, Control(c) PROVE MsgInv'
  <2>1. UNCHANGED msgVars
    BY <1>4 DEF Control, Call, CallSync, SetLogger, FlushSend, CloseSend, SendOnClosedSignal, Wait,
                Woken, FlushAdd, CloseChans, Panic, msgVars, loopVars, wrtVars
  <2> QED BY <2>1, QuietKeeps
<1>5. ASSUME NEW w \in Writers, Write(w) PROVE MsgInv'
  <2>1. CASE WriteSync(w) BY <2>1, WriteSyncKeeps
  <2>2. CASE WriteCheck(w) BY <2>2, WriteCheckKeeps
  <2>3. CASE Send(w) BY <2>3, SendKeeps
  <2>4. CASE Discard(w) BY <2>4, DiscardKeeps
  <2>5. CASE SendOnClosed(w)
    <3>1. UNCHANGED msgVars BY <2>5 DEF SendOnClosed, Panic, msgVars, loopVars, wrtVars
    <3> QED BY <3>1, QuietKeeps
  <2> QED BY <1>5, <2>1, <2>2, <2>3, <2>4, <2>5 DEF Write
<1> QED BY <1>1, <1>2, <1>3, <1>4, <1>5 DEF Next, Logger

LEMMA UnusedStep ==
  ASSUME Unused, Next
  PROVE  Unused'
<1> SUFFICES ASSUME ~async' PROVE UNCHANGED <<async, chan, wpc>> BY DEF Unused
<1>1. CASE Async BY <1>1 DEF Async
<1>2. CASE Logger
  <2>1. async' = async
    BY <1>2 DEF Logger, RecvMsg, RecvFlush, RecvClose, Drain, Drained, Done, Panic
  <2>2. chan = <<>> BY <2>1 DEF Unused
  <2> QED BY <1>2, <2>2 DEF Logger, RecvMsg, RecvFlush, RecvClose, Drain, Pop, Drained, Done, Panic,
                            loopVars, wrtVars
<1>3. ASSUME NEW w \in Writers, Write(w) PROVE UNCHANGED <<async, chan, wpc>>
  <2>1. async' = async
    BY <1>3 DEF Write, WriteSync, WriteCheck, Send, Discard, SendOnClosed, Panic
  <2>2. wpc[w] = "idle" /\ ~async BY <2>1 DEF Unused
  <2> QED BY <1>3, <2>1, <2>2 DEF Write, WriteSync, WriteCheck, Send, Discard, SendOnClosed, loopVars
<1>4. ASSUME NEW c \in Ctls, Control(c) PROVE UNCHANGED <<async, chan, wpc>>
  BY <1>4 DEF Control, Call, CallSync, SetLogger, FlushSend, CloseSend, SendOnClosedSignal, Wait,
              Woken, FlushAdd, CloseChans, Panic, loopVars, wrtVars
<1> QED BY <1>1, <1>2, <1>3, <1>4 DEF Next

-----------------------------------------------------------------------------
(* What each step does to the goroutine and its controller.                *)

CtlTypes ==
  /\ nonBlocking \in BOOLEAN /\ async \in BOOLEAN /\ open \in BOOLEAN /\ chanClosed \in BOOLEAN
  /\ flushTok \in BOOLEAN /\ closeTok \in BOOLEAN
  /\ wg \in Nat
  /\ pc \in {"off", "select", "flush", "close", "flushed", "closed", "over"}
  /\ cpc \in [Ctls -> {"idle", "call", "sent", "wait", "woken", "return", "end"}]
  /\ op \in [Ctls -> {"flush", "reset", "close"}]
  /\ calls \in [Ctls -> 0 .. MaxCalls] /\ before \in [Ctls -> SUBSET Msgs]

CtlInv == CtlTypes /\ OffInv /\ PhaseInv /\ WaitGroupSound

\* Done, when it does not panic.
DoneOnce ==
  /\ pc \in {"flushed", "closed"} /\ wg > 0
  /\ wg' = wg - 1
  /\ cpc' = [c \in Ctls |-> IF wg' = 0 /\ cpc[c] = "wait" THEN "woken" ELSE cpc[c]]
  /\ pc' = IF pc = "flushed" THEN "select" ELSE "over"
  /\ UNCHANGED <<async, open, chanClosed, chan, flushTok, closeTok, op, calls, before,
                 wrtVars, written, accepted, panicked>>

LEMMA DoneCases ==
  ASSUME Done
  PROVE  (wg = 0 /\ Panic("negative WaitGroup counter")) \/ DoneOnce
BY Zenon DEF Done, DoneOnce

\* The types of what controllers and the goroutine share.
LEMMA ControlTypes ==
  ASSUME CtlTypes, MsgTypes, Next
  PROVE  CtlTypes'
<1> USE LoggerAssumption DEF LoggerAssumption, CtlTypes
<1>1. CASE Async BY <1>1 DEF Async, ctlVars, wrtVars
<1>2. CASE RecvMsg \/ RecvFlush \/ RecvClose \/ Drain
  BY <1>2 DEF RecvMsg, RecvFlush, RecvClose, Drain, ctlVars, wrtVars
<1>3. CASE Drained BY <1>3 DEF Drained, ctlVars, wrtVars
<1>4. CASE Done
  <2>1. CASE Panic("negative WaitGroup counter") BY <2>1 DEF Panic, ctlVars, wrtVars, loopVars
  <2>2. CASE DoneOnce
    <3>1. cpc' \in [Ctls -> {"idle", "call", "sent", "wait", "woken", "return", "end"}] BY <2>2 DEF DoneOnce
    <3> QED BY <2>2, <3>1 DEF DoneOnce, wrtVars
  <2> QED BY <1>4, <2>1, <2>2, DoneCases
<1>5. ASSUME NEW c \in Ctls, Control(c) PROVE CtlTypes'
  <2>1. CASE Call(c)
    <3>1. /\ calls' = [calls EXCEPT ![c] = @ + 1] /\ calls[c] < MaxCalls
          /\ before' = [before EXCEPT ![c] = accepted]
          /\ \E o \in Ops : op' = [op EXCEPT ![c] = o]
          /\ cpc' = [cpc EXCEPT ![c] = "call"]
          /\ UNCHANGED <<async, open, chanClosed, wg, flushTok, closeTok, pc, nonBlocking>>
      BY <2>1 DEF Call, Goto, loopVars, wrtVars
    <3> QED BY <3>1 DEF MsgTypes
  <2>2. CASE CallSync(c)
    <3>1. /\ calls' = [calls EXCEPT ![c] = @ + 1] /\ calls[c] < MaxCalls
          /\ open' \in BOOLEAN /\ chanClosed' \in BOOLEAN
          /\ (cpc' = cpc) \/ (cpc' = [cpc EXCEPT ![c] = "end"])
          /\ UNCHANGED <<async, op, before, wg, flushTok, closeTok, pc, nonBlocking>>
      BY <2>2 DEF CallSync, Goto, loopVars, wrtVars
    <3> QED BY <3>1
  <2>3. CASE SetLogger(c) BY <2>3 DEF SetLogger, loopVars, wrtVars, ctlVars
  <2>4. CASE FlushSend(c) BY <2>4 DEF FlushSend, Goto, wrtVars
  <2>5. CASE CloseSend(c) BY <2>5 DEF CloseSend, Goto, wrtVars
  <2>6. CASE SendOnClosedSignal(c) BY <2>6 DEF SendOnClosedSignal, Panic, loopVars, ctlVars, wrtVars
  <2>7. CASE Wait(c) BY <2>7 DEF Wait, Goto, loopVars, wrtVars
  <2>8. CASE Woken(c) BY ZenonT(30), <2>8 DEF Woken, Panic, Goto, loopVars, ctlVars, wrtVars
  <2>9. CASE FlushAdd(c) BY <2>9 DEF FlushAdd, Goto, loopVars, wrtVars
  <2>10. CASE CloseChans(c) BY ZenonT(30), <2>10 DEF CloseChans, Panic, Goto, loopVars, ctlVars, wrtVars
  <2> QED BY <1>5, <2>1, <2>2, <2>3, <2>4, <2>5, <2>6, <2>7, <2>8, <2>9, <2>10 DEF Control
<1>6. ASSUME NEW w \in Writers, Write(w) PROVE CtlTypes'
  BY ZenonT(30), <1>6 DEF Write, WriteSync, WriteCheck, Send, Discard, SendOnClosed, Panic, loopVars, ctlVars, wrtVars
<1> QED BY <1>1, <1>2, <1>3, <1>4, <1>5, <1>6 DEF Next, Logger


\* With the goroutine's one in it the counter goes to zero, and wakes who waits.
LEMMA DoneWakes ==
  ASSUME Done, wg = 1
  PROVE  /\ DoneOnce /\ wg' = 0
         /\ cpc' = [c \in Ctls |-> IF cpc[c] = "wait" THEN "woken" ELSE cpc[c]]
<1>1. wg # 0 OBVIOUS
<1>2. DoneOnce BY <1>1, DoneCases, Zenon
<1>3. wg' = wg - 1 BY <1>2, Zenon DEF DoneOnce
<1>4. wg' = 0 BY <1>3
<1> QED BY <1>2, <1>4 DEF DoneOnce

\* Of the one controller and the goroutine every step keeps the phase.
LEMMA ControlStep ==
  ASSUME CtlInv, MsgTypes, OneController, Next
  PROVE  OffInv' /\ PhaseInv' /\ WaitGroupSound'
<1> USE DEF CtlInv, CtlTypes
<1>0. PICK c \in Ctls : Ctls = {c} BY DEF OneController
<1>1. /\ ~async => /\ chan = <<>> /\ pc = "off" /\ wg = 0 /\ ~flushTok /\ ~closeTok
                   /\ \A w \in Writers : wpc[w] = "idle"
                   /\ cpc[c] \in {"idle", "end"}
      /\ async => pc # "off" /\ Phase(c)
      /\ chanClosed <=> cpc[c] = "end"
  BY <1>0 DEF OffInv, PhaseInv
<1> DEFINE Goal == /\ ~async' => /\ chan' = <<>> /\ pc' = "off" /\ wg' = 0 /\ ~flushTok' /\ ~closeTok'
                                 /\ \A w \in Writers : wpc'[w] = "idle"
                                 /\ cpc'[c] \in {"idle", "end"}
                   /\ async' => pc' # "off" /\ Phase(c)'
                   /\ chanClosed' <=> cpc'[c] = "end"
                   /\ WaitGroupSound'
<1> SUFFICES Goal BY <1>0 DEF OffInv, PhaseInv
<1>2. panicked = "no" BY DEF Next
<1> USE DEF Phase, Waiting, Released, NoToken, WaitGroupSound
<1>3. CASE Async BY <1>1, <1>2, <1>3 DEF Async, ctlVars, wrtVars
<1>4. CASE RecvMsg \/ RecvFlush \/ RecvClose \/ Drain
  <2>1. CASE RecvMsg BY <1>1, <1>2, <2>1 DEF RecvMsg, Pop, ctlVars, wrtVars
  <2>2. CASE RecvFlush BY <1>1, <1>2, <2>2 DEF RecvFlush, ctlVars, wrtVars
  <2>3. CASE RecvClose BY <1>1, <1>2, <2>3 DEF RecvClose, ctlVars, wrtVars
  <2>4. CASE Drain BY <1>1, <1>2, <2>4 DEF Drain, Pop, ctlVars, wrtVars
  <2> QED BY <1>4, <2>1, <2>2, <2>3, <2>4
<1>5. CASE Drained BY <1>1, <1>2, <1>5 DEF Drained, ctlVars, wrtVars
<1>6. CASE Done
  <2>1. wg = 1 BY <1>1, <1>6 DEF Done
  <2>2. DoneOnce /\ wg' = 0 BY <1>6, <2>1, DoneWakes, Zenon
  <2>3. cpc'[c] = IF cpc[c] = "wait" THEN "woken" ELSE cpc[c]
    <3>1. cpc' = [d \in Ctls |-> IF cpc[d] = "wait" THEN "woken" ELSE cpc[d]] BY <1>6, <2>1, DoneWakes, Zenon
    <3> QED BY <3>1
  <2> QED BY <1>1, <1>2, <2>1, <2>2, <2>3 DEF DoneOnce, wrtVars
<1>7. CASE Control(c)
  <2>1. CASE Call(c)
    <3>1. cpc'[c] = "call" BY <2>1 DEF Call, Goto
    <3> QED BY <1>1, <1>2, <2>1, <3>1 DEF Call, loopVars, wrtVars
  <2>2. CASE CallSync(c)
    <3>1. /\ cpc[c] = "idle" /\ ~async
          /\ UNCHANGED <<async, wg, loopVars, wrtVars, panicked>>
          /\ \/ UNCHANGED <<chanClosed, cpc>>
             \/ chanClosed' = TRUE /\ cpc' = [cpc EXCEPT ![c] = "end"]
      BY <2>2 DEF CallSync, Goto
    <3>2. \/ UNCHANGED <<chanClosed, cpc>>
          \/ chanClosed' = TRUE /\ cpc'[c] = "end"
      BY <3>1
    <3> QED BY <1>1, <1>2, <3>1, <3>2 DEF loopVars, wrtVars
  <2>3. CASE SetLogger(c) BY <1>1, <1>2, <2>3 DEF SetLogger, loopVars, wrtVars, ctlVars
  <2>4. CASE FlushSend(c)
    <3>1. cpc'[c] = "sent" BY <2>4 DEF FlushSend, Goto
    <3> QED BY <1>1, <1>2, <2>4, <3>1 DEF FlushSend, wrtVars
  <2>5. CASE CloseSend(c)
    <3>1. cpc'[c] = "sent" BY <2>5 DEF CloseSend, Goto
    <3> QED BY <1>1, <1>2, <2>5, <3>1 DEF CloseSend, wrtVars
  <2>6. CASE SendOnClosedSignal(c) BY <1>1, <2>6 DEF SendOnClosedSignal
  <2>7. CASE Wait(c)
    <3>1. cpc'[c] = IF wg = 0 THEN "return" ELSE "wait" BY <2>7 DEF Wait, Goto
    <3> QED BY <1>1, <1>2, <2>7, <3>1 DEF Wait, loopVars, wrtVars
  <2>8. CASE Woken(c)
    <3>1. async /\ wg = 0 BY <1>1, <2>8 DEF Woken
    <3>2. cpc'[c] = "return" BY <2>8, <3>1 DEF Woken, Goto
    <3> QED BY <1>1, <1>2, <2>8, <3>1, <3>2 DEF Woken, loopVars, wrtVars
  <2>9. CASE FlushAdd(c)
    <3>1. cpc'[c] = "idle" BY <2>9 DEF FlushAdd, Goto
    <3> QED BY <1>1, <1>2, <2>9, <3>1 DEF FlushAdd, loopVars, wrtVars
  <2>10. CASE CloseChans(c)
    <3>1. cpc[c] = "return" /\ op[c] = "close" /\ wg = 0 /\ pc = "over" BY <1>1, <2>10 DEF CloseChans
    <3>3. ~chanClosed /\ async BY <1>1, <3>1
    <3>4. chanClosed' = TRUE /\ UNCHANGED <<async, wg, loopVars, panicked>>
      BY <2>10, <3>1, <3>3 DEF CloseChans
    <3>5. cpc' = [cpc EXCEPT ![c] = "end"] BY <2>10, <3>1, <3>3, Zenon DEF CloseChans, Goto
    <3>2. cpc'[c] = "end" BY <3>5
    <3> QED BY <1>1, <1>2, <3>1, <3>2, <3>3, <3>4 DEF loopVars
  <2> QED BY <1>7, <2>1, <2>2, <2>3, <2>4, <2>5, <2>6, <2>7, <2>8, <2>9, <2>10 DEF Control
<1>8. ASSUME NEW w \in Writers, Write(w) PROVE Goal
  <2>1. CASE WriteSync(w) BY <1>1, <1>2, <2>1 DEF WriteSync, loopVars, ctlVars
  <2>2. CASE WriteCheck(w) BY <1>1, <1>2, <2>2 DEF WriteCheck, loopVars, ctlVars
  <2>3. CASE Send(w) BY <1>1, <1>2, <2>3 DEF Send, ctlVars
  <2>4. CASE Discard(w) BY <1>1, <1>2, <2>4 DEF Discard, loopVars, ctlVars
  <2>5. CASE SendOnClosed(w) BY <1>1, <1>2, <2>5 DEF SendOnClosed, Panic, loopVars, ctlVars, wrtVars
  <2> QED BY <1>8, <2>1, <2>2, <2>3, <2>4, <2>5 DEF Write
<1> QED BY <1>0, <1>3, <1>4, <1>5, <1>6, <1>7, <1>8 DEF Next, Logger


\* What is taken from the channel, or sent to it, was not accepted before a
\* call that has been released.
LEMMA DrainStep ==
  ASSUME IInv, OneController, Next
  PROVE  DrainInv'
<1> USE DEF CtlTypes
<1>0. PICK c \in Ctls : Ctls = {c} BY DEF OneController
<1>1. /\ ~async => pc = "off" /\ cpc[c] \in {"idle", "end"}
      /\ async => Phase(c)
      /\ before[c] \subseteq accepted
      /\ pc \in {"flushed", "closed"} \/ (async /\ Released(c)) => before[c] \cap ToSet(chan) = {}
  BY <1>0 DEF IInv, OffInv, PhaseInv, DrainInv
<1>2. CtlTypes /\ MsgTypes BY DEF IInv, TypeOK, CtlTypes, MsgTypes
<1> DEFINE Past == pc' \in {"flushed", "closed"} \/ (async' /\ Released(c)')
           Goal == /\ before'[c] \subseteq accepted'
                   /\ Past => before'[c] \cap ToSet(chan') = {}
<1> SUFFICES Goal BY <1>0 DEF DrainInv
<1> USE DEF Phase, Waiting, Released, NoToken
<1>3. CASE Async
  <2>1. ~Past /\ UNCHANGED <<before, accepted>> BY <1>1, <1>2, <1>3 DEF Async, ctlVars
  <2> QED BY <1>1, <2>1
<1>4. CASE RecvMsg \/ Drain
  <2>1. chan # <<>> /\ chan' = Tail(chan) /\ UNCHANGED <<async, wg, pc, cpc, before, accepted>>
    BY <1>4 DEF RecvMsg, Drain, Pop, ctlVars
  <2>2. ToSet(chan') \subseteq ToSet(chan) BY <1>2, <2>1, Popped DEF MsgTypes
  <2> QED BY <1>1, <2>1, <2>2
<1>5. CASE RecvFlush
  <2>1. (Past => async /\ Released(c)) /\ UNCHANGED <<before, accepted, chan>>
    BY <1>5 DEF RecvFlush, ctlVars
  <2> QED BY <1>1, <2>1
<1>6. CASE RecvClose
  <2>1. (Past => async /\ Released(c)) /\ UNCHANGED <<before, accepted, chan>>
    BY <1>6 DEF RecvClose, ctlVars
  <2> QED BY <1>1, <2>1
<1>7. CASE Drained
  <2>1. ToSet(chan) = {} /\ UNCHANGED <<before, accepted, chan>> BY <1>7 DEF Drained, ctlVars, ToSet
  <2> QED BY <1>1, <2>1
<1>8. CASE Done
  <2>1. pc \in {"flushed", "closed"} /\ UNCHANGED <<before, accepted, chan>>
    BY <1>8, DoneCases DEF DoneOnce, Done, Panic, loopVars, ctlVars
  <2> QED BY <1>1, <2>1
<1>9. CASE Control(c)
  <2>1. CASE Call(c)
    <3>1. before' = [before EXCEPT ![c] = accepted] /\ UNCHANGED <<accepted, pc, wg>> BY <2>1 DEF Call, loopVars
    <3>2. cpc[c] = "idle" /\ cpc'[c] = "call" BY <1>2, <2>1 DEF Call, Goto
    <3>3. ~Past BY <1>1, <3>1, <3>2
    <3>4. before'[c] = accepted' BY <1>2, <3>1
    <3> QED BY <3>3, <3>4
  <2>2. CASE CallSync(c)
    <3>1. UNCHANGED <<async, before, accepted, chan, pc>> /\ ~async BY <2>2 DEF CallSync, loopVars
    <3> QED BY <1>1, <3>1
  <2>3. CASE SetLogger(c) BY <1>1, <2>3 DEF SetLogger, loopVars, ctlVars
  <2>4. CASE FlushSend(c)
    <3>1. /\ UNCHANGED <<async, before, accepted, chan, pc, wg>> /\ cpc[c] = "call"
          /\ cpc'[c] = "sent"
      BY <1>2, <2>4 DEF FlushSend, Goto
    <3>2. ~Past BY <1>1, <3>1
    <3> QED BY <1>1, <3>1, <3>2
  <2>5. CASE CloseSend(c)
    <3>1. /\ UNCHANGED <<async, before, accepted, chan, pc, wg>> /\ cpc[c] = "call"
          /\ cpc'[c] = "sent"
      BY <1>2, <2>5 DEF CloseSend, Goto
    <3>2. ~Past BY <1>1, <3>1
    <3> QED BY <1>1, <3>1, <3>2
  <2>6. CASE SendOnClosedSignal(c) BY <1>1, <2>6 DEF SendOnClosedSignal, Panic, loopVars, ctlVars
  <2>7. CASE Wait(c)
    <3>1. UNCHANGED <<async, before, accepted, chan, pc, wg>> /\ cpc[c] = "sent" BY <2>7 DEF Wait, loopVars
    <3>2. cpc'[c] \in {"return", "wait"} BY <1>2, <2>7 DEF Wait, Goto
    <3>3. Past => pc \in {"flushed", "closed"} \/ (async /\ Released(c)) BY <3>1, <3>2
    <3> QED BY <1>1, <3>1, <3>3
  <2>8. CASE Woken(c)
    <3>1. UNCHANGED <<async, before, accepted, chan, pc, wg>> /\ cpc[c] = "woken"
      BY <2>8 DEF Woken, Panic, loopVars, ctlVars
    <3>2. Past => pc \in {"flushed", "closed"} \/ (async /\ Released(c)) BY <3>1
    <3> QED BY <1>1, <3>1, <3>2
  <2>9. CASE FlushAdd(c)
    <3>1. /\ UNCHANGED <<async, before, accepted, chan, pc>> /\ cpc[c] = "return"
          /\ cpc'[c] = "idle"
      BY <1>2, <2>9 DEF FlushAdd, Goto, loopVars
    <3>2. ~Past BY <1>1, <3>1
    <3> QED BY <1>1, <3>1, <3>2
  <2>10. CASE CloseChans(c)
    <3>1. UNCHANGED <<async, before, accepted, chan, pc, wg>> /\ cpc[c] = "return"
      BY <2>10 DEF CloseChans, Panic, loopVars, ctlVars
    <3>2. Past => pc \in {"flushed", "closed"} \/ (async /\ Released(c)) BY <1>1, <3>1
    <3> QED BY <1>1, <3>1, <3>2
  <2> QED BY <1>9, <2>1, <2>2, <2>3, <2>4, <2>5, <2>6, <2>7, <2>8, <2>9, <2>10 DEF Control
<1>10. ASSUME NEW w \in Writers, Write(w) PROVE Goal
  <2>1. CASE Send(w)
    <3>1. /\ UNCHANGED <<async, wg, pc, cpc, before>> /\ wpc[w] = "send"
          /\ chan' = Append(chan, Msg(w)) /\ accepted' = accepted \cup {Msg(w)}
      BY <2>1 DEF Send, ctlVars
    <3>2. Msg(w) \in Msgs /\ Msg(w) \notin accepted
      BY <1>2, <3>1 DEF IInv, AcceptInv, Msg, MsgTypes, Msgs
    <3>3. ToSet(chan') = ToSet(chan) \cup {Msg(w)} BY <1>2, <3>1, <3>2, Appended DEF MsgTypes
    <3>4. Past => pc \in {"flushed", "closed"} \/ (async /\ Released(c)) BY <3>1
    <3> QED BY <1>1, <3>1, <3>2, <3>3, <3>4
  <2>2. CASE WriteSync(w) BY <1>1, <2>2 DEF WriteSync, loopVars, ctlVars
  <2>3. CASE WriteCheck(w) BY <1>1, <2>3 DEF WriteCheck, loopVars, ctlVars
  <2>4. CASE Discard(w) BY <1>1, <2>4 DEF Discard, loopVars, ctlVars
  <2>5. CASE SendOnClosed(w) BY <1>1, <2>5 DEF SendOnClosed, Panic, loopVars, ctlVars, wrtVars
  <2> QED BY <1>10, <2>1, <2>2, <2>3, <2>4, <2>5 DEF Write
<1> QED BY <1>0, <1>3, <1>4, <1>5, <1>6, <1>7, <1>8, <1>9, <1>10 DEF Next, Logger

-----------------------------------------------------------------------------
(* The theorems.                                                           *)

\* NewLogger: a logger without its goroutine, which nobody has used.
THEOREM Initially ==
  ASSUME OneController, Init
  PROVE  IInv
<1> USE LoggerAssumption DEF LoggerAssumption
<1>1. chan = <<>> /\ written = <<>> /\ <<>> \in Seq(Msgs) /\ Len(<<>>) = 0 /\ ToSet(<<>>) = {}
  BY EmptySeq DEF Init, ToSet
<1>2. TypeOK
  <2>1. MsgTypes BY <1>1 DEF Init, MsgTypes
  <2>2. CtlTypes
    <3>1. 0 \in 0 .. MaxCalls OBVIOUS
    <3>2. calls \in [Ctls -> 0 .. MaxCalls] BY <3>1 DEF Init
    <3> QED BY <3>2 DEF Init, CtlTypes
  <2> QED BY <2>1, <2>2 DEF TypeOK, MsgTypes, CtlTypes
<1>3. OrderInv /\ AcceptInv BY <1>1 DEF Init, OrderInv, AcceptInv, Increasing
<1>4. OffInv /\ PhaseInv /\ WaitGroupSound BY DEF Init, OffInv, PhaseInv, WaitGroupSound
<1>5. DrainInv BY <1>1 DEF Init, DrainInv
<1> QED BY <1>2, <1>3, <1>4, <1>5 DEF IInv

\* What writeMsg, startLogger and the calls of one controller keep between
\* their steps.
THEOREM Invariance ==
  ASSUME OneController
  PROVE  Spec => []IInv
<1>1. Init => IInv BY Initially
<1>2. ASSUME IInv, Next PROVE IInv'
  <2>1. MsgInv /\ CtlInv BY <1>2 DEF IInv, TypeOK, MsgInv, MsgTypes, CtlInv, CtlTypes
  <2>2. MsgInv' BY <1>2, <2>1, MessageStep DEF CtlInv, OffInv, Unused
  <2>3. CtlTypes' BY <1>2, <2>1, ControlTypes DEF CtlInv, MsgInv
  <2>4. OffInv' /\ PhaseInv' /\ WaitGroupSound' BY <1>2, <2>1, ControlStep DEF MsgInv
  <2>5. DrainInv' BY <1>2, DrainStep
  <2> QED BY <2>2, <2>3, <2>4, <2>5 DEF IInv, TypeOK, MsgInv, MsgTypes, CtlTypes
<1>3. ASSUME IInv, UNCHANGED vars PROVE IInv'
  <2>1. MsgInv' /\ CtlTypes'
    BY <1>3 DEF IInv, TypeOK, MsgInv, MsgTypes, CtlTypes, OrderInv, AcceptInv, vars, loopVars, ctlVars, wrtVars
  <2>2. OffInv' /\ PhaseInv' /\ WaitGroupSound'
    BY <1>3 DEF IInv, OffInv, PhaseInv, Phase, Waiting, Released, NoToken, WaitGroupSound, vars,
                loopVars, ctlVars, wrtVars
  <2>3. DrainInv' BY <1>3 DEF IInv, DrainInv, Released, vars, loopVars, ctlVars, wrtVars
  <2> QED BY <2>1, <2>2, <2>3 DEF IInv, TypeOK, MsgInv, MsgTypes, CtlTypes
<1> QED BY <1>1, <1>2, <1>3, PTL DEF Spec

\* Flush, Reset and Close of one controlling goroutine leave nothing in the
\* channel that was accepted before them and never upset the WaitGroup of
\* startLogger; writeMsg, the select and flush() keep each writer's order.
THEOREM LoggerCorrect ==
  ASSUME OneController
  PROVE  Spec => []LoggerSound
<1>1. IInv => FlushDrains
  <2> SUFFICES ASSUME IInv, NEW c \in Ctls, cpc[c] = "return"
               PROVE  before[c] \cap ToSet(chan) = {}
    BY DEF FlushDrains
  <2>1. async BY DEF IInv, OffInv
  <2>2. Phase(c) BY <2>1 DEF IInv, PhaseInv
  <2>3. Released(c) BY <2>2 DEF Phase, Released, Waiting
  <2> QED BY <2>1, <2>3 DEF IInv, DrainInv
<1>2. IInv => WriterOrder BY DEF IInv, OrderInv, Increasing, Earlier, WriterOrder
<1>3. IInv => LoggerSound BY <1>1, <1>2 DEF IInv, LoggerSound
<1> QED BY <1>3, Invariance, PTL

\* The order of a writer's messages does not need the controllers to agree:
\* whoever calls Flush, Reset and Close, writeMsg sends to the end of the
\* channel and every receiver in startLogger takes its head.
THEOREM InOrder == Spec => []WriterOrder
<1>1. Init => MsgInv /\ Unused
  <2> SUFFICES ASSUME Init PROVE MsgInv /\ Unused OBVIOUS
  <2> USE LoggerAssumption DEF LoggerAssumption
  <2>1. chan = <<>> /\ written = <<>> /\ <<>> \in Seq(Msgs) /\ Len(<<>>) = 0 /\ ToSet(<<>>) = {}
    BY EmptySeq DEF Init, ToSet
  <2>2. MsgTypes BY <2>1 DEF Init, MsgTypes
  <2>3. OrderInv /\ AcceptInv BY <2>1 DEF Init, OrderInv, AcceptInv, Increasing
  <2>4. Unused BY DEF Init, Unused
  <2> QED BY <2>2, <2>3, <2>4 DEF MsgInv
<1>2. MsgInv /\ Unused /\ [Next]_vars => (MsgInv /\ Unused)'
  <2> SUFFICES ASSUME MsgInv, Unused, [Next]_vars PROVE (MsgInv /\ Unused)' OBVIOUS
  <2>1. CASE Next BY <2>1, MessageStep, UnusedStep
  <2>2. CASE UNCHANGED vars
    BY <2>2, QuietKeeps DEF Unused, msgVars, vars, loopVars, wrtVars
  <2> QED BY <2>1, <2>2
<1>3. MsgInv => WriterOrder BY DEF MsgInv, OrderInv, Increasing, Earlier, WriterOrder
<1> QED BY <1>1, <1>2, <1>3, PTL DEF Spec

=============================================================================
