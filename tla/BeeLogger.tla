------------------------------ MODULE BeeLogger ------------------------------
(***************************************************************************)
(* The asynchronous logger of core/logs/log.go: goroutines that log put    *)
(* messages into a bounded channel, one goroutine (startLogger) writes     *)
(* them to the adapters, and controlling goroutines call Flush, Reset and  *)
(* Close.  Flush borrows the WaitGroup that stands for the goroutine's     *)
(* life: the goroutine calls Done after a flush and the caller of Flush    *)
(* adds the one back.                                                      *)
(***************************************************************************)
EXTENDS Integers, Sequences, FiniteSets, SequencesExt

CONSTANTS Writers,      \* goroutines that log
          Ctls,         \* goroutines that call Flush, Reset and Close
          Ops,          \* the calls they make: of "flush", "reset", "close"
          MaxMsgs,      \* messages a writer logs: a bound
          MaxCalls,     \* Flush and Reset calls of a controller: a bound
          ChanLen       \* msgChanLen

ASSUME LoggerAssumption ==
  /\ MaxMsgs \in Nat /\ MaxCalls \in Nat /\ ChanLen \in Nat \ {0}
  /\ Ops \subseteq {"flush", "reset", "close"}

VARIABLES
  nonBlocking, \* bl.logWithNonBlocking, set before use
  async,      \* bl.asynchronous
  open,       \* bl.outputs # nil
  chan,       \* bl.msgChan
  chanClosed, \* Close has closed the channels
  flushTok,   \* bl.flushChan, of capacity one: is there a token in it
  closeTok,   \* bl.closeChan, of capacity one
  wg,         \* the counter of bl.wg
  pc,         \* where startLogger is
  wpc,        \* where a writer is
  count,      \* messages a writer has begun to log
  cpc,        \* where a controller is
  op,         \* the call it makes: Flush, Reset or Close
  calls,      \* calls a controller has made
  before,     \* history: messages accepted before a controller's call
  written,    \* history: what the adapters got, in order
  accepted,   \* history: messages whose send has completed
  panicked    \* the process died, and why

loopVars == <<chan, flushTok, closeTok, pc>>
ctlVars  == <<cpc, op, calls, before>>
wrtVars  == <<wpc, count, nonBlocking>>
vars == <<async, open, chanClosed, wg, loopVars, ctlVars, wrtVars, written, accepted, panicked>>

Msgs == Writers \X (1 .. MaxMsgs)

Init ==
  /\ nonBlocking \in BOOLEAN
  /\ async = FALSE /\ open = TRUE /\ chan = <<>> /\ chanClosed = FALSE
  /\ flushTok = FALSE /\ closeTok = FALSE /\ wg = 0 /\ pc = "off"
  /\ wpc = [w \in Writers |-> "idle"] /\ count = [w \in Writers |-> 0]
  /\ cpc = [c \in Ctls |-> "idle"] /\ op = [c \in Ctls |-> "flush"]
  /\ calls = [c \in Ctls |-> 0]
  /\ before = [c \in Ctls |-> {}]
  /\ written = <<>> /\ accepted = {} /\ panicked = "no"

\* bl.Async(): the channel, the WaitGroup's one, and the goroutine.  A closed
\* logger is not used again.
Async ==
  /\ ~async /\ ~chanClosed
  /\ async' = TRUE
  /\ wg' = wg + 1
  /\ pc' = "select"
  /\ UNCHANGED <<open, chanClosed, chan, flushTok, closeTok, ctlVars, wrtVars,
                 written, accepted, panicked>>

Panic(why) ==
  /\ panicked' = why
  /\ UNCHANGED <<async, open, chanClosed, wg, loopVars, ctlVars, wrtVars, written, accepted>>

\* writeToLoggers: every adapter gets the message; none does after Reset.
WriteToLoggers(m) == written' = IF open THEN Append(written, m) ELSE written

-----------------------------------------------------------------------------
(* writeMsg.                                                               *)

Msg(w) == <<w, count[w]>>

\* Synchronous mode: the caller writes.
WriteSync(w) ==
  /\ wpc[w] = "idle" /\ count[w] < MaxMsgs /\ ~async
  /\ count' = [count EXCEPT ![w] = @ + 1]
  /\ WriteToLoggers(Msg(w)')
  /\ accepted' = accepted \cup {Msg(w)'}
  /\ UNCHANGED <<async, open, chanClosed, wg, loopVars, ctlVars, wpc, nonBlocking, panicked>>

\* Asynchronous mode: bl.outputs is looked at, then the message is sent.
WriteCheck(w) ==
  /\ wpc[w] = "idle" /\ count[w] < MaxMsgs /\ async
  /\ count' = [count EXCEPT ![w] = @ + 1]
  /\ \/ open /\ wpc' = [wpc EXCEPT ![w] = "send"]
     \/ ~open /\ UNCHANGED wpc
  /\ UNCHANGED <<async, open, chanClosed, wg, loopVars, ctlVars, nonBlocking, written, accepted,
                 panicked>>

\* bl.msgChan <- lm
Send(w) ==
  /\ wpc[w] = "send" /\ ~chanClosed
  /\ Len(chan) < ChanLen
  /\ chan' = Append(chan, Msg(w))
  /\ accepted' = accepted \cup {Msg(w)}
  /\ wpc' = [wpc EXCEPT ![w] = "idle"]
  /\ UNCHANGED <<async, open, chanClosed, wg, flushTok, closeTok, pc, ctlVars, count, nonBlocking,
                 written, panicked>>

\* The default case of the non-blocking select: the message is discarded.
Discard(w) ==
  /\ wpc[w] = "send" /\ ~chanClosed
  /\ nonBlocking /\ Len(chan) = ChanLen
  /\ wpc' = [wpc EXCEPT ![w] = "idle"]
  /\ UNCHANGED <<async, open, chanClosed, wg, loopVars, ctlVars, count, nonBlocking, written,
                 accepted, panicked>>

SendOnClosed(w) ==
  /\ wpc[w] = "send" /\ chanClosed
  /\ Panic("send on closed msgChan")

-----------------------------------------------------------------------------
(* startLogger.                                                            *)

Pop ==
  /\ chan # <<>>
  /\ WriteToLoggers(Head(chan))
  /\ chan' = Tail(chan)

\* case bm := <-bl.msgChan
RecvMsg ==
  /\ pc = "select" /\ Pop
  /\ UNCHANGED <<async, open, chanClosed, wg, flushTok, closeTok, pc, ctlVars, wrtVars,
                 accepted, panicked>>

\* case <-bl.flushChan
RecvFlush ==
  /\ pc = "select" /\ flushTok
  /\ flushTok' = FALSE
  /\ pc' = "flush"
  /\ UNCHANGED <<async, open, chanClosed, wg, chan, closeTok, ctlVars, wrtVars,
                 written, accepted, panicked>>

\* case <-bl.closeChan
RecvClose ==
  /\ pc = "select" /\ closeTok
  /\ closeTok' = FALSE
  /\ pc' = "close"
  /\ UNCHANGED <<async, open, chanClosed, wg, chan, flushTok, ctlVars, wrtVars,
                 written, accepted, panicked>>

\* bl.flush(): write what is in the channel until its length is zero.
Drain ==
  /\ pc \in {"flush", "close"} /\ Pop
  /\ UNCHANGED <<async, open, chanClosed, wg, flushTok, closeTok, pc, ctlVars, wrtVars,
                 accepted, panicked>>

\* Mutant: flush() does not look at the channel.
DrainedSoon ==
  /\ pc \in {"flush", "close"}
  /\ pc' = IF pc = "flush" THEN "flushed" ELSE "closed"
  /\ open' = (open /\ pc = "flush")
  /\ UNCHANGED <<async, chanClosed, wg, chan, flushTok, closeTok, ctlVars, wrtVars,
                 written, accepted, panicked>>

\* The loop of flush() ends; on close the adapters are destroyed and
\* bl.outputs set to nil.
Drained ==
  /\ pc \in {"flush", "close"} /\ chan = <<>>
  /\ pc' = IF pc = "flush" THEN "flushed" ELSE "closed"
  /\ open' = (open /\ pc = "flush")
  /\ UNCHANGED <<async, chanClosed, wg, chan, flushTok, closeTok, ctlVars, wrtVars,
                 written, accepted, panicked>>

\* Mutant: Done is called on close only.
DoneOnClose ==
  /\ pc \in {"flushed", "closed"}
  /\ pc' = IF pc = "flushed" THEN "select" ELSE "over"
  /\ wg' = IF pc = "flushed" THEN wg ELSE wg - 1
  /\ UNCHANGED <<async, open, chanClosed, chan, flushTok, closeTok, ctlVars, wrtVars,
                 written, accepted, panicked>>

\* bl.wg.Done(): at zero everybody in Wait is released; below zero it panics.
Done ==
  /\ pc \in {"flushed", "closed"}
  /\ \/ wg = 0 /\ Panic("negative WaitGroup counter")
     \/ /\ wg > 0
        /\ wg' = wg - 1
        /\ cpc' = [c \in Ctls |-> IF wg' = 0 /\ cpc[c] = "wait" THEN "woken" ELSE cpc[c]]
        /\ pc' = IF pc = "flushed" THEN "select" ELSE "over"
        /\ UNCHANGED <<async, open, chanClosed, chan, flushTok, closeTok, op, calls, before,
                       wrtVars, written, accepted, panicked>>

-----------------------------------------------------------------------------
(* Flush, Reset (which begins with a Flush) and Close.                     *)

Goto(c, label) == cpc' = [cpc EXCEPT ![c] = label]

\* A call is made; before remembers what had been accepted by then.
Call(c) ==
  /\ cpc[c] = "idle" /\ calls[c] < MaxCalls /\ async
  /\ calls' = [calls EXCEPT ![c] = @ + 1]
  /\ before' = [before EXCEPT ![c] = accepted]
  /\ \E o \in Ops : op' = [op EXCEPT ![c] = o]
  /\ Goto(c, "call")
  /\ UNCHANGED <<async, open, chanClosed, wg, loopVars, wrtVars, written, accepted, panicked>>

\* Without the goroutine Flush has nothing to drain, Reset drops the outputs,
\* and Close does so and closes the two signal channels.
CallSync(c) ==
  /\ cpc[c] = "idle" /\ calls[c] < MaxCalls /\ ~async
  /\ calls' = [calls EXCEPT ![c] = @ + 1]
  /\ \/ "flush" \in Ops /\ UNCHANGED <<open, chanClosed, cpc>>
     \/ "reset" \in Ops /\ open' = FALSE /\ UNCHANGED <<chanClosed, cpc>>
     \/ /\ "close" \in Ops /\ ~chanClosed
        /\ open' = FALSE /\ chanClosed' = TRUE /\ Goto(c, "end")
  /\ UNCHANGED <<async, wg, loopVars, op, before, wrtVars, written, accepted, panicked>>

\* SetLogger gives the logger an adapter again after Reset.
SetLogger(c) ==
  /\ cpc[c] = "idle" /\ ~open
  /\ open' = TRUE
  /\ UNCHANGED <<async, chanClosed, wg, loopVars, ctlVars, wrtVars, written, accepted, panicked>>

\* bl.flushChan <- struct{}{}
FlushSend(c) ==
  /\ cpc[c] = "call" /\ op[c] # "close" /\ ~chanClosed
  /\ ~flushTok
  /\ flushTok' = TRUE
  /\ Goto(c, "sent")
  /\ UNCHANGED <<async, open, chanClosed, wg, chan, closeTok, pc, op, calls, before, wrtVars,
                 written, accepted, panicked>>

\* bl.closeChan <- struct{}{}
CloseSend(c) ==
  /\ cpc[c] = "call" /\ op[c] = "close" /\ ~chanClosed
  /\ ~closeTok
  /\ closeTok' = TRUE
  /\ Goto(c, "sent")
  /\ UNCHANGED <<async, open, chanClosed, wg, chan, flushTok, pc, op, calls, before, wrtVars,
                 written, accepted, panicked>>

\* Flush, Reset or Close of a closed logger.
SendOnClosedSignal(c) ==
  /\ cpc[c] = "call" /\ chanClosed
  /\ Panic("send on closed signal channel")

\* bl.wg.Wait() at zero returns at once; otherwise Done releases it.
Wait(c) ==
  /\ cpc[c] = "sent"
  /\ Goto(c, IF wg = 0 THEN "return" ELSE "wait")
  /\ UNCHANGED <<async, open, chanClosed, wg, loopVars, op, calls, before, wrtVars, written,
                 accepted, panicked>>

\* A released Wait panics if somebody has added to the counter meanwhile.
Woken(c) ==
  /\ cpc[c] = "woken"
  /\ \/ wg # 0 /\ Panic("WaitGroup is reused")
     \/ /\ wg = 0
        /\ Goto(c, "return")
        /\ UNCHANGED <<async, open, chanClosed, wg, loopVars, op, calls, before, wrtVars,
                       written, accepted, panicked>>

\* bl.wg.Add(1), and Flush returns; Reset goes on to destroy the adapters.
FlushAdd(c) ==
  /\ cpc[c] = "return" /\ op[c] # "close"
  /\ wg' = wg + 1
  /\ open' = (open /\ op[c] = "flush")
  /\ Goto(c, "idle")
  /\ UNCHANGED <<async, chanClosed, loopVars, op, calls, before, wrtVars, written,
                 accepted, panicked>>

\* close(bl.msgChan), close(bl.flushChan), close(bl.closeChan).  Closing a
\* closed channel panics.
CloseChans(c) ==
  /\ cpc[c] = "return" /\ op[c] = "close"
  /\ \/ chanClosed /\ Panic("close of closed channel")
     \/ /\ ~chanClosed
        /\ chanClosed' = TRUE
        /\ Goto(c, "end")
        /\ UNCHANGED <<async, open, wg, loopVars, op, calls, before, wrtVars, written,
                       accepted, panicked>>

Logger == RecvMsg \/ RecvFlush \/ RecvClose \/ Drain \/ Drained \/ Done

Control(c) ==
  \/ Call(c) \/ CallSync(c) \/ SetLogger(c) \/ FlushSend(c) \/ CloseSend(c)
  \/ SendOnClosedSignal(c) \/ Wait(c) \/ Woken(c) \/ FlushAdd(c) \/ CloseChans(c)

Write(w) ==
  \/ WriteSync(w) \/ WriteCheck(w) \/ Send(w) \/ Discard(w) \/ SendOnClosed(w)

Next ==
  /\ panicked = "no"
  /\ \/ Async \/ Logger
     \/ \E w \in Writers : Write(w)
     \/ \E c \in Ctls : Control(c)

Spec == Init /\ [][Next]_vars

\* The scheduler runs the logger goroutine and a call in progress when they
\* can run, and select does not pass a ready case over for good.  Nobody has
\* to log.
Fairness ==
  /\ WF_vars(Next /\ RecvMsg) /\ WF_vars(Next /\ RecvFlush) /\ WF_vars(Next /\ RecvClose)
  /\ WF_vars(Next /\ (Drain \/ Drained \/ Done))
  /\ \A c \in Ctls :
       WF_vars(Next /\ (FlushSend(c) \/ CloseSend(c) \/ SendOnClosedSignal(c) \/ Wait(c)
                          \/ Woken(c) \/ FlushAdd(c) \/ CloseChans(c)))

FairSpec == Spec /\ Fairness

-----------------------------------------------------------------------------
(* Properties.                                                             *)

\* Every variable has its type; the channel holds at most msgChanLen messages.
TypeOK ==
  /\ nonBlocking \in BOOLEAN /\ async \in BOOLEAN /\ open \in BOOLEAN /\ chanClosed \in BOOLEAN
  /\ flushTok \in BOOLEAN /\ closeTok \in BOOLEAN
  /\ chan \in Seq(Msgs) /\ Len(chan) <= ChanLen
  /\ wg \in Nat
  /\ pc \in {"off", "select", "flush", "close", "flushed", "closed", "over"}
  /\ wpc \in [Writers -> {"idle", "send"}] /\ count \in [Writers -> 0 .. MaxMsgs]
  /\ cpc \in [Ctls -> {"idle", "call", "sent", "wait", "woken", "return", "end"}]
  /\ op \in [Ctls -> {"flush", "reset", "close"}]
  /\ calls \in [Ctls -> 0 .. MaxCalls] /\ before \in [Ctls -> SUBSET Msgs]
  /\ written \in Seq(Msgs) /\ ToSet(written) \subseteq accepted /\ accepted \subseteq Msgs

\* Comment on Flush: "flush all chan data".  When Flush, Reset or Close has
\* been released by the goroutine, no message that was accepted before the
\* call is still in the channel.
FlushDrains ==
  \A c \in Ctls : cpc[c] = "return" => before[c] \cap ToSet(chan) = {}

\* A controller that makes its calls one after the other never upsets the
\* WaitGroup it shares with the goroutine.
WaitGroupSound ==
  panicked \notin {"negative WaitGroup counter", "WaitGroup is reused"}

\* What the adapters get of one writer is in the order it was logged, and
\* nothing twice: messages taken by the select, by a flush and by the close
\* do not overtake each other.
WriterOrder ==
  \A i, j \in 1 .. Len(written) :
    i < j /\ written[i][1] = written[j][1] => written[i][2] < written[j][2]

\* Flush, Reset and Close return, or the process has died.
CallReturns ==
  \A c \in Ctls : (cpc[c] = "call") ~> (cpc[c] \in {"idle", "end"} \/ panicked # "no")

\* An accepted message leaves the channel while the goroutine lives.
AcceptedIsWritten ==
  \A m \in Msgs : (m \in ToSet(chan)) ~>
     (m \notin ToSet(chan) \/ pc = "over" \/ panicked # "no")

\* Messages in their writers' order, nothing left in the channel after a flush,
\* and a WaitGroup that never goes below zero.
LoggerSound == TypeOK /\ WriterOrder /\ FlushDrains /\ WaitGroupSound

\* Neither a caller nor a message waits for the goroutine for ever.
LoggerProgress == CallReturns /\ AcceptedIsWritten

=============================================================================
