---------------------------- MODULE OutputWriter ----------------------------
(***************************************************************************)
(* The trace printer of cmd/galago (type outputWriter): the emulation      *)
(* goroutine offers lines to a bounded channel and never blocks on it; a   *)
(* goroutine of its own (run) takes them off, writes them through a        *)
(* bufio.Writer to stdout and flushes the buffer on a ticker.  Close       *)
(* closes the channel and waits for the goroutine to have flushed.         *)
(*                                                                         *)
(* Lines are opaque; what reaches stdout is recorded in two parts per      *)
(* line, the text and the newline, because run writes them with two calls  *)
(* and the buffer may spill between them.  Capacities count lines (the     *)
(* channel) and parts (the buffer).                                        *)
(***************************************************************************)
EXTENDS Naturals, Sequences

CONSTANTS Line,           \* the lines the emulation may print
          NoLine,         \* run holds no line
          ChanCap,        \* capacity of w.ch (2048 in the code)
          BufCap,         \* capacity of the bufio.Writer, in parts
          MaxLines,       \* bound: how many lines are offered in a run
          StdoutMayFail   \* whether a write to stdout may return an error

ASSUME WriterAssumption ==
  /\ NoLine \notin Line
  /\ ChanCap \in Nat \ {0}
  /\ BufCap \in Nat \ {0}
  /\ MaxLines \in Nat
  /\ StdoutMayFail \in BOOLEAN

VARIABLES
  main,      \* the caller: "writing", "closing", "returned" or "crashed"
  ch,        \* the lines in w.ch
  chClosed,  \* close(w.ch) has run
  tick,      \* a tick waits in ticker.C, whose capacity is one
  runner,    \* run: "select", "text", "newline", "exited"
  line,      \* the line run has received, while it writes it
  buf,       \* the parts in the bufio.Writer
  stdout,    \* the parts written to os.Stdout
  werr,      \* the bufio.Writer holds a write error
  done,      \* close(w.done) has run
  accepted,  \* history: the lines that entered the channel
  dropped    \* history: how many lines Write let go

callerVars == <<main, chClosed>>
runnerVars == <<tick, runner, line, buf, stdout, werr, done>>
vars == <<main, ch, chClosed, tick, runner, line, buf, stdout, werr, done,
          accepted, dropped>>

Part == Line \X {"text", "newline"}

\* The k-th part of the stream a sequence of lines stands for.
PartAt(lines, k) ==
  <<lines[(k + 1) \div 2], IF k % 2 = 1 THEN "text" ELSE "newline">>

-----------------------------------------------------------------------------
Init == /\ main = "writing"
        /\ ch = <<>>
        /\ chClosed = FALSE
        /\ tick = FALSE
        /\ runner = "select"
        /\ line = NoLine
        /\ buf = <<>>
        /\ stdout = <<>>
        /\ werr = FALSE
        /\ done = FALSE
        /\ accepted = <<>>
        /\ dropped = 0

\* Variants: the line is queued, room or no room; a line is lost one place
\* before the channel is full.
OfferUnbounded(l) == /\ ch' = Append(ch, l)
                     /\ accepted' = Append(accepted, l)
                     /\ UNCHANGED dropped

OfferEarly(l) ==
  \/ /\ Len(ch) < ChanCap - 1
     /\ ch' = Append(ch, l)
     /\ accepted' = Append(accepted, l)
     /\ UNCHANGED dropped
  \/ /\ Len(ch) >= ChanCap - 1
     /\ dropped' = dropped + 1
     /\ UNCHANGED <<ch, accepted>>

\* The select with a default case in Write: a full channel loses the line.
Offer(l) ==
  \/ /\ Len(ch) < ChanCap
     /\ ch' = Append(ch, l)
     /\ accepted' = Append(accepted, l)
     /\ UNCHANGED dropped
  \/ /\ Len(ch) = ChanCap
     /\ dropped' = dropped + 1
     /\ UNCHANGED <<ch, accepted>>

Write(l) == /\ main = "writing"
            /\ Len(accepted) + dropped < MaxLines
            /\ Offer(l)
            /\ UNCHANGED <<callerVars, runnerVars>>

CloseChannel == /\ main = "writing"
                /\ chClosed' = TRUE
                /\ main' = "closing"
                /\ UNCHANGED <<ch, runnerVars, accepted, dropped>>

AwaitDone == /\ main = "closing"
             /\ done
             /\ main' = "returned"
             /\ UNCHANGED <<ch, chClosed, runnerVars, accepted, dropped>>

\* A hook of the emulation panics ("heap exhausted"): the process ends
\* without running Close, whatever the goroutine was doing.
Panic == /\ main = "writing"
         /\ main' = "crashed"
         /\ UNCHANGED <<ch, chClosed, runnerVars, accepted, dropped>>

-----------------------------------------------------------------------------
Alive == main \notin {"returned", "crashed"}

\* bufio.Writer.Flush: nothing more is written once an error is held; an
\* error leaves the parts that were not written in the buffer.
FlushOK == /\ ~werr
           /\ stdout' = stdout \o buf
           /\ buf' = <<>>
           /\ UNCHANGED werr

FlushFails == /\ ~werr
              /\ StdoutMayFail
              /\ \E n \in 0..(Len(buf) - 1) :
                   /\ stdout' = stdout \o SubSeq(buf, 1, n)
                   /\ buf' = SubSeq(buf, n + 1, Len(buf))
              /\ werr' = TRUE

Flush == \/ FlushOK
         \/ FlushFails
         \/ werr /\ UNCHANGED <<buf, stdout, werr>>

\* A variant that writes past a full buffer instead of flushing it first.
PutBypassing(part) == \/ /\ ~werr
                         /\ Len(buf) < BufCap
                         /\ buf' = Append(buf, part)
                         /\ UNCHANGED <<stdout, werr>>
                      \/ /\ ~werr
                         /\ Len(buf) = BufCap
                         /\ stdout' = Append(stdout, part)
                         /\ UNCHANGED <<buf, werr>>
                      \/ werr /\ UNCHANGED <<buf, stdout, werr>>

\* bufio.Writer.WriteString and WriteByte: a full buffer is flushed first.
Put(part) == \/ /\ ~werr
                /\ Len(buf) < BufCap
                /\ buf' = Append(buf, part)
                /\ UNCHANGED <<stdout, werr>>
             \/ /\ ~werr
                /\ Len(buf) = BufCap
                /\ stdout' = stdout \o buf
                /\ buf' = <<part>>
                /\ UNCHANGED werr
             \/ /\ Len(buf) = BufCap
                /\ FlushFails
             \/ werr /\ UNCHANGED <<buf, stdout, werr>>

\* The ticker drops a tick nobody has taken.
Tick == /\ Alive
        /\ runner # "exited"
        /\ ~tick
        /\ tick' = TRUE
        /\ UNCHANGED <<callerVars, ch, runner, line, buf, stdout, werr, done,
                       accepted, dropped>>

\* A variant that takes the tick and does not flush.
TickIgnored == /\ Alive
               /\ runner = "select"
               /\ tick
               /\ tick' = FALSE
               /\ UNCHANGED <<callerVars, ch, runner, line, buf, stdout, werr,
                              done, accepted, dropped>>

FlushOnTick == /\ Alive
               /\ runner = "select"
               /\ tick
               /\ tick' = FALSE
               /\ Flush
               /\ UNCHANGED <<callerVars, ch, runner, line, done, accepted,
                              dropped>>

\* A receive takes what was sent before the close first.
Receive == /\ Alive
           /\ runner = "select"
           /\ ch # <<>>
           /\ line' = Head(ch)
           /\ ch' = Tail(ch)
           /\ runner' = "text"
           /\ UNCHANGED <<callerVars, tick, buf, stdout, werr, done, accepted,
                          dropped>>

WriteText == /\ Alive
             /\ runner = "text"
             /\ Put(<<line, "text">>)
             /\ runner' = "newline"
             /\ UNCHANGED <<callerVars, ch, tick, line, done, accepted,
                            dropped>>

WriteNewline == /\ Alive
                /\ runner = "newline"
                /\ Put(<<line, "newline">>)
                /\ runner' = "select"
                /\ line' = NoLine
                /\ UNCHANGED <<callerVars, ch, tick, done, accepted, dropped>>

\* Variants: the goroutine ends without flushing, or without closing done.
FinishUnflushed == /\ Alive
                   /\ runner = "select"
                   /\ ch = <<>>
                   /\ chClosed
                   /\ done' = TRUE
                   /\ runner' = "exited"
                   /\ UNCHANGED <<callerVars, ch, tick, line, buf, stdout, werr,
                                  accepted, dropped>>

FinishSilently == /\ Alive
                  /\ runner = "select"
                  /\ ch = <<>>
                  /\ chClosed
                  /\ Flush
                  /\ runner' = "exited"
                  /\ UNCHANGED <<callerVars, ch, tick, line, done, accepted,
                                 dropped>>

\* The receive reports the channel closed and drained.
Finish == /\ Alive
          /\ runner = "select"
          /\ ch = <<>>
          /\ chClosed
          /\ Flush
          /\ done' = TRUE
          /\ runner' = "exited"
          /\ UNCHANGED <<callerVars, ch, tick, line, accepted, dropped>>

\* The process has ended.
Ended == /\ ~Alive
         /\ UNCHANGED vars

Caller == \/ \E l \in Line : Write(l)
          \/ CloseChannel
          \/ AwaitDone
          \/ Panic

Runner == \/ FlushOnTick
          \/ Receive
          \/ WriteText
          \/ WriteNewline
          \/ Finish

Next == \/ Caller
        \/ Runner
        \/ Tick
        \/ Ended

Spec == Init /\ [][Next]_vars

\* The Go scheduler runs a goroutine that can run, and a select with both
\* cases ready picks either at random; the ticker keeps ticking.  The caller
\* owes nothing but to take the done it waits for.
Fairness == /\ WF_vars(Receive)
            /\ WF_vars(WriteText)
            /\ WF_vars(WriteNewline)
            /\ WF_vars(Finish)
            /\ WF_vars(AwaitDone)
            /\ WF_vars(Tick)
            /\ WF_vars(FlushOnTick)

FairSpec == Spec /\ Fairness

-----------------------------------------------------------------------------
\* Types, and the capacities no queue exceeds.
TypeOK == /\ main \in {"writing", "closing", "returned", "crashed"}
          /\ ch \in Seq(Line) /\ Len(ch) <= ChanCap
          /\ chClosed \in BOOLEAN
          /\ tick \in BOOLEAN
          /\ runner \in {"select", "text", "newline", "exited"}
          /\ line \in Line \cup {NoLine}
          /\ buf \in Seq(Part) /\ Len(buf) <= BufCap
          /\ stdout \in Seq(Part)
          /\ werr \in BOOLEAN
          /\ done \in BOOLEAN
          /\ accepted \in Seq(Line)
          /\ dropped \in Nat

\* Whatever the interleaving, the drops, the spills of the buffer and the
\* failures of stdout, what is on stdout is the beginning of the accepted
\* lines in the order Write took them: no line is torn by another, repeated
\* or overtaken (Write and run, main.go:111-135).
StdoutInOrder ==
  /\ Len(stdout) <= 2 * Len(accepted)
  /\ \A k \in 1..Len(stdout) : stdout[k] = PartAt(accepted, k)

\* When Close has returned, every accepted line is on stdout whole, unless
\* stdout refused a write (main.go:116-120 and 137-140).
NothingLeftAfterClose ==
  main = "returned" /\ ~werr => Len(stdout) = 2 * Len(accepted)

\* A line is dropped only while at least ChanCap accepted lines have not yet
\* reached stdout whole: a printer that keeps up loses nothing
\* (main.go:130-135).
DropsOnlyWhenBehind ==
  [][dropped' # dropped => 2 * Len(accepted) - Len(stdout) >= 2 * ChanCap]_vars

\* Close returns: the caller that closed the channel is not left waiting for
\* done, even when stdout fails (main.go:137-140).
CloseReturns == (main = "closing") ~> (main = "returned")

\* The n-th accepted line reaches stdout without waiting for Close or for
\* the buffer to fill, unless the process dies or stdout fails: the ticker
\* flushes (main.go:124-126).
AcceptedIsShown ==
  \A n \in 1..MaxLines :
    (Len(accepted) >= n) ~>
      (Len(stdout) >= 2 * n \/ werr \/ main = "crashed")

-----------------------------------------------------------------------------
(***************************************************************************)
(* The inductive invariant behind StdoutInOrder and NothingLeftAfterClose. *)
(* The lines that left the channel are the first Received of the accepted  *)
(* ones, the channel holds the rest in order, and stdout followed by the   *)
(* buffer is the beginning of the stream of the received lines: all of it, *)
(* but for the parts run still has to write, as long as no error occurred. *)
(***************************************************************************)
Received == Len(accepted) - Len(ch)

Unwritten == IF runner = "text" THEN 2 ELSE IF runner = "newline" THEN 1 ELSE 0

ChannelHoldsRest ==
  /\ Len(ch) <= Len(accepted)
  /\ \A i \in 1..Len(ch) : ch[i] = accepted[Received + i]

LineInHand ==
  runner \in {"text", "newline"} => /\ Received >= 1
                                   /\ line = accepted[Received]

StreamInOrder ==
  /\ \A k \in 1..Len(stdout) : stdout[k] = PartAt(accepted, k)
  /\ \A k \in 1..Len(buf) : buf[k] = PartAt(accepted, Len(stdout) + k)

StreamLength ==
  /\ Len(stdout) + Len(buf) <= 2 * Received - Unwritten
  /\ ~werr => Len(stdout) + Len(buf) = 2 * Received - Unwritten

Closing ==
  /\ main = "writing" => ~chClosed
  /\ main = "returned" => done
  /\ done => runner = "exited"
  /\ runner = "exited" => /\ chClosed
                          /\ ch = <<>>
                          /\ ~werr => buf = <<>>

\* At every point of every interleaving, stdout, the buffer, the line in
\* hand and the channel together are the accepted lines in order, and done
\* is closed only with all of them empty or a write error
\* (main.go:111-140).
StreamInv == /\ ChannelHoldsRest
             /\ LineInHand
             /\ StreamInOrder
             /\ StreamLength
             /\ Closing

-----------------------------------------------------------------------------
\* The printer implements the lossy log: shown is stdout, and the log is
\* broken once the bufio.Writer holds an error.
LogPhase == IF main = "writing" THEN "open" ELSE main

Log == INSTANCE LossyLog WITH Backlog <- ChanCap, phase <- LogPhase,
                              shown <- stdout, broken <- werr
LogSpec == Log!LiveSpec
=============================================================================
