------------------------------ MODULE Session -------------------------------
(***************************************************************************)
(* One run of cmd/galago (runTrace): the guest executes one instruction    *)
(* after another; before each of them Unicorn calls back into setupHooks,  *)
(* which runs the hook of the address and then the code hook of runTrace.  *)
(* Hooks log events to a collector and capture keys; the code hook counts  *)
(* the instruction and offers the printer a line with the events collected *)
(* since the last one.  When the guest stops, the printer is closed and    *)
(* the keys are reported on the same stdout.                               *)
(*                                                                         *)
(* The printer is OutputWriter, with its goroutine interleaved with all    *)
(* the above.  A hook is what it does to the session: how many events it   *)
(* logs of its own, the types of the keys it captures (each logs one more  *)
(* event), whether it is a vtable hook, whether it ends the run.           *)
(***************************************************************************)
EXTENDS Naturals, Sequences, SequencesExt

CONSTANTS NoLine, ChanCap, BufCap, StdoutMayFail,  \* of OutputWriter
          HookKinds, \* what hooks may do
          MaxEvents, \* the most events one hook logs
          MaxShown,  \* maxInsn: the instructions that get a line
          MaxCount   \* bound: the instructions the guest executes

KeyTypes == {"xxtea", "signature", "crypto", "unknown"}

NoHook == [logs |-> 0, keys |-> <<>>, vtable |-> FALSE, ends |-> FALSE]

\* Events and keys carry the number of the instruction they come from, which
\* stands for their PC.
Event == [insn : 1..(MaxCount + 1)]
Key == [insn : 1..(MaxCount + 1), type : KeyTypes]

\* The header is the line of instruction 0; the first MaxShown instructions
\* have lines of their own, and a blank one follows the last of a block.
LinesOf(insns, text, events) ==
  [insn : insns, text : {text}, events : events]

Line == LinesOf({0}, "header", {<<>>})
        \cup LinesOf(1..MaxShown, "insn", BoundedSeq(Event, MaxEvents))
        \cup LinesOf(1..MaxShown, "blank", {<<>>})

\* The constants of OutputWriter are as it assumes them.  Hooks that end the
\* run (abort, throw, the sentinel return address) capture nothing.
ASSUME SessionAssumption ==
  /\ NoLine \notin Line
  /\ ChanCap \in Nat \ {0}
  /\ BufCap \in Nat \ {0}
  /\ StdoutMayFail \in BOOLEAN
  /\ MaxShown \in Nat
  /\ MaxCount \in Nat \ {0}
  /\ MaxEvents \in Nat
  /\ \A h \in HookKinds : /\ h.logs \in Nat
                          /\ h.logs + Len(h.keys) <= MaxEvents
                          /\ h.keys \in Seq(KeyTypes)
                          /\ h.vtable \in BOOLEAN
                          /\ h.ends \in BOOLEAN
                          /\ h.ends => h.keys = <<>>

VARIABLES
  main, ch, chClosed, tick, runner, line, buf, stdout, werr, done,
  accepted, dropped,   \* the printer
  quiet, verbose,      \* the flags of the command
  pos,       \* where runTrace is
  stopped,   \* Emulator.stopped
  count,     \* the instructions the code hook has counted
  collector, \* traceCollector.events
  stubCalls, \* stubCallCount
  hits,      \* hookHitCount
  keys,      \* setters.capturedKeys
  current,   \* the events the code hook has taken for the line at hand
  handed,    \* history: how many events lines were made of
  next,      \* the index of the key the report is at
  report     \* the lines of the report: the keys on each, and where it began

writerVars == <<main, ch, chClosed, tick, runner, line, buf, stdout, werr,
                done, accepted, dropped>>
hookVars == <<collector, stubCalls, hits, keys>>
reportVars == <<next, report>>
vars == <<writerVars, quiet, verbose, pos, stopped, count, hookVars, current,
          handed, reportVars>>

\* Two lines an instruction and the header.
W == INSTANCE OutputWriter WITH MaxLines <- 2 * MaxCount + 1

-----------------------------------------------------------------------------
Init == /\ W!Init
        /\ quiet \in BOOLEAN
        /\ verbose \in BOOLEAN
        /\ pos = "header"
        /\ stopped = FALSE
        /\ count = 0
        /\ collector = <<>>
        /\ stubCalls = 0
        /\ hits = 0
        /\ keys = <<>>
        /\ current = <<>>
        /\ handed = 0
        /\ next = 1
        /\ report = <<>>

\* Without -v and -q lines go to the printer; with -v they are printed on
\* the spot, with -q not at all.  Nothing keeps a caller from a printer that
\* is closed: a send on its channel panics, also in a select with a default.
Show(l) == IF quiet \/ verbose
              THEN UNCHANGED writerVars
              ELSE /\ IF chClosed
                        THEN /\ main' = "crashed"
                             /\ UNCHANGED <<ch, accepted, dropped>>
                        ELSE W!Offer(l) /\ UNCHANGED main
                   /\ UNCHANGED <<chClosed, tick, runner, line, buf, stdout,
                                  werr, done>>

\* Where runTrace may be after a call to the printer.
Survived(places) == IF main' = "crashed" THEN {"panicked"} ELSE places

\* printHeader (its seven lines are one here), then RunFrom, which clears stopped.
Header == /\ pos = "header"
          /\ Show([insn |-> 0, text |-> "header", events |-> <<>>])
          /\ pos' \in Survived({"guest"})
          /\ stopped' = FALSE
          /\ UNCHANGED <<quiet, verbose, count, hookVars, current, handed,
                         reportVars>>

\* A variant in which an event bears the instruction counted last.
RunHookLate(h) ==
  LET n == h.logs + Len(h.keys)
  IN  /\ collector' = collector \o [i \in 1..n |-> [insn |-> count]]
      /\ stubCalls' = stubCalls + n
      /\ keys' = keys \o [i \in 1..Len(h.keys) |->
                            [insn |-> count, type |-> h.keys[i]]]
      /\ hits' = hits + (IF h.vtable THEN 1 ELSE 0)

\* The effect of an address hook on what the session collects: OnCall for
\* every event, captureKey for every key.
RunHook(h) ==
  LET n == h.logs + Len(h.keys)
  IN  /\ collector' = collector \o [i \in 1..n |-> [insn |-> count + 1]]
      /\ stubCalls' = stubCalls + n
      /\ keys' = keys \o [i \in 1..Len(h.keys) |->
                            [insn |-> count + 1, type |-> h.keys[i]]]
      /\ hits' = hits + (IF h.vtable THEN 1 ELSE 0)

\* A variant that runs the hook whether the guest has been stopped or not.
CallbackUnchecked(h) ==
  /\ pos = "guest"
  /\ count < MaxCount
  /\ RunHook(h)
  /\ stopped' = (stopped \/ h.ends)
  /\ pos' = IF h.ends THEN "guest" ELSE "code"
  /\ UNCHANGED <<writerVars, quiet, verbose, count, current, handed,
                 reportVars>>

\* A callback that arrives after Stop does nothing but stop again.
Callback(h) ==
  /\ pos = "guest"
  /\ count < MaxCount
  /\ IF stopped
       THEN UNCHANGED <<pos, stopped, hookVars>>
       ELSE /\ RunHook(h)
            /\ stopped' = h.ends
            /\ pos' = IF h.ends THEN "guest" ELSE "code"
  /\ UNCHANGED <<writerVars, quiet, verbose, count, current, handed,
                 reportVars>>

\* A hook that allocates finds the heap exhausted: the process is gone.
HeapPanic == /\ pos = "guest"
             /\ ~stopped
             /\ main' = "crashed"
             /\ pos' = "panicked"
             /\ UNCHANGED <<ch, chClosed, tick, runner, line, buf, stdout, werr,
                            done, accepted, dropped, quiet, verbose, stopped,
                            count, hookVars, current, handed, reportVars>>

\* Variants: the collector is read and not cleared; the instruction MaxShown
\* gets no line.
CodeHookKeepingEvents ==
  /\ pos = "code"
  /\ count' = count + 1
  /\ IF count' > MaxShown
       THEN /\ pos' = "guest"
            /\ UNCHANGED <<current, handed>>
       ELSE /\ current' = collector
            /\ handed' = handed + Len(collector)
            /\ pos' = "line"
  /\ UNCHANGED <<writerVars, quiet, verbose, stopped, hookVars, reportVars>>

CodeHookOneShort ==
  /\ pos = "code"
  /\ count' = count + 1
  /\ IF count' >= MaxShown
       THEN /\ pos' = "guest"
            /\ UNCHANGED <<collector, current, handed>>
       ELSE /\ current' = collector
            /\ handed' = handed + Len(collector)
            /\ collector' = <<>>
            /\ pos' = "line"
  /\ UNCHANGED <<writerVars, quiet, verbose, stopped, stubCalls, hits, keys,
                 reportVars>>

\* A variant that closes the printer with the last instruction that gets a
\* line, and before the line.
CodeHookClosing ==
  /\ pos = "code"
  /\ count' = count + 1
  /\ IF count' > MaxShown
       THEN /\ pos' = "guest"
            /\ UNCHANGED <<collector, current, handed>>
       ELSE /\ current' = collector
            /\ handed' = handed + Len(collector)
            /\ collector' = <<>>
            /\ pos' = "line"
  /\ IF count' = MaxShown /\ ~quiet
       THEN main' = "closing" /\ chClosed' = TRUE
       ELSE UNCHANGED <<main, chClosed>>
  /\ UNCHANGED <<ch, tick, runner, line, buf, stdout, werr, done, accepted,
                 dropped, quiet, verbose, stopped, stubCalls, hits, keys,
                 reportVars>>

\* The code hook of runTrace, up to the line it prints.  Beyond MaxShown the
\* events stay in the collector.
CodeHook ==
  /\ pos = "code"
  /\ count' = count + 1
  /\ IF count' > MaxShown
       THEN /\ pos' = "guest"
            /\ UNCHANGED <<collector, current, handed>>
       ELSE /\ current' = collector
            /\ handed' = handed + Len(collector)
            /\ collector' = <<>>
            /\ pos' = "line"
  /\ UNCHANGED <<writerVars, quiet, verbose, stopped, stubCalls, hits, keys,
                 reportVars>>

\* isBlockEnd decides whether a blank line follows.
PrintLine ==
  /\ pos = "line"
  /\ Show([insn |-> count, text |-> "insn", events |-> current])
  /\ current' = <<>>
  /\ pos' \in Survived(IF quiet \/ verbose THEN {"guest"}
                                           ELSE {"guest", "blank"})
  /\ UNCHANGED <<quiet, verbose, stopped, count, hookVars, handed, reportVars>>

PrintBlank ==
  /\ pos = "blank"
  /\ Show([insn |-> count, text |-> "blank", events |-> <<>>])
  /\ pos' \in Survived({"guest"})
  /\ UNCHANGED <<quiet, verbose, stopped, count, hookVars, current, handed,
                 reportVars>>

\* RunFrom returns: the guest was stopped, or it ran into an error.
RunReturns ==
  /\ pos = "guest"
  /\ pos' = IF quiet THEN "report" ELSE "close"
  /\ UNCHANGED <<writerVars, quiet, verbose, stopped, count, hookVars,
                 current, handed, reportVars>>

\* Variants: Close does not wait for done; Close does not close the channel.
CloseAtOnce == /\ pos = "close"
               /\ W!CloseChannel
               /\ pos' = "report"
               /\ UNCHANGED <<quiet, verbose, stopped, count, hookVars,
                              current, handed, reportVars>>

CloseOpen == /\ pos = "close"
             /\ main' = "closing"
             /\ pos' = "closing"
             /\ UNCHANGED <<ch, chClosed, tick, runner, line, buf, stdout,
                            werr, done, accepted, dropped, quiet, verbose,
                            stopped, count, hookVars, current, handed,
                            reportVars>>

\* close(w.ch) and <-w.done; a second close of a channel panics.
Close == /\ pos = "close"
         /\ main' = IF chClosed THEN "crashed" ELSE "closing"
         /\ chClosed' = TRUE
         /\ pos' \in Survived({"closing"})
         /\ UNCHANGED <<ch, tick, runner, line, buf, stdout, werr, done,
                        accepted, dropped, quiet, verbose, stopped, count,
                        hookVars, current, handed, reportVars>>

CloseReturned == /\ pos = "closing"
                 /\ done
                 /\ main' = "returned"
                 /\ pos' = "report"
                 /\ UNCHANGED <<ch, chClosed, tick, runner, line, buf, stdout,
                                werr, done, accepted, dropped, quiet, verbose,
                                stopped, count, hookVars, current, handed,
                                reportVars>>

\* printKeys and printQuietSummary put a signature on the line of the xxtea
\* key it follows; verbose mode prints one key a line.
Paired(i) == /\ keys[i].type = "xxtea"
             /\ i < Len(keys)
             /\ keys[i + 1].type = "signature"

Group(i) == IF ~verbose /\ Paired(i) THEN <<keys[i], keys[i + 1]>>
                                    ELSE <<keys[i]>>

\* A variant that does not step over the signature it has printed.
ReportKeyEvery ==
  /\ pos = "report"
  /\ next <= Len(keys)
  /\ report' = Append(report, [at |-> next, keys |-> Group(next)])
  /\ next' = next + 1
  /\ UNCHANGED <<writerVars, quiet, verbose, pos, stopped, count, hookVars,
                 current, handed>>

\* One turn of the loop over the keys.
ReportKey ==
  /\ pos = "report"
  /\ next <= Len(keys)
  /\ report' = Append(report, [at |-> next, keys |-> Group(next)])
  /\ next' = next + Len(Group(next))
  /\ UNCHANGED <<writerVars, quiet, verbose, pos, stopped, count, hookVars,
                 current, handed>>

ReportEnds ==
  /\ pos = "report"
  /\ next > Len(keys)
  /\ pos' = "exit"
  /\ UNCHANGED <<writerVars, quiet, verbose, stopped, count, hookVars, current,
                 handed, reportVars>>

\* The printer's goroutine, which exists unless the run is quiet.
Printer == /\ ~quiet
           /\ pos \notin {"exit", "panicked"}
           /\ W!Runner \/ W!Tick
           /\ UNCHANGED <<quiet, verbose, pos, stopped, count, hookVars,
                          current, handed, reportVars>>

Ended == /\ pos \in {"exit", "panicked"}
         /\ UNCHANGED vars

Command == \/ Header
           \/ \E h \in HookKinds : Callback(h)
           \/ HeapPanic
           \/ CodeHook
           \/ PrintLine
           \/ PrintBlank
           \/ RunReturns
           \/ Close
           \/ CloseReturned
           \/ ReportKey
           \/ ReportEnds

Next == Command \/ Printer \/ Ended

Spec == Init /\ [][Next]_vars

\* The command goes on whenever it can, once the guest has come to its end;
\* how long the guest runs is its own affair.
Fairness == /\ WF_vars(Close)
            /\ WF_vars(CloseReturned)
            /\ WF_vars(ReportKey)
            /\ WF_vars(ReportEnds)
            /\ WF_vars(stopped /\ RunReturns)
            /\ WF_vars(Printer /\ runner' # runner)

FairSpec == Spec /\ Fairness

-----------------------------------------------------------------------------
\* Types.
TypeOK == /\ W!TypeOK
          /\ pos \in {"header", "guest", "code", "line", "blank", "close",
                      "closing", "report", "exit", "panicked"}
          /\ {quiet, verbose, stopped} \subseteq BOOLEAN
          /\ {stubCalls, hits, handed} \subseteq Nat
          /\ count \in 0..MaxCount
          /\ collector \in Seq(Event)
          /\ current \in Seq(Event)
          /\ keys \in Seq(Key)
          /\ next \in Nat
          /\ report \in Seq([at : Nat, keys : Seq(Key)])

\* A line shows the events of its own instruction and of no other: what the
\* hook of an instruction logs is taken by the code hook of that instruction
\* (emulator.go:529-557, main.go:521-563).
EventsOnTheirLine ==
  \A i \in 1..Len(accepted) : \A k \in 1..Len(accepted[i].events) :
    accepted[i].events[k].insn = accepted[i].insn

\* Every event counted has been handed to a line once or is still in the
\* collector, and it is still there only if it belongs to an instruction
\* that gets no line: one past MaxShown, or the one the guest is at or
\* stopped at (main.go:76-93, 451-456,
\* 521-529).
EventsAccounted ==
  /\ stubCalls = handed + Len(collector)
  /\ \A k \in 1..Len(collector) : \/ collector[k].insn = count + 1
                                  \/ collector[k].insn > MaxShown

\* The lines appear in the order of the instructions that have been counted,
\* no instruction has two, and a plain run that dropped nothing has one for
\* each of the first MaxShown (main.go:521-563).
InsnLine(i) == accepted[i].text = "insn"

HasLine(n) == \E i \in 1..Len(accepted) : InsnLine(i) /\ accepted[i].insn = n

LinesInOrder ==
  \A i, j \in 1..Len(accepted) :
    i < j => /\ accepted[i].insn <= accepted[j].insn
             /\ InsnLine(i) /\ InsnLine(j) =>
                  accepted[i].insn < accepted[j].insn

EveryInstructionShown ==
  /\ \A i \in 1..Len(accepted) : accepted[i].insn <= count
  /\ LinesInOrder
  /\ pos = "exit" /\ ~quiet /\ ~verbose /\ dropped = 0 =>
       \A n \in 1..MaxShown : n <= count => HasLine(n)

\* After Stop a callback changes nothing that will be reported
\* (emulator.go:531-536, 811-814).
StopIsFinal == [][stopped => UNCHANGED <<count, hookVars>>]_vars

\* The keys are printed when the printer has left stdout for good, with all
\* it accepted on it: two writers never share stdout (main.go:565-590).
ReportAfterTrace ==
  pos = "exit" /\ ~quiet =>
    /\ runner = "exited"
    /\ ~werr => Len(stdout) = 2 * Len(accepted)

\* Every captured key is printed once, in the order of capture: each line of
\* the report takes up the keys where the one before it left off.  Unless the
\* run is verbose, a signature stands with the xxtea key it follows
\* (main.go:318-343, 362-391).
After(g) == IF g = 0 THEN 1 ELSE report[g].at + Len(report[g].keys)

KeysReported ==
  /\ \A g \in 1..Len(report) :
       /\ report[g].at = After(g - 1)
       /\ \A k \in 1..Len(report[g].keys) :
            report[g].keys[k] = keys[report[g].at + (k - 1)]
       /\ ~verbose /\ g > 1 =>
            ~ (keys[After(g - 1) - 1].type = "xxtea"
               /\ keys[report[g].at].type = "signature")
  /\ pos = "exit" => After(Len(report)) = Len(keys) + 1

\* A run whose guest stops gets to its report: neither the printer nor the
\* wait for it holds it up (main.go:137-140, 552-590).
StoppedIsReported == stopped ~> (pos = "exit")

\* A session uses its printer as the printer expects of a caller, which
\* nothing in the printer enforces: whatever the guest, its hooks and the
\* goroutine do, no line is offered after Close, Close is not called twice (in
\* Go both panic), and the session offers at most two lines an instruction
\* (main.go:130-140, 544-568).
PrinterSpec == W!Spec
=============================================================================
