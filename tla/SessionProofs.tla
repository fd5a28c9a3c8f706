--------------------------- MODULE SessionProofs ----------------------------
(***************************************************************************)
(* Proofs about Session, for every set of hooks, every number of lines and *)
(* of instructions, and every capacity of the printer.                     *)
(*                                                                         *)
(* The session and the printer are proved apart.  Flow follows the session *)
(* and finds the printer open wherever a line may be offered, Lines says   *)
(* which lines have been offered and so how many.  Together they make the  *)
(* session a caller as OutputWriter expects it (UsesPrinter), although no  *)
(* guard keeps it to that; what OutputWriterProofs says of any such caller *)
(* then holds of this one, and the end of the report rests on that.        *)
(***************************************************************************)
EXTENDS Session, SequenceTheorems, TLAPS

P == INSTANCE OutputWriterProofs WITH MaxLines <- 2 * MaxCount + 1

\* What OutputWriter assumes of its constants.
LEMMA WriterConstants ==
  /\ NoLine \notin Line
  /\ ChanCap \in Nat \ {0}
  /\ BufCap \in Nat \ {0}
  /\ 2 * MaxCount + 1 \in Nat
  /\ StdoutMayFail \in BOOLEAN
BY SessionAssumption

-----------------------------------------------------------------------------
(***************************************************************************)
(* The session's own variables: their types, where the command is and      *)
(* where that finds the printer, and the way of the events from the hook   *)
(* that logs them to the line that shows them.                             *)
(***************************************************************************)
Types == /\ pos \in {"header", "guest", "code", "line", "blank", "close",
                     "closing", "report", "exit", "panicked"}
         /\ quiet \in BOOLEAN /\ verbose \in BOOLEAN /\ stopped \in BOOLEAN
         /\ stubCalls \in Nat /\ hits \in Nat /\ handed \in Nat
         /\ count \in 0..MaxCount
         /\ collector \in Seq(Event)
         /\ current \in Seq(Event)
         /\ keys \in Seq(Key)

PrinterPhase ==
  main = IF pos = "closing" THEN "closing"
         ELSE IF pos = "panicked" THEN "crashed"
         ELSE IF pos \in {"report", "exit"} /\ ~quiet THEN "returned"
         ELSE "writing"

Stage == /\ PrinterPhase
         /\ stopped => pos \notin {"header", "code", "line", "blank"}
         /\ pos = "header" => count = 0
         /\ pos = "code" => count < MaxCount
         /\ pos \in {"line", "blank"} => count \in 1..MaxShown
         /\ pos \in {"close", "closing"} => ~quiet
         /\ pos \in {"header", "guest", "code", "line", "blank", "close"} =>
              ~chClosed

InTransit ==
  /\ stubCalls = handed + Len(collector)
  /\ \A k \in 1..Len(collector) :
       /\ collector[k].insn <= count + 1
       /\ collector[k].insn = count + 1 \/ collector[k].insn > MaxShown
  /\ pos \in {"header", "line", "blank"} => collector = <<>>
  /\ pos = "guest" /\ ~stopped /\ count <= MaxShown => collector = <<>>
  /\ pos = "code" /\ count < MaxShown => Len(collector) <= MaxEvents
  /\ pos = "line" => /\ Len(current) <= MaxEvents
                     /\ \A k \in 1..Len(current) : current[k].insn = count
  /\ pos # "line" => current = <<>>

Flow == Types /\ Stage /\ InTransit

LEMMA FlowInit == Init => Flow
<1> SUFFICES ASSUME Init PROVE Flow
  OBVIOUS
<1>1. /\ Len(collector) = 0 /\ collector \in Seq(Event)
      /\ current \in Seq(Event) /\ keys \in Seq(Key)
  BY DEF Init
<1>2. Types
  <2>1. MaxCount \in Nat
    BY SessionAssumption
  <2>2. /\ pos = "header" /\ stopped = FALSE
        /\ quiet \in BOOLEAN /\ verbose \in BOOLEAN
        /\ stubCalls = 0 /\ hits = 0 /\ handed = 0 /\ count = 0
    BY DEF Init
  <2>3. count \in 0..MaxCount
    BY <2>1, <2>2
  <2>4. stopped \in BOOLEAN
    BY <2>2
  <2> QED BY <1>1, <2>2, <2>3, <2>4 DEF Types
<1>3. Stage
  BY DEF Init, W!Init, Stage, PrinterPhase
<1>4. InTransit
  BY <1>1 DEF Init, InTransit
<1> QED BY <1>2, <1>3, <1>4 DEF Flow

\* What printing a line does to the printer's variables while it is open.
LEMMA ShowSteps ==
  ASSUME NEW l, Show(l), ~chClosed
  PROVE  /\ UNCHANGED <<main, chClosed, tick, runner, line, buf, stdout, werr,
                        done>>
         /\ \/ (quiet \/ verbose) /\ UNCHANGED <<ch, accepted, dropped>>
            \/ /\ ~quiet /\ ~verbose
               /\ W!Offer(l)
               /\ \/ accepted' = Append(accepted, l) /\ dropped' = dropped
                  \/ accepted' = accepted /\ dropped' = dropped + 1
BY DEF Show, W!Offer, writerVars

LEMMA HookKeepsFlow ==
  ASSUME Flow, NEW h \in HookKinds, Callback(h)
  PROVE  Flow'
<1>0. /\ Types /\ Stage /\ InTransit
      /\ pos = "guest" /\ count < MaxCount
      /\ UNCHANGED <<writerVars, quiet, verbose, count, current, handed,
                     reportVars>>
  BY DEF Flow, Callback
<1>a. main' = main /\ chClosed' = chClosed
  BY <1>0 DEF writerVars
<1>b. /\ count \in Nat /\ MaxCount \in Nat /\ MaxShown \in Nat
      /\ MaxEvents \in Nat /\ count + 1 \in 1..(MaxCount + 1)
      /\ Len(collector) \in Nat
  BY <1>0, SessionAssumption DEF Types
<1>1. CASE stopped
  <2>1. UNCHANGED <<pos, stopped, hookVars>>
    BY <1>1 DEF Callback
  <2> QED BY <1>0, <1>1, <1>a, <2>1
          DEF hookVars, Flow, Types, Stage, PrinterPhase, InTransit
<1>2. CASE ~stopped
  <2> DEFINE n == h.logs + Len(h.keys)
             new == [i \in 1..n |-> [insn |-> count + 1]]
             caught == [i \in 1..Len(h.keys) |->
                          [insn |-> count + 1, type |-> h.keys[i]]]
  <2>1. /\ RunHook(h)
        /\ stopped' = h.ends
        /\ pos' = IF h.ends THEN "guest" ELSE "code"
    BY <1>2 DEF Callback
  <2>2. /\ h.keys \in Seq(KeyTypes) /\ Len(h.keys) \in Nat
        /\ h.logs \in Nat /\ n \in Nat /\ n <= MaxEvents
        /\ h.ends \in BOOLEAN
    BY SessionAssumption
  <2>3. /\ new \in Seq(Event) /\ Len(new) = n
        /\ \A k \in 1..n : new[k].insn = count + 1
    <3>1. new \in [1..n -> Event]
      BY <1>b DEF Event
    <3>2. \A m \in Nat : \A f \in [1..m -> Event] :
            f \in Seq(Event) /\ Len(f) = m
      OBVIOUS
    <3> QED BY <2>2, <3>1, <3>2
  <2>4. caught \in Seq(Key)
    <3>1. caught \in [1..Len(h.keys) -> Key]
      BY <1>b, <2>2 DEF Key
    <3>2. \A m \in Nat : \A f \in [1..m -> Key] : f \in Seq(Key)
      OBVIOUS
    <3> QED BY <2>2, <3>1, <3>2
  <2>5. /\ collector' = collector \o new
        /\ stubCalls' = stubCalls + n
        /\ keys' = keys \o caught
        /\ hits' = hits + (IF h.vtable THEN 1 ELSE 0)
    BY <2>1 DEF RunHook
  <2> HIDE DEF n, new, caught
  <2>6. /\ collector' \in Seq(Event)
        /\ Len(collector') = Len(collector) + n
        /\ \A k \in 1..(Len(collector) + n) :
             collector'[k] = IF k <= Len(collector) THEN collector[k]
                             ELSE new[k - Len(collector)]
    BY <1>0, <2>3, <2>5, ConcatProperties DEF Types
  <2>7. keys' \in Seq(Key)
    BY <1>0, <2>4, <2>5, ConcatProperties DEF Types
  <2>8. Types'
    BY <1>0, <2>1, <2>2, <2>5, <2>6, <2>7 DEF Types
  <2>9. Stage'
    BY <1>0, <1>a, <2>1, <2>2 DEF Stage, PrinterPhase
  <2>10. \A k \in 1..Len(collector') :
           /\ collector'[k].insn <= count' + 1
           /\ collector'[k].insn = count' + 1 \/ collector'[k].insn > MaxShown
    <3> SUFFICES ASSUME NEW k \in 1..Len(collector')
                 PROVE  /\ collector'[k].insn <= count + 1
                        /\ \/ collector'[k].insn = count + 1
                           \/ collector'[k].insn > MaxShown
      BY <1>0
    <3>1. CASE k <= Len(collector)
      BY <1>0, <1>b, <2>2, <2>6, <3>1 DEF InTransit
    <3>2. CASE k > Len(collector)
      <4>1. k - Len(collector) \in 1..n
        BY <1>b, <2>2, <2>6, <3>2
      <4> QED BY <1>b, <2>2, <2>3, <2>6, <3>2, <4>1
    <3> QED BY <1>b, <2>2, <2>6, <3>1, <3>2
  <2>11. count < MaxShown => Len(collector') <= MaxEvents
    <3> SUFFICES ASSUME count < MaxShown PROVE Len(collector') <= MaxEvents
      OBVIOUS
    <3>1. collector = <<>>
      BY <1>0, <1>2, <1>b DEF InTransit
    <3>2. Len(collector) = 0
      BY <3>1
    <3> QED BY <2>2, <2>6, <3>2
  <2>12. stubCalls' = handed' + Len(collector')
    BY <1>0, <1>b, <2>2, <2>5, <2>6 DEF InTransit, Types
  <2>13. InTransit'
    BY <1>0, <2>1, <2>2, <2>10, <2>11, <2>12 DEF InTransit
  <2> QED BY <2>8, <2>9, <2>13 DEF Flow
<1> QED BY <1>1, <1>2

LEMMA CodeHookKeepsFlow ==
  ASSUME Flow, CodeHook
  PROVE  Flow'
<1>0. /\ Types /\ Stage /\ InTransit
      /\ pos = "code" /\ count' = count + 1 /\ count < MaxCount
      /\ ~stopped
      /\ UNCHANGED <<main, chClosed, quiet, verbose, stopped, stubCalls, hits,
                     keys>>
      /\ count \in Nat /\ MaxCount \in Nat /\ MaxShown \in Nat
      /\ Len(collector) \in Nat /\ handed \in Nat
  BY SessionAssumption
     DEF Flow, CodeHook, Stage, Types, writerVars, PrinterPhase
<1>1. CASE count' > MaxShown
  <2>1. pos' = "guest" /\ UNCHANGED <<collector, current, handed>>
    BY <1>1 DEF CodeHook
  <2>2. Types' /\ Stage'
    BY <1>0, <2>1 DEF Types, Stage, PrinterPhase
  <2>3. \A k \in 1..Len(collector') :
          /\ collector'[k].insn <= count' + 1
          /\ collector'[k].insn = count' + 1 \/ collector'[k].insn > MaxShown
    <3> SUFFICES ASSUME NEW k \in 1..Len(collector)
                 PROVE  /\ collector[k].insn <= count + 2
                        /\ collector[k].insn > MaxShown
      BY <1>0, <2>1
    <3>1. collector[k] \in Event
      BY <1>0, ElementOfSeq DEF Types
    <3>2. collector[k].insn \in Nat
      BY <3>1 DEF Event
    <3> QED BY <1>0, <1>1, <3>2 DEF InTransit
  <2>4. InTransit'
    BY <1>0, <1>1, <2>1, <2>3 DEF InTransit
  <2> QED BY <2>2, <2>4 DEF Flow
<1>2. CASE ~(count' > MaxShown)
  <2>1. /\ current' = collector
        /\ handed' = handed + Len(collector)
        /\ collector' = <<>>
        /\ pos' = "line"
    BY <1>2 DEF CodeHook
  <2>2. Types' /\ Stage'
    BY <1>0, <1>2, <2>1 DEF Types, Stage, PrinterPhase
  <2>3. Len(current') <= MaxEvents
    BY <1>0, <1>2, <2>1 DEF InTransit
  <2>4. \A k \in 1..Len(current') : current'[k].insn = count'
    <3> SUFFICES ASSUME NEW k \in 1..Len(collector)
                 PROVE  collector[k].insn = count + 1
      BY <1>0, <2>1
    <3>1. collector[k] \in Event
      BY <1>0, ElementOfSeq DEF Types
    <3>2. collector[k].insn \in Nat
      BY <3>1 DEF Event
    <3> QED BY <1>0, <1>2, <3>2 DEF InTransit
  <2>5. Len(collector') = 0
    BY <2>1
  <2>6. InTransit'
    BY <1>0, <2>1, <2>3, <2>4, <2>5 DEF InTransit
  <2> QED BY <2>2, <2>6 DEF Flow
<1> QED BY <1>1, <1>2

\* The steps that neither log events nor count instructions.
LEMMA CommandKeepsFlow ==
  ASSUME Flow,
         Header \/ HeapPanic \/ PrintLine \/ PrintBlank \/ RunReturns \/ Close
           \/ CloseReturned \/ ReportKey \/ ReportEnds
  PROVE  Flow'
<1>0. Types /\ Stage /\ InTransit
  BY DEF Flow
<1>1. CASE Header
  <2>1. UNCHANGED <<main, chClosed>> /\ main = "writing"
    BY <1>0, <1>1, ShowSteps DEF Header, Stage, PrinterPhase
  <2>2. pos' = "guest"
    BY <1>1, <2>1 DEF Header, Survived
  <2> QED BY <1>0, <1>1, <2>1, <2>2, SessionAssumption
     DEF Header, hookVars, Flow, Types, Stage, PrinterPhase, InTransit
<1>2. CASE HeapPanic
  BY <1>0, <1>2
     DEF HeapPanic, hookVars, Flow, Types, Stage, PrinterPhase, InTransit
<1>3. CASE PrintLine
  <2>1. UNCHANGED <<main, chClosed>> /\ main = "writing"
    BY <1>0, <1>3, ShowSteps DEF PrintLine, Stage, PrinterPhase
  <2>2. /\ pos = "line" /\ pos' \in {"guest", "blank"}
        /\ UNCHANGED <<quiet, verbose, stopped, count, hookVars, handed>>
        /\ current' = <<>>
    BY <1>3, <2>1 DEF PrintLine, Survived
  <2>3. current' \in Seq(Event)
    BY <2>2
  <2> QED BY <1>0, <2>1, <2>2, <2>3
          DEF hookVars, Flow, Types, Stage, PrinterPhase, InTransit
<1>4. CASE PrintBlank
  <2>1. UNCHANGED <<main, chClosed>> /\ main = "writing"
    BY <1>0, <1>4, ShowSteps DEF PrintBlank, Stage, PrinterPhase
  <2>2. pos' = "guest"
    BY <1>4, <2>1 DEF PrintBlank, Survived
  <2> QED BY <1>0, <1>4, <2>1, <2>2
     DEF PrintBlank, hookVars, Flow, Types, Stage, PrinterPhase, InTransit
<1>5. CASE RunReturns
  BY <1>0, <1>5
     DEF RunReturns, writerVars, hookVars, Flow, Types, Stage, PrinterPhase,
         InTransit
<1>6. CASE Close
  BY <1>0, <1>6
     DEF Close, Survived, hookVars, Flow, Types, Stage, PrinterPhase,
         InTransit
<1>7. CASE CloseReturned
  BY <1>0, <1>7
     DEF CloseReturned, hookVars, Flow, Types, Stage, PrinterPhase,
         InTransit
<1>8. CASE ReportKey
  BY <1>0, <1>8
     DEF ReportKey, writerVars, hookVars, Flow, Types, Stage, PrinterPhase,
         InTransit
<1>9. CASE ReportEnds
  BY <1>0, <1>9
     DEF ReportEnds, writerVars, hookVars, Flow, Types, Stage, PrinterPhase,
         InTransit
<1> QED BY <1>1, <1>2, <1>3, <1>4, <1>5, <1>6, <1>7, <1>8, <1>9

LEMMA FlowNext == Flow /\ [Next]_vars => Flow'
<1> SUFFICES ASSUME Flow, [Next]_vars PROVE Flow'
  OBVIOUS
<1>1. ASSUME NEW h \in HookKinds, Callback(h) PROVE Flow'
  BY <1>1, HookKeepsFlow
<1>2. CASE CodeHook
  BY <1>2, CodeHookKeepsFlow
<1>3. CASE Header \/ HeapPanic \/ PrintLine \/ PrintBlank \/ RunReturns
             \/ Close \/ CloseReturned \/ ReportKey \/ ReportEnds
  BY <1>3, CommandKeepsFlow
<1>4. CASE Printer
  <2>1. main' = main /\ chClosed' = chClosed
    BY <1>4 DEF Printer, W!Runner, W!Tick, W!FlushOnTick, W!Receive,
       W!WriteText, W!WriteNewline, W!Finish, W!callerVars
  <2>2. UNCHANGED <<quiet, verbose, pos, stopped, count, hookVars, current,
                    handed>>
    BY <1>4 DEF Printer
  <2> QED BY <2>1, <2>2
          DEF hookVars, Flow, Types, Stage, PrinterPhase, InTransit
<1>5. CASE Ended \/ UNCHANGED vars
  <2>1. UNCHANGED <<main, chClosed, quiet, verbose, pos, stopped, count,
                    hookVars, current, handed>>
    BY <1>5 DEF Ended, vars, writerVars
  <2> QED BY <2>1
          DEF hookVars, Flow, Types, Stage, PrinterPhase, InTransit
<1> QED BY <1>1, <1>2, <1>3, <1>4, <1>5 DEF Next, Command

\* No event is lost or shown twice between the hook that logs it and the
\* line it is handed to.
LEMMA FlowCorrect == Spec => []Flow
BY FlowInit, FlowNext, PTL DEF Spec

\* A stopped guest counts no instruction, logs no event and captures no key
\* (emulator.go:531-536, 811-814).
THEOREM StoppedIsFinal == Spec => StopIsFinal
<1>1. Flow /\ [Next]_vars => [stopped => UNCHANGED <<count, hookVars>>]_vars
  <2> SUFFICES ASSUME Flow, Next, stopped
               PROVE  UNCHANGED <<count, hookVars>>
    OBVIOUS
  <2>1. pos \notin {"header", "code", "line", "blank"}
    BY DEF Flow, Stage
  <2>2. ASSUME NEW h \in HookKinds, Callback(h)
        PROVE  UNCHANGED <<count, hookVars>>
    BY <2>2 DEF Callback
  <2> QED
    BY <2>1, <2>2 DEF Next, Command, Header, HeapPanic, CodeHook, PrintLine,
       PrintBlank, RunReturns, Close, CloseReturned, ReportKey, ReportEnds,
       Printer, Ended, vars
<1> QED BY <1>1, FlowCorrect, PTL DEF Spec, StopIsFinal

\* Every event counted has been handed to one line or waits in the collector
\* (main.go:76-93, 451-456, 521-529).
THEOREM AllEventsAccounted == Spec => []EventsAccounted
<1>1. Flow => EventsAccounted
  BY DEF Flow, InTransit, EventsAccounted
<1> QED BY <1>1, FlowCorrect, PTL

-----------------------------------------------------------------------------
(***************************************************************************)
(* The lines the printer has taken: their order, the events on them, the   *)
(* instructions that have one, and how many there can be.                  *)
(***************************************************************************)
\* While lines are offered the printer is open, and no call to it panics.
LEMMA OpenWhileShowing ==
  ASSUME Flow, pos \in {"header", "line", "blank"}
  PROVE  /\ ~chClosed /\ main = "writing"
         /\ \A l, places : Show(l) /\ pos' \in Survived(places) =>
                            pos' \in places
<1>1. ~chClosed /\ main = "writing"
  BY DEF Flow, Stage, PrinterPhase
<1>2. ASSUME NEW l, NEW places, Show(l), pos' \in Survived(places)
      PROVE  pos' \in places
  BY <1>1, <1>2, ShowSteps DEF Survived
<1> QED BY <1>1, <1>2

LEMMA BoundedEvents ==
  ASSUME NEW s \in Seq(Event), Len(s) <= MaxEvents
  PROVE  s \in BoundedSeq(Event, MaxEvents)
<1>1. Len(s) \in 0..MaxEvents /\ s \in [1..Len(s) -> Event]
  BY SessionAssumption
<1> QED BY <1>1 DEF BoundedSeq, SeqOf

\* The lines a session offers are lines the printer knows.
LEMMA LinesOffered ==
  ASSUME Flow
  PROVE  /\ [insn |-> 0, text |-> "header", events |-> <<>>] \in Line
         /\ pos = "line" =>
              [insn |-> count, text |-> "insn", events |-> current] \in Line
         /\ pos = "blank" =>
              [insn |-> count, text |-> "blank", events |-> <<>>] \in Line
<1>1. [insn |-> 0, text |-> "header", events |-> <<>>] \in Line
  BY DEF Line, LinesOf
<1>2. ASSUME pos = "line"
      PROVE  [insn |-> count, text |-> "insn", events |-> current] \in Line
  <2>1. current \in BoundedSeq(Event, MaxEvents)
    BY <1>2, BoundedEvents DEF Flow, Types, InTransit
  <2>2. count \in 1..MaxShown
    BY <1>2 DEF Flow, Stage
  <2> QED BY <2>1, <2>2 DEF Line, LinesOf
<1>3. ASSUME pos = "blank"
      PROVE  [insn |-> count, text |-> "blank", events |-> <<>>] \in Line
  BY <1>3 DEF Flow, Stage, Line, LinesOf
<1> QED BY <1>1, <1>2, <1>3

UpTo == \A i \in 1..Len(accepted) : /\ accepted[i].insn <= count
                                    /\ pos = "line" => accepted[i].insn < count

\* The line of the instruction at hand is still to come.
Shown == ~quiet /\ ~verbose /\ dropped = 0 =>
           \A n \in 1..MaxShown :
             n <= count /\ ~ (pos = "line" /\ n = count) => HasLine(n)

Offered == Len(accepted) + dropped <= IF pos = "header" THEN 0
                                      ELSE IF pos = "line" THEN 2 * count - 1
                                      ELSE IF pos = "blank" THEN 2 * count
                                      ELSE 2 * count + 1

Lines == UpTo /\ LinesInOrder /\ EventsOnTheirLine /\ Shown /\ Offered

LEMMA LineInsn ==
  ASSUME NEW l \in Line
  PROVE  l.insn \in Nat
BY SessionAssumption DEF Line, LinesOf

Taken == accepted \in Seq(Line) /\ dropped \in Nat

LEMMA AcceptedTypes ==
  ASSUME Taken
  PROVE  /\ Len(accepted) \in Nat /\ accepted \in Seq(Line) /\ dropped \in Nat
         /\ \A i \in 1..Len(accepted) : accepted[i].insn \in Nat
<1>1. /\ Len(accepted) \in Nat /\ accepted \in Seq(Line) /\ dropped \in Nat
      /\ \A i \in 1..Len(accepted) : accepted[i] \in Line
  BY DEF Taken
<1> QED BY <1>1, LineInsn

\* The steps that offer the printer nothing.
LEMMA OtherStepsOfferNothing ==
  ASSUME [Next]_vars, ~Header, ~PrintLine, ~PrintBlank
  PROVE  UNCHANGED <<accepted, dropped>>
<1>1. ASSUME NEW h \in HookKinds, Callback(h)
      PROVE  UNCHANGED <<accepted, dropped>>
  BY <1>1 DEF Callback, writerVars
<1>2. CASE HeapPanic \/ CodeHook \/ RunReturns \/ Close \/ CloseReturned
             \/ ReportKey \/ ReportEnds \/ Ended \/ UNCHANGED vars
  BY <1>2 DEF HeapPanic, CodeHook, RunReturns, Close, CloseReturned,
     ReportKey, ReportEnds, Ended, vars, writerVars
<1>3. CASE Printer
  BY <1>3 DEF Printer, W!Runner, W!Tick, W!FlushOnTick, W!Receive,
     W!WriteText, W!WriteNewline, W!Finish
<1> QED BY <1>1, <1>2, <1>3 DEF Next, Command

LEMMA TakenNext == Flow /\ Taken /\ [Next]_vars => Taken'
<1> SUFFICES ASSUME Flow, Taken, [Next]_vars PROVE Taken'
  OBVIOUS
<1>1. ASSUME NEW l \in Line, Show(l), ~chClosed PROVE Taken'
  BY <1>1, ShowSteps DEF Taken
<1>2. CASE Header
  <2>1. pos = "header"
    BY <1>2 DEF Header
  <2> QED BY <1>1, <1>2, <2>1, LinesOffered, OpenWhileShowing DEF Header
<1>3. CASE PrintLine
  <2>1. pos = "line"
    BY <1>3 DEF PrintLine
  <2> QED BY <1>1, <1>3, <2>1, LinesOffered, OpenWhileShowing DEF PrintLine
<1>4. CASE PrintBlank
  <2>1. pos = "blank"
    BY <1>4 DEF PrintBlank
  <2> QED BY <1>1, <1>4, <2>1, LinesOffered, OpenWhileShowing DEF PrintBlank
<1>5. CASE ~Header /\ ~PrintLine /\ ~PrintBlank
  BY <1>5, OtherStepsOfferNothing DEF Taken
<1> QED BY <1>2, <1>3, <1>4, <1>5

LEMMA TakenCorrect == Spec => []Taken
<1>1. Init => Taken
  <2>1. <<>> \in Seq(Line)
    OBVIOUS
  <2> QED BY <2>1 DEF Init, W!Init, Taken
<1> QED BY <1>1, TakenNext, FlowCorrect, PTL DEF Spec

\* A line that is offered comes after those before it and shows the events
\* of its own instruction; then so do the lines with it.
LEMMA ShowKeepsOrder ==
  ASSUME NEW l \in Line, Show(l), ~chClosed, Taken, LinesInOrder, EventsOnTheirLine,
         \A i \in 1..Len(accepted) :
           /\ accepted[i].insn <= l.insn
           /\ l.text = "insn" => accepted[i].insn < l.insn,
         \A k \in 1..Len(l.events) : l.events[k].insn = l.insn
  PROVE  /\ LinesInOrder' /\ EventsOnTheirLine'
         /\ \A i \in 1..Len(accepted') : accepted'[i].insn <= l.insn
         /\ \A n \in Nat : HasLine(n) => HasLine(n)'
         /\ ~quiet /\ ~verbose /\ dropped' = 0 =>
              /\ dropped = 0
              /\ l.text = "insn" => HasLine(l.insn)'
         /\ IF quiet \/ verbose
              THEN Len(accepted') + dropped' = Len(accepted) + dropped
              ELSE Len(accepted') + dropped' = Len(accepted) + dropped + 1
<1>1. /\ Len(accepted) \in Nat /\ accepted \in Seq(Line) /\ dropped \in Nat
      /\ \A i \in 1..Len(accepted) : accepted[i].insn \in Nat
      /\ l.insn \in Nat
  BY AcceptedTypes, LineInsn
<1>2. CASE accepted' = accepted
  <2>1. LinesInOrder' /\ EventsOnTheirLine'
    BY <1>2 DEF LinesInOrder, InsnLine, EventsOnTheirLine
  <2>2. \A n \in Nat : HasLine(n) => HasLine(n)'
    BY <1>2 DEF HasLine, InsnLine
  <2>3. /\ ~ (quiet \/ verbose) => dropped' = dropped + 1
        /\ quiet \/ verbose => dropped' = dropped
    <3>1. accepted # Append(accepted, l)
      <4>1. Len(Append(accepted, l)) = Len(accepted) + 1
        BY <1>1
      <4> QED BY <1>1, <4>1
    <3> QED BY <1>2, <3>1, ShowSteps
  <2> QED BY <1>1, <1>2, <2>1, <2>2, <2>3
<1>3. CASE accepted' = Append(accepted, l) /\ dropped' = dropped
  <2>1. /\ Len(accepted') = Len(accepted) + 1
        /\ \A i \in 1..Len(accepted) : accepted'[i] = accepted[i]
        /\ accepted'[Len(accepted) + 1] = l
    BY <1>1, <1>3, AppendProperties
  <2>2. \A i \in 1..Len(accepted') :
          i \in 1..Len(accepted) \/ i = Len(accepted) + 1
    BY <1>1, <2>1
  <2>3. ~quiet /\ ~verbose
    <3>1. accepted' # accepted
      BY <1>1, <2>1
    <3> QED BY <3>1, ShowSteps
  <2>4. LinesInOrder'
    <3> SUFFICES ASSUME NEW i \in 1..Len(accepted'),
                        NEW j \in 1..Len(accepted'), i < j
                 PROVE  /\ accepted'[i].insn <= accepted'[j].insn
                        /\ accepted'[i].text = "insn"
                           /\ accepted'[j].text = "insn" =>
                             accepted'[i].insn < accepted'[j].insn
      BY DEF LinesInOrder, InsnLine
    <3>1. i \in 1..Len(accepted)
      BY <1>1, <2>1
    <3>2. CASE j \in 1..Len(accepted)
      BY <2>1, <3>1, <3>2 DEF LinesInOrder, InsnLine
    <3>3. CASE j = Len(accepted) + 1
      BY <2>1, <3>1, <3>3
    <3> QED BY <2>2, <3>2, <3>3
  <2>5. EventsOnTheirLine'
    <3> SUFFICES ASSUME NEW i \in 1..Len(accepted'),
                        NEW k \in 1..Len(accepted'[i].events)
                 PROVE  accepted'[i].events[k].insn = accepted'[i].insn
      BY DEF EventsOnTheirLine
    <3>1. CASE i \in 1..Len(accepted)
      BY <2>1, <3>1 DEF EventsOnTheirLine
    <3>2. CASE i = Len(accepted) + 1
      BY <2>1, <3>2
    <3> QED BY <2>2, <3>1, <3>2
  <2>6. \A i \in 1..Len(accepted') : accepted'[i].insn <= l.insn
    <3> SUFFICES ASSUME NEW i \in 1..Len(accepted')
                 PROVE  accepted'[i].insn <= l.insn
      OBVIOUS
    <3>1. CASE i \in 1..Len(accepted)
      BY <2>1, <3>1
    <3>2. CASE i = Len(accepted) + 1
      BY <1>1, <2>1, <3>2
    <3> QED BY <2>2, <3>1, <3>2
  <2>7. ASSUME NEW n \in Nat, HasLine(n) PROVE HasLine(n)'
    <3>1. PICK i \in 1..Len(accepted) : InsnLine(i) /\ accepted[i].insn = n
      BY <2>7 DEF HasLine
    <3>2. i \in 1..Len(accepted') /\ accepted'[i] = accepted[i]
      BY <1>1, <2>1, <3>1
    <3> QED BY <3>1, <3>2 DEF HasLine, InsnLine
  <2>8. l.text = "insn" => HasLine(l.insn)'
    <3>1. Len(accepted) + 1 \in 1..Len(accepted')
      BY <1>1, <2>1
    <3> QED BY <2>1, <3>1 DEF HasLine, InsnLine
  <2>9. Len(accepted') + dropped' = Len(accepted) + dropped + 1
    BY <1>1, <1>3, <2>1
  <2> QED BY <1>3, <2>3, <2>4, <2>5, <2>6, <2>7, <2>8, <2>9
<1> QED BY <1>2, <1>3, ShowSteps

LEMMA HeaderKeepsLines ==
  ASSUME Flow, Taken, Lines, Header
  PROVE  Lines'
<1> DEFINE l == [insn |-> 0, text |-> "header", events |-> <<>>]
<1>1. /\ Show(l) /\ l \in Line /\ ~chClosed
      /\ pos = "header" /\ pos' = "guest" /\ count' = count /\ count = 0
      /\ UNCHANGED <<quiet, verbose>>
  <2>1. pos = "header" /\ Show(l) /\ pos' \in Survived({"guest"})
    BY DEF Header
  <2>2. ~chClosed /\ pos' \in {"guest"}
    BY <2>1, OpenWhileShowing
  <2> QED BY <2>1, <2>2, LinesOffered DEF Header, Flow, Stage
<1>2. /\ Len(accepted) \in Nat /\ dropped \in Nat
      /\ Len(accepted) + dropped <= 0
  BY <1>1, AcceptedTypes DEF Lines, Offered
<1>3. Len(accepted) = 0 /\ dropped = 0
  BY <1>2
<1>4. /\ \A i \in 1..Len(accepted) :
           /\ accepted[i].insn <= l.insn
           /\ l.text = "insn" => accepted[i].insn < l.insn
      /\ \A k \in 1..Len(l.events) : l.events[k].insn = l.insn
      /\ l.insn = 0
  <2>1. Len(l.events) = 0 /\ l.insn = 0
    OBVIOUS
  <2> QED BY <1>3, <2>1
<1> HIDE DEF l
<1>5. LinesInOrder' /\ EventsOnTheirLine'
  BY <1>1, <1>4, ShowKeepsOrder DEF Lines
<1>6. UpTo'
  BY <1>1, <1>4, ShowKeepsOrder DEF Lines, UpTo
<1>7. Shown'
  BY <1>1, SessionAssumption DEF Shown
<1>8. Offered'
  <2>1. Len(accepted') + dropped' <= Len(accepted) + dropped + 1
    BY <1>1, <1>2, <1>4, ShowKeepsOrder DEF Lines
  <2> QED BY <1>1, <1>3, <2>1 DEF Offered
<1> QED BY <1>5, <1>6, <1>7, <1>8 DEF Lines

LEMMA PrintLineKeepsLines ==
  ASSUME Flow, Taken, Lines, PrintLine
  PROVE  Lines'
<1> DEFINE l == [insn |-> count, text |-> "insn", events |-> current]
<1>1. /\ Show(l) /\ l \in Line /\ ~chClosed
      /\ pos = "line" /\ count' = count
      /\ pos' = "guest" \/ (pos' = "blank" /\ ~quiet /\ ~verbose)
      /\ UNCHANGED <<quiet, verbose>>
      /\ count \in Nat
  <2>1. count \in Nat
    BY SessionAssumption DEF Flow, Types
  <2>2. PICK places : /\ places = IF quiet \/ verbose THEN {"guest"}
                                                     ELSE {"guest", "blank"}
                      /\ pos' \in Survived(places)
    BY DEF PrintLine
  <2>3. pos = "line" /\ Show(l)
    BY DEF PrintLine
  <2>4. ~chClosed /\ pos' \in places
    BY <2>2, <2>3, OpenWhileShowing
  <2> QED BY <2>1, <2>2, <2>3, <2>4, LinesOffered DEF PrintLine
<1>2. /\ Len(accepted) \in Nat /\ dropped \in Nat
      /\ Len(accepted) + dropped <= 2 * count - 1
  BY <1>1, AcceptedTypes DEF Lines, Offered
<1>3. /\ l.insn = count /\ l.text = "insn" /\ l.events = current
      /\ \A k \in 1..Len(current) : current[k].insn = count
  BY <1>1 DEF Flow, InTransit
<1>4. \A i \in 1..Len(accepted) : accepted[i].insn < count
                                  /\ accepted[i].insn <= count
  BY <1>1 DEF Lines, UpTo
<1> HIDE DEF l
<1>5. /\ LinesInOrder' /\ EventsOnTheirLine'
      /\ \A i \in 1..Len(accepted') : accepted'[i].insn <= count
      /\ \A n \in Nat : HasLine(n) => HasLine(n)'
      /\ ~quiet /\ ~verbose /\ dropped' = 0 => /\ dropped = 0
                                               /\ HasLine(count)'
      /\ IF quiet \/ verbose
           THEN Len(accepted') + dropped' = Len(accepted) + dropped
           ELSE Len(accepted') + dropped' = Len(accepted) + dropped + 1
  BY <1>1, <1>3, <1>4, ShowKeepsOrder DEF Lines
<1>6. UpTo'
  BY <1>1, <1>5 DEF UpTo
<1>7. Shown'
  <2> SUFFICES ASSUME ~quiet, ~verbose, dropped' = 0,
                      NEW n \in 1..MaxShown, n <= count
               PROVE  HasLine(n)'
    BY <1>1 DEF Shown
  <2>1. CASE n = count
    BY <1>1, <1>5, <2>1
  <2>2. CASE n # count
    <3>1. HasLine(n)
      BY <1>5, <2>2 DEF Lines, Shown
    <3> QED BY <1>5, <3>1
  <2> QED BY <2>1, <2>2
<1>8. Offered'
  BY <1>1, <1>2, <1>5 DEF Offered
<1> QED BY <1>5, <1>6, <1>7, <1>8 DEF Lines

LEMMA PrintBlankKeepsLines ==
  ASSUME Flow, Taken, Lines, PrintBlank
  PROVE  Lines'
<1> DEFINE l == [insn |-> count, text |-> "blank", events |-> <<>>]
<1>1. /\ Show(l) /\ l \in Line /\ ~chClosed
      /\ pos = "blank" /\ pos' = "guest" /\ count' = count
      /\ UNCHANGED <<quiet, verbose>>
      /\ count \in Nat
  <2>1. count \in Nat
    BY SessionAssumption DEF Flow, Types
  <2>2. pos = "blank" /\ Show(l) /\ pos' \in Survived({"guest"})
    BY DEF PrintBlank
  <2>3. ~chClosed /\ pos' \in {"guest"}
    BY <2>2, OpenWhileShowing
  <2> QED BY <2>1, <2>2, <2>3, LinesOffered DEF PrintBlank
<1>2. /\ Len(accepted) \in Nat /\ dropped \in Nat
      /\ Len(accepted) + dropped <= 2 * count
  BY <1>1, AcceptedTypes DEF Lines, Offered
<1>3. /\ l.insn = count /\ l.text # "insn"
      /\ \A k \in 1..Len(l.events) : l.events[k].insn = l.insn
  <2>1. Len(l.events) = 0
    OBVIOUS
  <2> QED BY <2>1
<1>4. \A i \in 1..Len(accepted) : accepted[i].insn <= count
  BY <1>1 DEF Lines, UpTo
<1> HIDE DEF l
<1>5. /\ LinesInOrder' /\ EventsOnTheirLine'
      /\ \A i \in 1..Len(accepted') : accepted'[i].insn <= count
      /\ \A n \in Nat : HasLine(n) => HasLine(n)'
      /\ ~quiet /\ ~verbose /\ dropped' = 0 => dropped = 0
      /\ IF quiet \/ verbose
           THEN Len(accepted') + dropped' = Len(accepted) + dropped
           ELSE Len(accepted') + dropped' = Len(accepted) + dropped + 1
  BY <1>1, <1>2, <1>3, <1>4, ShowKeepsOrder DEF Lines
<1>6. UpTo'
  BY <1>1, <1>5 DEF UpTo
<1>7. Shown'
  BY <1>1, <1>5 DEF Lines, Shown
<1>8. Offered'
  BY <1>1, <1>2, <1>5 DEF Offered
<1> QED BY <1>5, <1>6, <1>7, <1>8 DEF Lines

\* The steps that offer the printer nothing.
LEMMA OtherStepsKeepLines ==
  ASSUME Flow, Taken, Lines,
         UNCHANGED <<accepted, dropped, quiet, verbose>>,
         \/ /\ pos' # "line" /\ pos # "header" /\ pos # "line"
            /\ pos # "blank" /\ pos' # "header" /\ pos' # "blank"
            /\ count' = count \/ (count' = count + 1 /\ count' > MaxShown)
         \/ /\ pos = "code" /\ pos' = "line" /\ count' = count + 1
         \/ /\ pos' = pos /\ count' = count
  PROVE  Lines'
<1>1. /\ count \in Nat /\ MaxShown \in Nat
      /\ Len(accepted) \in Nat /\ dropped \in Nat
      /\ \A i \in 1..Len(accepted) : accepted[i].insn \in Nat
  BY AcceptedTypes, SessionAssumption DEF Flow, Types
<1>2. LinesInOrder' /\ EventsOnTheirLine'
  BY DEF Lines, LinesInOrder, InsnLine, EventsOnTheirLine
<1>3. UpTo'
  BY <1>1 DEF Lines, UpTo
<1>4. \A n \in Nat : HasLine(n) => HasLine(n)'
  BY DEF HasLine, InsnLine
<1>5. Shown'
  BY <1>1, <1>4 DEF Lines, Shown
<1>6. Offered'
  BY <1>1 DEF Lines, Offered
<1> QED BY <1>2, <1>3, <1>5, <1>6 DEF Lines

LEMMA LinesInit == Init => Lines
<1> SUFFICES ASSUME Init PROVE Lines
  OBVIOUS
<1>1. Len(accepted) = 0 /\ dropped = 0 /\ pos = "header" /\ count = 0
  BY DEF Init, W!Init
<1>2. UpTo /\ LinesInOrder /\ EventsOnTheirLine /\ Offered
  BY <1>1 DEF UpTo, LinesInOrder, EventsOnTheirLine, Offered
<1>3. Shown
  BY <1>1, SessionAssumption DEF Shown
<1> QED BY <1>2, <1>3 DEF Lines

LEMMA LinesNext == Flow /\ Taken /\ Lines /\ [Next]_vars => Lines'
<1> SUFFICES ASSUME Flow, Taken, Lines, [Next]_vars PROVE Lines'
  OBVIOUS
<1>1. CASE Header
  BY <1>1, HeaderKeepsLines
<1>2. CASE PrintLine
  BY <1>2, PrintLineKeepsLines
<1>3. CASE PrintBlank
  BY <1>3, PrintBlankKeepsLines
<1>4. ASSUME NEW h \in HookKinds, Callback(h) PROVE Lines'
  <2>1. /\ UNCHANGED <<accepted, dropped, quiet, verbose, count>>
        /\ pos = "guest"
    BY <1>4 DEF Callback, writerVars
  <2>2. pos' = "guest" \/ pos' = "code"
    BY <1>4 DEF Callback
  <2> QED BY <2>1, <2>2, OtherStepsKeepLines
<1>5. CASE HeapPanic \/ RunReturns \/ Close \/ CloseReturned \/ ReportKey
             \/ ReportEnds
  <2>1. /\ UNCHANGED <<accepted, dropped, quiet, verbose, count>>
        /\ pos \notin {"header", "line", "blank"}
        /\ pos' \notin {"header", "line", "blank"}
    BY <1>5 DEF HeapPanic, RunReturns, Close, Survived, CloseReturned,
       ReportKey, ReportEnds, writerVars
  <2> QED BY <2>1, OtherStepsKeepLines
<1>6. CASE CodeHook
  <2>1. /\ UNCHANGED <<accepted, dropped, quiet, verbose>>
        /\ pos = "code" /\ count' = count + 1
        /\ \/ pos' = "line"
           \/ pos' = "guest" /\ count' > MaxShown
    BY <1>6 DEF CodeHook, writerVars
  <2> QED BY <2>1, OtherStepsKeepLines
<1>7. CASE Printer \/ Ended \/ UNCHANGED vars
  <2>1. UNCHANGED <<accepted, dropped, quiet, verbose, pos, count>>
    BY <1>7 DEF Printer, W!Runner, W!Tick, W!FlushOnTick, W!Receive,
       W!WriteText, W!WriteNewline, W!Finish, Ended, vars, writerVars
  <2> QED BY <2>1, OtherStepsKeepLines
<1> QED BY <1>1, <1>2, <1>3, <1>4, <1>5, <1>6, <1>7 DEF Next, Command

LEMMA LinesCorrect == Spec => []Lines
BY LinesInit, LinesNext, FlowCorrect, TakenCorrect, PTL DEF Spec

\* A line shows the events of its own instruction and of no other
\* (emulator.go:529-557, main.go:521-563).
THEOREM EventsStayOnTheirLine == Spec => []EventsOnTheirLine
<1>1. Lines => EventsOnTheirLine
  BY DEF Lines
<1> QED BY <1>1, LinesCorrect, PTL

\* Lines come in the order of their instructions, none twice; with nothing
\* dropped, none of the first MaxShown is missing (main.go:521-563).
THEOREM NoInstructionMissing == Spec => []EveryInstructionShown
<1>1. Lines => EveryInstructionShown
  BY DEF Lines, UpTo, Shown, EveryInstructionShown
<1> QED BY <1>1, LinesCorrect, PTL

\* A session that is about to offer a line has offered fewer than two an
\* instruction and the header (main.go:130-135).
LineFits == pos \in {"header", "line", "blank"} =>
              Len(accepted) + dropped < 2 * MaxCount + 1

THEOREM LinesAlwaysFit == Spec => []LineFits
<1>1. Flow /\ Taken /\ Lines => LineFits
  <2> SUFFICES ASSUME Flow, Taken, Lines,
                      pos \in {"header", "line", "blank"}
               PROVE  Len(accepted) + dropped < 2 * MaxCount + 1
    BY DEF LineFits
  <2>1. /\ Len(accepted) \in Nat /\ dropped \in Nat
        /\ MaxCount \in Nat /\ count \in 0..MaxCount
    BY AcceptedTypes, SessionAssumption DEF Flow, Types
  <2> QED BY <2>1 DEF Lines, Offered
<1> QED BY <1>1, FlowCorrect, TakenCorrect, LinesCorrect, PTL

-----------------------------------------------------------------------------
(***************************************************************************)
(* The session as a caller of the printer.                                 *)
(***************************************************************************)
LEMMA ShowIsWrite ==
  ASSUME Flow, LineFits, pos \in {"header", "line", "blank"},
         NEW l \in Line, Show(l)
  PROVE  W!Next \/ UNCHANGED writerVars
<1>1. /\ ~chClosed /\ main = "writing"
      /\ Len(accepted) + dropped < 2 * MaxCount + 1
  BY OpenWhileShowing DEF LineFits
<1>2. CASE quiet \/ verbose
  BY <1>2 DEF Show
<1>3. CASE ~(quiet \/ verbose)
  <2>1. W!Write(l)
    BY <1>1, <1>3, ShowSteps DEF W!Write, W!callerVars, W!runnerVars
  <2> QED BY <2>1 DEF W!Next, W!Caller
<1> QED BY <1>2, <1>3

LEMMA StepIsCaller ==
  ASSUME Flow, LineFits, [Next]_vars
  PROVE  W!Next \/ UNCHANGED writerVars
<1>0. Stage
  BY DEF Flow
<1>1. CASE Header
  <2>1. pos = "header"
    BY <1>1 DEF Header
  <2> QED BY <1>1, <2>1, LinesOffered, ShowIsWrite DEF Header
<1>2. CASE PrintLine
  <2>1. pos = "line"
    BY <1>2 DEF PrintLine
  <2> QED BY <1>2, <2>1, LinesOffered, ShowIsWrite DEF PrintLine
<1>3. CASE PrintBlank
  <2>1. pos = "blank"
    BY <1>3 DEF PrintBlank
  <2> QED BY <1>3, <2>1, LinesOffered, ShowIsWrite DEF PrintBlank
<1>4. CASE HeapPanic
  <2>1. W!Panic
    BY <1>0, <1>4
       DEF HeapPanic, Stage, PrinterPhase, W!Panic, W!runnerVars
  <2> QED BY <2>1 DEF W!Next, W!Caller
<1>5. CASE Close
  <2>1. W!CloseChannel
    BY <1>0, <1>5
       DEF Close, Stage, PrinterPhase, W!CloseChannel, W!runnerVars
  <2> QED BY <2>1 DEF W!Next, W!Caller
<1>6. CASE CloseReturned
  <2>1. W!AwaitDone
    BY <1>0, <1>6
       DEF CloseReturned, Stage, PrinterPhase, W!AwaitDone, W!runnerVars
  <2> QED BY <2>1 DEF W!Next, W!Caller
<1>7. CASE Printer
  BY <1>7 DEF Printer, W!Next
<1>8. ASSUME NEW h \in HookKinds, Callback(h)
      PROVE  UNCHANGED writerVars
  BY <1>8 DEF Callback
<1>9. CASE CodeHook \/ RunReturns \/ ReportKey \/ ReportEnds
  BY <1>9 DEF CodeHook, RunReturns, ReportKey, ReportEnds
<1>10. CASE Ended \/ UNCHANGED vars
  BY <1>10 DEF Ended, vars
<1> QED BY <1>1, <1>2, <1>3, <1>4, <1>5, <1>6, <1>7, <1>8, <1>9, <1>10
        DEF Next, Command

\* A session offers no line to a printer that is closed, closes it once, and
\* waits for it or dies: what it does to the printer's variables is what the
\* printer expects of a caller (main.go:130-140, 544-568).
THEOREM UsesPrinter == Spec => PrinterSpec
<1>1. Init => W!Init
  BY DEF Init
<1>2. Flow /\ LineFits /\ [Next]_vars => [W!Next]_(W!vars)
  BY StepIsCaller DEF writerVars, W!vars
<1> QED BY <1>1, <1>2, FlowCorrect, LinesAlwaysFit, PTL
        DEF Spec, PrinterSpec, W!Spec

(***************************************************************************)
(* W, the printer of the session, and P, the printer the facts of          *)
(* OutputWriterProofs are about, are the same module instantiated twice.   *)
(***************************************************************************)
LEMMA SamePrinter ==
  /\ W!Init => P!Init
  /\ [W!Next]_(W!vars) => [P!Next]_(P!vars)
<1>1. W!Init => P!Init
  BY DEF W!Init, P!Init
<1>2. W!Caller => P!Caller
  BY DEF W!Caller, P!Caller, W!Write, P!Write, W!Offer, P!Offer,
     W!CloseChannel, P!CloseChannel, W!AwaitDone, P!AwaitDone, W!Panic,
     P!Panic, W!callerVars, P!callerVars, W!runnerVars, P!runnerVars
<1>3. W!FlushFails => P!FlushFails
  BY DEF W!FlushFails, P!FlushFails
<1>4. W!Flush => P!Flush
  BY <1>3 DEF W!Flush, P!Flush, W!FlushOK, P!FlushOK
<1>5. ASSUME NEW part, W!Put(part) PROVE P!Put(part)
  BY <1>3, <1>5 DEF W!Put, P!Put
<1>6. W!Runner => P!Runner
  BY <1>4, <1>5 DEF W!Runner, P!Runner, W!FlushOnTick, P!FlushOnTick,
     W!Receive, P!Receive, W!WriteText, P!WriteText, W!WriteNewline,
     P!WriteNewline, W!Finish, P!Finish, W!Alive, P!Alive, W!callerVars,
     P!callerVars
<1>7. W!Tick => P!Tick
  BY DEF W!Tick, P!Tick, W!Alive, P!Alive, W!callerVars, P!callerVars
<1>8. W!Ended => P!Ended
  BY DEF W!Ended, P!Ended, W!Alive, P!Alive, W!vars, P!vars
<1>9. UNCHANGED W!vars => UNCHANGED P!vars
  BY DEF W!vars, P!vars
<1> QED BY <1>1, <1>2, <1>6, <1>7, <1>8, <1>9 DEF W!Next, P!Next

\* What the printer guarantees to every caller it guarantees to a session.
LEMMA PrinterCorrect ==
  Spec => [](W!TypeOK /\ P!StreamInv /\ P!NothingLeftAfterClose)
<1>1. Spec => P!Spec
  BY UsesPrinter, SamePrinter, PTL DEF PrinterSpec, W!Spec, P!Spec
<1>2. P!Spec => []P!TypeOK
  BY WriterConstants, P!TypeCorrect
<1>3. P!Spec => []P!StreamInv
  BY WriterConstants, P!StreamCorrect
<1>4. P!Spec => []P!NothingLeftAfterClose
  BY WriterConstants, P!CloseFlushesAll
<1>5. P!TypeOK => W!TypeOK
  BY DEF P!TypeOK, W!TypeOK, P!Part, W!Part
<1> QED BY <1>1, <1>2, <1>3, <1>4, <1>5, PTL

\* The keys are printed when the printer has left stdout for good, with all
\* it accepted on it (main.go:565-590).
THEOREM ReportIsLast == Spec => []ReportAfterTrace
<1>1. Flow /\ P!StreamInv /\ P!NothingLeftAfterClose => ReportAfterTrace
  BY DEF Flow, Stage, PrinterPhase, P!StreamInv, P!Closing,
         P!NothingLeftAfterClose, ReportAfterTrace
<1> QED BY <1>1, FlowCorrect, PrinterCorrect, PTL

-----------------------------------------------------------------------------
(***************************************************************************)
(* The report: its lines cover the keys before next, each line takes up    *)
(* where the one before left off, and next does not stand between an xxtea *)
(* key and its signature.                                                  *)
(***************************************************************************)
ReportLine == [at : Nat \ {0}, keys : Seq(Key) \ {<<>>}]

Splits(i) == i > 1 /\ i <= Len(keys) /\ keys[i - 1].type = "xxtea"
             /\ keys[i].type = "signature"

ReportSoFar ==
  /\ report \in Seq(ReportLine)
  /\ next \in 1..(Len(keys) + 1)
  /\ next = After(Len(report))
  /\ KeysReported
  /\ pos \notin {"report", "exit"} => report = <<>>
  /\ pos = "exit" => next = Len(keys) + 1
  /\ ~verbose => ~Splits(next)

LEMMA GroupKeys ==
  ASSUME Types, NEW i \in 1..Len(keys)
  PROVE  /\ Group(i) \in Seq(Key)
         /\ Len(Group(i)) \in {1, 2}
         /\ i + Len(Group(i)) <= Len(keys) + 1
         /\ \A k \in 1..Len(Group(i)) : Group(i)[k] = keys[i + (k - 1)]
         /\ ~verbose => ~Splits(i + Len(Group(i)))
<1>1. /\ i \in Nat /\ Len(keys) \in Nat /\ keys \in Seq(Key)
      /\ keys[i] \in Key
  BY DEF Types
<1>2. CASE ~verbose /\ Paired(i)
  <2>1. /\ i + 1 \in 1..Len(keys) /\ keys[i + 1] \in Key
        /\ keys[i + 1].type = "signature"
    BY <1>1, <1>2 DEF Paired
  <2>2. Group(i) = <<keys[i], keys[i + 1]>>
    BY <1>2 DEF Group
  <2>3. /\ Group(i) \in Seq(Key) /\ Len(Group(i)) = 2
        /\ Group(i)[1] = keys[i] /\ Group(i)[2] = keys[i + 1]
    BY <1>1, <2>1, <2>2
  <2>4. \A k \in 1..2 : Group(i)[k] = keys[i + (k - 1)]
    BY <1>1, <2>3
  <2>5. ~Splits(i + 2)
    <3>1. (i + 2) - 1 = i + 1
      BY <1>1
    <3> QED BY <2>1, <3>1 DEF Splits
  <2> QED BY <1>1, <2>1, <2>3, <2>4, <2>5
<1>3. CASE ~(~verbose /\ Paired(i))
  <2>1. Group(i) = <<keys[i]>>
    BY <1>3 DEF Group
  <2>2. /\ Group(i) \in Seq(Key) /\ Len(Group(i)) = 1
        /\ Group(i)[1] = keys[i]
    BY <1>1, <2>1
  <2>3. \A k \in 1..1 : Group(i)[k] = keys[i + (k - 1)]
    BY <1>1, <2>2
  <2>4. ~verbose => ~Splits(i + 1)
    <3>1. (i + 1) - 1 = i /\ (i + 1 <= Len(keys) => i < Len(keys))
      BY <1>1
    <3> QED BY <1>3, <3>1 DEF Splits, Paired
  <2> QED BY <1>1, <2>2, <2>3, <2>4
<1> QED BY <1>2, <1>3

LEMMA NothingReported ==
  ASSUME report = <<>>, next = 1, keys \in Seq(Key), pos # "exit"
  PROVE  ReportSoFar
<1>1. /\ Len(report) = 0 /\ report \in Seq(ReportLine)
      /\ Len(keys) \in Nat
  OBVIOUS
<1>2. KeysReported
  BY <1>1 DEF KeysReported
<1>3. next \in 1..(Len(keys) + 1) /\ ~Splits(next) /\ next = After(Len(report))
  BY <1>1 DEF Splits, After
<1> QED BY <1>1, <1>2, <1>3 DEF ReportSoFar

LEMMA ReportKeyKeepsReport ==
  ASSUME Types, ReportSoFar, ReportKey
  PROVE  ReportSoFar'
<1> DEFINE group == Group(next)
<1>1. /\ pos = "report" /\ pos' = pos
      /\ next \in 1..Len(keys) /\ next \in Nat /\ Len(keys) \in Nat
      /\ report' = Append(report, [at |-> next, keys |-> group])
      /\ next' = next + Len(group)
      /\ keys' = keys /\ verbose' = verbose
      /\ Len(report) \in Nat /\ report \in Seq(ReportLine)
  BY DEF ReportKey, ReportSoFar, Types, hookVars
<1>2. /\ group \in Seq(Key) /\ Len(group) \in {1, 2}
      /\ next + Len(group) <= Len(keys) + 1
      /\ \A k \in 1..Len(group) : group[k] = keys[next + (k - 1)]
      /\ ~verbose => ~Splits(next + Len(group))
  BY <1>1, GroupKeys
<1> HIDE DEF group
<1>3. PICK new : new = [at |-> next, keys |-> group]
  OBVIOUS
<1>4. new \in ReportLine /\ new.at = next /\ new.keys = group
  <2>1. group # <<>>
    BY <1>2
  <2> QED BY <1>1, <1>2, <1>3, <2>1 DEF ReportLine
<1>5. /\ report' \in Seq(ReportLine)
      /\ Len(report') = Len(report) + 1
      /\ \A g \in 1..Len(report) : report'[g] = report[g]
      /\ report'[Len(report) + 1] = new
  BY <1>1, <1>3, <1>4, AppendProperties
<1>6. PICK n \in Nat : n = Len(report)
  BY <1>1
<1>7. \A g \in 0..n : After(g)' = After(g)
  BY <1>5, <1>6 DEF After
<1>8. After(n)' = next /\ After(n) = next /\ After(n + 1)' = next'
  <2>1. After(n) = next
    BY <1>6 DEF ReportSoFar
  <2>2. n \in 0..n /\ n + 1 # 0
    OBVIOUS
  <2>3. After(n + 1)' = new.at + Len(new.keys)
    BY <1>5, <1>6, <2>2 DEF After
  <2> QED BY <1>1, <1>4, <1>7, <2>1, <2>2, <2>3
<1>9. ASSUME NEW g \in 1..(n + 1)
      PROVE  /\ report'[g].at = After(g - 1)'
             /\ \A k \in 1..Len(report'[g].keys) :
                  report'[g].keys[k] = keys'[report'[g].at + (k - 1)]
             /\ ~verbose /\ g > 1 =>
                  ~ (keys'[After(g - 1)' - 1].type = "xxtea"
                     /\ keys'[report'[g].at].type = "signature")
  <2>1. CASE g \in 1..n
    <3>1. report'[g] = report[g] /\ After(g - 1)' = After(g - 1)
      BY <1>5, <1>6, <1>7, <2>1
    <3> QED BY <1>1, <1>6, <2>1, <3>1 DEF ReportSoFar, KeysReported
  <2>2. CASE g = n + 1
    <3>1. report'[g] = new /\ g - 1 = n
      BY <1>5, <1>6, <2>2
    <3>2. /\ report'[g].at = next /\ report'[g].keys = group
          /\ After(g - 1)' = next
      BY <1>4, <1>8, <3>1
    <3>3. ~verbose /\ g > 1 => ~ (keys[next - 1].type = "xxtea"
                                  /\ keys[next].type = "signature")
      <4> SUFFICES ASSUME ~verbose, g > 1
                   PROVE  ~ (keys[next - 1].type = "xxtea"
                             /\ keys[next].type = "signature")
        OBVIOUS
      <4>1. n \in 1..Len(report) /\ n # 0
        BY <1>6, <2>2
      <4>2. next > 1
        <5>1. next = report[n].at + Len(report[n].keys)
          BY <1>8, <4>1 DEF After
        <5>2. report[n] \in ReportLine
          BY <1>1, <4>1, ElementOfSeq
        <5>3. /\ report[n].at \in Nat /\ report[n].at > 0
              /\ report[n].keys \in Seq(Key) /\ report[n].keys # <<>>
          BY <5>2 DEF ReportLine
        <5>4. Len(report[n].keys) \in Nat /\ Len(report[n].keys) > 0
          BY <5>3
        <5> QED BY <5>1, <5>3, <5>4
      <4> QED BY <1>1, <4>2 DEF ReportSoFar, Splits
    <3> QED BY <1>1, <1>2, <3>2, <3>3
  <2> QED BY <1>6, <2>1, <2>2
<1>10. KeysReported'
  BY <1>1, <1>5, <1>6, <1>9 DEF KeysReported
<1>11. ~verbose' => ~Splits(next')
  BY <1>1, <1>2
<1>12. Splits(next)' <=> Splits(next')
  BY <1>1 DEF Splits
<1>13. next' = After(Len(report))'
  <2>1. After(Len(report))' = After(n + 1)'
    BY <1>5, <1>6 DEF After
  <2> QED BY <1>8, <2>1
<1> QED BY <1>1, <1>2, <1>5, <1>10, <1>11, <1>12, <1>13 DEF ReportSoFar

LEMMA ReportInit == Init => ReportSoFar
BY NothingReported DEF Init

LEMMA ReportNext == Flow /\ Flow' /\ ReportSoFar /\ [Next]_vars => ReportSoFar'
<1> SUFFICES ASSUME Flow, Flow', ReportSoFar, [Next]_vars PROVE ReportSoFar'
  OBVIOUS
<1>1. CASE ReportKey
  BY <1>1, ReportKeyKeepsReport DEF Flow
<1>2. ASSUME UNCHANGED <<keys, next, report, verbose>>,
             \/ pos' = pos
             \/ pos \notin {"report", "exit"} /\ pos' # "exit"
             \/ pos' = "exit" /\ next > Len(keys)
      PROVE  ReportSoFar'
  <2>1. Len(keys) \in Nat
    BY DEF Flow, Types
  <2>2. KeysReported'
    <3>1. next > Len(keys) => After(Len(report)) = Len(keys) + 1
      BY <2>1 DEF ReportSoFar
    <3>2. pos' = "exit" => After(Len(report)) = Len(keys) + 1
      BY <1>2, <3>1 DEF ReportSoFar
    <3> QED BY <1>2, <3>2 DEF ReportSoFar, KeysReported, After
  <2> QED BY <1>2, <2>1, <2>2 DEF ReportSoFar, After, Splits
<1>3. ASSUME pos = "guest", pos' # "exit", UNCHANGED reportVars
      PROVE  ReportSoFar'
  <2>1. report' = <<>> /\ next' = 1
    <3>1. report = <<>> /\ next = After(Len(report))
      BY <1>3 DEF ReportSoFar
    <3>2. Len(report) = 0
      BY <3>1
    <3> QED BY <1>3, <3>1, <3>2 DEF After, reportVars
  <2>2. keys' \in Seq(Key)
    BY DEF Flow, Types
  <2>3. /\ Len(report') = 0 /\ report' \in Seq(ReportLine)
        /\ Len(keys') \in Nat
    BY <2>1, <2>2
  <2>4. KeysReported'
    BY <1>3, <2>3 DEF KeysReported
  <2>5. /\ next' \in 1..(Len(keys') + 1) /\ ~Splits(next)'
        /\ next' = After(Len(report))'
    BY <2>1, <2>3 DEF Splits, After
  <2> QED BY <1>3, <2>1, <2>3, <2>4, <2>5 DEF ReportSoFar
<1>4. ASSUME NEW h \in HookKinds, Callback(h) PROVE ReportSoFar'
  <2>1. pos = "guest" /\ pos' # "exit" /\ UNCHANGED reportVars
    BY <1>4 DEF Callback
  <2> QED BY <1>3, <2>1
<1>5. CASE Header \/ HeapPanic \/ CodeHook \/ PrintLine \/ PrintBlank
             \/ RunReturns \/ Close \/ CloseReturned
  <2>1. /\ UNCHANGED <<keys, next, report, verbose>>
        /\ pos \notin {"report", "exit"} /\ pos' # "exit"
    BY <1>5 DEF Header, HeapPanic, CodeHook, PrintLine, PrintBlank,
       RunReturns, Close, CloseReturned, Survived, hookVars, reportVars
  <2> QED BY <1>2, <2>1
<1>6. CASE ReportEnds
  BY <1>2, <1>6 DEF ReportEnds, hookVars, reportVars
<1>7. CASE Printer \/ Ended \/ UNCHANGED vars
  <2>1. UNCHANGED <<keys, next, report, verbose, pos>>
    BY <1>7 DEF Printer, Ended, vars, hookVars, reportVars
  <2> QED BY <1>2, <2>1
<1> QED BY <1>1, <1>4, <1>5, <1>6, <1>7 DEF Next, Command

LEMMA ReportCorrect == Spec => []ReportSoFar
<1>1. Init /\ [][Next]_vars /\ []Flow => []ReportSoFar
  BY ReportInit, ReportNext, PTL
<1> QED BY <1>1, FlowCorrect, PTL DEF Spec

\* Every captured key is printed once, in the order of capture, a signature
\* with the xxtea key before it (main.go:318-343, 362-391).
THEOREM AllKeysReported == Spec => []KeysReported
<1>1. ReportSoFar => KeysReported
  BY DEF ReportSoFar
<1> QED BY <1>1, ReportCorrect, PTL

\* The types of the session and of its printer.
THEOREM TypeCorrect == Spec => []TypeOK
<1>1. Flow /\ W!TypeOK /\ ReportSoFar => TypeOK
  <2> SUFFICES ASSUME Flow, W!TypeOK, ReportSoFar PROVE TypeOK
    OBVIOUS
  <2>1. {quiet, verbose, stopped} \subseteq BOOLEAN
    BY DEF Flow, Types
  <2>2. {stubCalls, hits, handed} \subseteq Nat
    BY DEF Flow, Types
  <2>3. next \in Nat
    BY DEF Flow, Types, ReportSoFar
  <2>4. report \in Seq([at : Nat, keys : Seq(Key)])
    <3>1. \A x \in ReportLine : x \in [at : Nat, keys : Seq(Key)]
      BY DEF ReportLine
    <3> QED BY <3>1, SeqMonotonic DEF ReportSoFar
  <2> QED BY <2>1, <2>2, <2>3, <2>4 DEF Flow, Types, TypeOK
<1> QED BY <1>1, FlowCorrect, PrinterCorrect, ReportCorrect, PTL
=============================================================================
