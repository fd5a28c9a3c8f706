------------------------- MODULE OutputWriterProofs -------------------------
(***************************************************************************)
(* Proofs about OutputWriter, for every set of lines, every capacity and   *)
(* every number of lines.                                                  *)
(***************************************************************************)
EXTENDS OutputWriter, SequenceTheorems, TLAPS

Inv == TypeOK /\ StreamInv

(***************************************************************************)
(* What the two ways to get a part towards stdout preserve.  They are      *)
(* stated on the variables they change; PutsInOrder is used for WriteText  *)
(* and WriteNewline, FlushKeepsOrder for FlushOnTick and Finish.           *)
(***************************************************************************)
LEMMA FlushFailsKeepsStream ==
  ASSUME FlushFails, TypeOK, StreamInOrder, accepted' = accepted
  PROVE  /\ buf' \in Seq(Part) /\ Len(buf') <= BufCap
         /\ stdout' \in Seq(Part)
         /\ werr'
         /\ StreamInOrder'
         /\ Len(stdout') + Len(buf') = Len(stdout) + Len(buf)
<1>1. PICK n \in 0..(Len(buf) - 1) :
        /\ stdout' = stdout \o SubSeq(buf, 1, n)
        /\ buf' = SubSeq(buf, n + 1, Len(buf))
  BY DEF FlushFails
<1>2. /\ werr'
      /\ buf \in Seq(Part) /\ stdout \in Seq(Part)
      /\ Len(buf) \in Nat /\ Len(stdout) \in Nat /\ Len(buf) <= BufCap
      /\ n \in Nat /\ n < Len(buf)
      /\ BufCap \in Nat
  BY WriterAssumption DEF FlushFails, TypeOK
<1>3. /\ SubSeq(buf, 1, n) \in Seq(Part)
      /\ Len(SubSeq(buf, 1, n)) = n
      /\ \A k \in 1..n : SubSeq(buf, 1, n)[k] = buf[k]
  BY <1>2
<1>4. /\ buf' \in Seq(Part)
      /\ Len(buf') = Len(buf) - n
      /\ \A k \in 1..(Len(buf) - n) : buf'[k] = buf[n + k]
  BY <1>1, <1>2
<1>5. /\ stdout' \in Seq(Part)
      /\ Len(stdout') = Len(stdout) + n
      /\ \A k \in 1..(Len(stdout) + n) :
           stdout'[k] = IF k <= Len(stdout) THEN stdout[k]
                        ELSE SubSeq(buf, 1, n)[k - Len(stdout)]
  BY <1>1, <1>2, <1>3, ConcatProperties
<1>6. \A k \in 1..Len(stdout') : stdout'[k] = PartAt(accepted', k)
  <2> SUFFICES ASSUME NEW k \in 1..Len(stdout')
               PROVE  stdout'[k] = PartAt(accepted, k)
    OBVIOUS
  <2>1. CASE k <= Len(stdout)
    BY <1>2, <1>5, <2>1 DEF StreamInOrder
  <2>2. CASE k > Len(stdout)
    <3>1. k - Len(stdout) \in 1..n
      BY <1>2, <1>5, <2>2
    <3>2. stdout'[k] = buf[k - Len(stdout)]
      BY <1>2, <1>3, <1>5, <2>2, <3>1
    <3>3. buf[k - Len(stdout)] = PartAt(accepted, Len(stdout) + (k - Len(stdout)))
      BY <1>2, <3>1 DEF StreamInOrder
    <3>4. Len(stdout) + (k - Len(stdout)) = k
      BY <1>2, <1>5
    <3> QED BY <3>2, <3>3, <3>4
  <2> QED BY <1>2, <1>5, <2>1, <2>2
<1>7. \A k \in 1..Len(buf') : buf'[k] = PartAt(accepted', Len(stdout') + k)
  <2> SUFFICES ASSUME NEW k \in 1..Len(buf')
               PROVE  buf'[k] = PartAt(accepted, Len(stdout) + n + k)
    BY <1>5
  <2>1. n + k \in 1..Len(buf) /\ buf'[k] = buf[n + k]
    BY <1>2, <1>4
  <2>2. buf[n + k] = PartAt(accepted, Len(stdout) + (n + k))
    BY <2>1 DEF StreamInOrder
  <2>3. Len(stdout) + (n + k) = Len(stdout) + n + k
    BY <1>2, <2>1
  <2> QED BY <2>1, <2>2, <2>3
<1> QED BY <1>2, <1>4, <1>5, <1>6, <1>7 DEF StreamInOrder

LEMMA FlushOKKeepsStream ==
  ASSUME FlushOK, TypeOK, StreamInOrder, accepted' = accepted
  PROVE  /\ buf' = <<>>
         /\ stdout' \in Seq(Part)
         /\ ~werr /\ ~werr'
         /\ StreamInOrder'
         /\ Len(stdout') = Len(stdout) + Len(buf)
<1>1. /\ stdout' = stdout \o buf
      /\ buf' = <<>>
      /\ ~werr /\ ~werr'
      /\ buf \in Seq(Part) /\ stdout \in Seq(Part)
      /\ Len(buf) \in Nat /\ Len(stdout) \in Nat
  BY DEF FlushOK, TypeOK
<1>2. /\ stdout' \in Seq(Part)
      /\ Len(stdout') = Len(stdout) + Len(buf)
      /\ \A k \in 1..(Len(stdout) + Len(buf)) :
           stdout'[k] = IF k <= Len(stdout) THEN stdout[k]
                        ELSE buf[k - Len(stdout)]
  BY <1>1, ConcatProperties
<1>3. \A k \in 1..Len(stdout') : stdout'[k] = PartAt(accepted', k)
  <2> SUFFICES ASSUME NEW k \in 1..Len(stdout')
               PROVE  stdout'[k] = PartAt(accepted, k)
    OBVIOUS
  <2>1. CASE k <= Len(stdout)
    BY <1>1, <1>2, <2>1 DEF StreamInOrder
  <2>2. CASE k > Len(stdout)
    <3>1. /\ k - Len(stdout) \in 1..Len(buf)
          /\ stdout'[k] = buf[k - Len(stdout)]
      BY <1>1, <1>2, <2>2
    <3>2. buf[k - Len(stdout)] = PartAt(accepted, Len(stdout) + (k - Len(stdout)))
      BY <3>1 DEF StreamInOrder
    <3>3. Len(stdout) + (k - Len(stdout)) = k
      BY <1>1, <1>2
    <3> QED BY <3>1, <3>2, <3>3
  <2> QED BY <1>1, <1>2, <2>1, <2>2
<1>4. Len(buf') = 0
  BY <1>1
<1>5. \A k \in 1..Len(buf') : buf'[k] = PartAt(accepted', Len(stdout') + k)
  BY <1>4
<1> QED BY <1>1, <1>2, <1>3, <1>5 DEF StreamInOrder

\* Flush moves parts from the buffer to stdout and neither adds nor reorders.
LEMMA FlushKeepsStream ==
  ASSUME Flush, TypeOK, StreamInOrder, accepted' = accepted
  PROVE  /\ buf' \in Seq(Part) /\ Len(buf') <= BufCap
         /\ stdout' \in Seq(Part)
         /\ werr' \in BOOLEAN
         /\ StreamInOrder'
         /\ Len(stdout') + Len(buf') = Len(stdout) + Len(buf)
         /\ werr => werr'
         /\ ~werr' => buf' = <<>>
<1>1. CASE FlushOK
  <2>1. Len(buf') = 0 /\ buf' \in Seq(Part)
    BY <1>1, FlushOKKeepsStream
  <2>2. werr' \in BOOLEAN /\ BufCap \in Nat
    BY <1>1, WriterAssumption DEF FlushOK, TypeOK
  <2> QED BY <1>1, <2>1, <2>2, FlushOKKeepsStream DEF TypeOK
<1>2. CASE FlushFails
  <2>1. werr' \in BOOLEAN
    BY <1>2 DEF FlushFails
  <2> QED BY <1>2, <2>1, FlushFailsKeepsStream
<1>3. CASE werr /\ UNCHANGED <<buf, stdout, werr>>
  BY <1>3 DEF TypeOK, StreamInOrder
<1> QED BY <1>1, <1>2, <1>3 DEF Flush

\* Writing the next part of the stream keeps the stream.
LEMMA PutKeepsStream ==
  ASSUME NEW part \in Part, Put(part), TypeOK, StreamInOrder,
         accepted' = accepted,
         ~werr => part = PartAt(accepted, Len(stdout) + Len(buf) + 1)
  PROVE  /\ buf' \in Seq(Part) /\ Len(buf') <= BufCap
         /\ stdout' \in Seq(Part)
         /\ werr' \in BOOLEAN
         /\ StreamInOrder'
         /\ Len(stdout') + Len(buf') <= Len(stdout) + Len(buf) + 1
         /\ werr' => Len(stdout') + Len(buf') = Len(stdout) + Len(buf)
         /\ ~werr' => /\ ~werr
                      /\ Len(stdout') + Len(buf') = Len(stdout) + Len(buf) + 1
<1>0. /\ buf \in Seq(Part) /\ stdout \in Seq(Part)
      /\ Len(buf) \in Nat /\ Len(stdout) \in Nat /\ Len(buf) <= BufCap
      /\ BufCap \in Nat \ {0}
      /\ werr \in BOOLEAN
  BY WriterAssumption DEF TypeOK
<1>1. CASE /\ ~werr
           /\ Len(buf) < BufCap
           /\ buf' = Append(buf, part)
           /\ UNCHANGED <<stdout, werr>>
  <2>1. /\ buf' \in Seq(Part)
        /\ Len(buf') = Len(buf) + 1
        /\ \A k \in 1..Len(buf) : buf'[k] = buf[k]
        /\ buf'[Len(buf) + 1] = part
    BY <1>0, <1>1, AppendProperties
  <2>2. \A k \in 1..Len(buf') : buf'[k] = PartAt(accepted', Len(stdout') + k)
    <3> SUFFICES ASSUME NEW k \in 1..Len(buf')
                 PROVE  buf'[k] = PartAt(accepted, Len(stdout) + k)
      BY <1>1
    <3>1. CASE k \in 1..Len(buf)
      BY <2>1, <3>1 DEF StreamInOrder
    <3>2. CASE k = Len(buf) + 1
      <4>1. Len(stdout) + Len(buf) + 1 = Len(stdout) + k
        BY <1>0, <3>2
      <4> QED BY <1>1, <2>1, <3>2, <4>1
    <3> QED BY <1>0, <2>1, <3>1, <3>2
  <2>3. StreamInOrder'
    BY <1>1, <2>2 DEF StreamInOrder
  <2>4. /\ Len(buf') <= BufCap
        /\ stdout' \in Seq(Part)
        /\ werr' = FALSE
        /\ Len(stdout') + Len(buf') = Len(stdout) + Len(buf) + 1
    BY <1>0, <1>1, <2>1
  <2> QED BY <1>0, <1>1, <2>1, <2>3, <2>4
<1>2. CASE /\ ~werr
           /\ Len(buf) = BufCap
           /\ stdout' = stdout \o buf
           /\ buf' = <<part>>
           /\ UNCHANGED werr
  <2>1. /\ stdout' \in Seq(Part)
        /\ Len(stdout') = Len(stdout) + Len(buf)
        /\ \A k \in 1..(Len(stdout) + Len(buf)) :
             stdout'[k] = IF k <= Len(stdout) THEN stdout[k]
                          ELSE buf[k - Len(stdout)]
    BY <1>0, <1>2, ConcatProperties
  <2>2. /\ buf' \in Seq(Part)
        /\ Len(buf') = 1
        /\ buf'[1] = part
    BY <1>2
  <2>3. \A k \in 1..Len(stdout') : stdout'[k] = PartAt(accepted', k)
    <3> SUFFICES ASSUME NEW k \in 1..Len(stdout')
                 PROVE  stdout'[k] = PartAt(accepted, k)
      OBVIOUS
    <3>1. CASE k <= Len(stdout)
      BY <1>0, <2>1, <3>1 DEF StreamInOrder
    <3>2. CASE k > Len(stdout)
      <4>1. /\ k - Len(stdout) \in 1..Len(buf)
            /\ stdout'[k] = buf[k - Len(stdout)]
        BY <1>0, <2>1, <3>2
      <4>2. buf[k - Len(stdout)]
              = PartAt(accepted, Len(stdout) + (k - Len(stdout)))
        BY <4>1 DEF StreamInOrder
      <4>3. Len(stdout) + (k - Len(stdout)) = k
        BY <1>0, <2>1
      <4> QED BY <4>1, <4>2, <4>3
    <3> QED BY <1>0, <2>1, <3>1, <3>2
  <2>4. \A k \in 1..Len(buf') : buf'[k] = PartAt(accepted', Len(stdout') + k)
    <3>1. \A k \in 1..Len(buf') : k = 1
      BY <2>2
    <3>2. buf'[1] = PartAt(accepted, Len(stdout') + 1)
      BY <1>2, <2>1, <2>2
    <3> QED BY <3>1, <3>2
  <2> QED BY <1>0, <1>2, <2>1, <2>2, <2>3, <2>4 DEF StreamInOrder
<1>3. CASE Len(buf) = BufCap /\ FlushFails
  <2>1. Len(stdout') + Len(buf') = Len(stdout) + Len(buf) /\ werr' = TRUE
    BY <1>3, FlushFailsKeepsStream DEF FlushFails
  <2> QED BY <1>0, <1>3, <2>1, FlushFailsKeepsStream
<1>4. CASE werr /\ UNCHANGED <<buf, stdout, werr>>
  BY <1>0, <1>4 DEF StreamInOrder
<1> QED BY <1>1, <1>2, <1>3, <1>4 DEF Put

-----------------------------------------------------------------------------
\* Accepting one more line does not change the parts of the earlier ones.
LEMMA PartAtAppend ==
  ASSUME NEW lines \in Seq(Line), NEW l \in Line,
         NEW k \in 1..(2 * Len(lines))
  PROVE  PartAt(Append(lines, l), k) = PartAt(lines, k)
<1>1. Len(lines) \in Nat
  OBVIOUS
<1>2. (k + 1) \div 2 \in 1..Len(lines)
  BY <1>1
<1>3. Append(lines, l)[(k + 1) \div 2] = lines[(k + 1) \div 2]
  BY <1>2, AppendProperties
<1> QED BY <1>3 DEF PartAt

\* The two parts of the n-th line.
LEMMA PartAtLine ==
  ASSUME NEW lines \in Seq(Line), NEW n \in 1..Len(lines)
  PROVE  /\ PartAt(lines, 2 * n - 1) = <<lines[n], "text">>
         /\ PartAt(lines, 2 * n) = <<lines[n], "newline">>
<1>1. n \in Nat
  OBVIOUS
<1>2. /\ (2 * n - 1 + 1) \div 2 = n
      /\ (2 * n + 1) \div 2 = n
      /\ (2 * n - 1) % 2 = 1
      /\ (2 * n) % 2 = 0
  BY <1>1
<1> QED BY <1>2 DEF PartAt

LEMMA InitInv == Init => Inv
<1> SUFFICES ASSUME Init PROVE Inv
  OBVIOUS
<1>1. TypeOK
  <2>1. /\ ch \in Seq(Line) /\ accepted \in Seq(Line)
        /\ buf \in Seq(Part) /\ stdout \in Seq(Part)
        /\ Len(ch) = 0 /\ Len(buf) = 0
    BY DEF Init
  <2>2. /\ main \in {"writing", "closing", "returned", "crashed"}
        /\ runner \in {"select", "text", "newline", "exited"}
        /\ chClosed \in BOOLEAN /\ tick \in BOOLEAN
        /\ werr \in BOOLEAN /\ done \in BOOLEAN
        /\ line \in Line \cup {NoLine}
        /\ dropped \in Nat
    BY DEF Init
  <2> QED BY <2>1, <2>2, WriterAssumption DEF TypeOK
<1>2. /\ Len(ch) = 0 /\ Len(accepted) = 0 /\ Len(stdout) = 0 /\ Len(buf) = 0
  BY DEF Init
<1>3. ChannelHoldsRest /\ StreamInOrder
  BY <1>2 DEF ChannelHoldsRest, StreamInOrder, Received
<1>4. LineInHand /\ Closing
  BY DEF Init, LineInHand, Closing
<1>5. StreamLength
  BY <1>2 DEF Init, StreamLength, Received, Unwritten
<1> QED BY <1>1, <1>3, <1>4, <1>5 DEF Inv, StreamInv

\* The facts about lengths every step needs.
LEMMA Lengths ==
  ASSUME Inv
  PROVE  /\ Len(ch) \in Nat /\ Len(accepted) \in Nat
         /\ Len(stdout) \in Nat /\ Len(buf) \in Nat
         /\ Received \in Nat /\ Received <= Len(accepted)
         /\ Unwritten \in 0..2
BY DEF Inv, TypeOK, StreamInv, ChannelHoldsRest, Received, Unwritten

LEMMA WriteKeepsInv ==
  ASSUME Inv, NEW l \in Line, Write(l)
  PROVE  Inv'
<1>0. TypeOK /\ StreamInv
  BY DEF Inv
<1>1. CASE /\ Len(ch) < ChanCap
           /\ ch' = Append(ch, l)
           /\ accepted' = Append(accepted, l)
           /\ UNCHANGED dropped
  <2>1. /\ main' = main /\ chClosed' = chClosed /\ tick' = tick
        /\ runner' = runner /\ line' = line /\ buf' = buf
        /\ stdout' = stdout /\ werr' = werr /\ done' = done
        /\ main = "writing"
    BY DEF Write, callerVars, runnerVars
  <2>2. /\ ch' \in Seq(Line) /\ Len(ch') = Len(ch) + 1
        /\ \A i \in 1..Len(ch) : ch'[i] = ch[i]
        /\ ch'[Len(ch) + 1] = l
    BY <1>0, <1>1, AppendProperties DEF TypeOK
  <2>3. /\ accepted' \in Seq(Line) /\ Len(accepted') = Len(accepted) + 1
        /\ \A i \in 1..Len(accepted) : accepted'[i] = accepted[i]
        /\ accepted'[Len(accepted) + 1] = l
    BY <1>0, <1>1, AppendProperties DEF TypeOK
  <2>4. Received' = Received /\ Unwritten' = Unwritten
    BY <2>1, <2>2, <2>3, Lengths DEF Received, Unwritten
  <2>5. TypeOK'
    BY <1>0, <1>1, <2>1, <2>2, <2>3, WriterAssumption, Lengths DEF TypeOK
  <2>6. ChannelHoldsRest'
    <3>1. Len(ch') <= Len(accepted')
      BY <1>0, <2>2, <2>3, Lengths DEF StreamInv, ChannelHoldsRest
    <3>2. \A i \in 1..Len(ch') : ch'[i] = accepted'[Received + i]
      <4> SUFFICES ASSUME NEW i \in 1..Len(ch')
                   PROVE  ch'[i] = accepted'[Received + i]
        OBVIOUS
      <4>1. CASE i \in 1..Len(ch)
        <5>1. Received + i \in 1..Len(accepted)
          BY <4>1, Lengths DEF Received
        <5> QED BY <1>0, <2>2, <2>3, <4>1, <5>1
                DEF StreamInv, ChannelHoldsRest
      <4>2. CASE i = Len(ch) + 1
        <5>1. Received + i = Len(accepted) + 1
          BY <4>2, Lengths DEF Received
        <5> QED BY <2>2, <2>3, <4>2, <5>1
      <4> QED BY <2>2, <4>1, <4>2, Lengths
    <3> QED BY <2>4, <3>1, <3>2 DEF ChannelHoldsRest
  <2>7. LineInHand'
    <3> SUFFICES ASSUME runner' \in {"text", "newline"}
                 PROVE  Received' >= 1 /\ line' = accepted'[Received']
      BY DEF LineInHand
    <3>1. Received >= 1 /\ line = accepted[Received]
      BY <1>0, <2>1 DEF StreamInv, LineInHand
    <3>2. Received \in 1..Len(accepted)
      BY <3>1, Lengths
    <3> QED BY <2>1, <2>3, <2>4, <3>1, <3>2
  <2>8. StreamInOrder'
    <3>1. Len(stdout) + Len(buf) <= 2 * Len(accepted)
      BY <1>0, Lengths DEF StreamInv, StreamLength
    <3>2. \A k \in 1..Len(stdout) : stdout[k] = PartAt(accepted', k)
      <4> SUFFICES ASSUME NEW k \in 1..Len(stdout)
                   PROVE  stdout[k] = PartAt(accepted', k)
        OBVIOUS
      <4>1. k \in 1..(2 * Len(accepted))
        BY <3>1, Lengths
      <4>2. stdout[k] = PartAt(accepted, k)
        BY <1>0 DEF StreamInv, StreamInOrder
      <4> QED BY <1>0, <1>1, <4>1, <4>2, PartAtAppend DEF TypeOK
    <3>3. \A k \in 1..Len(buf) : buf[k] = PartAt(accepted', Len(stdout) + k)
      <4> SUFFICES ASSUME NEW k \in 1..Len(buf)
                   PROVE  buf[k] = PartAt(accepted', Len(stdout) + k)
        OBVIOUS
      <4>1. Len(stdout) + k \in 1..(2 * Len(accepted))
        BY <3>1, Lengths
      <4>2. buf[k] = PartAt(accepted, Len(stdout) + k)
        BY <1>0 DEF StreamInv, StreamInOrder
      <4> QED BY <1>0, <1>1, <4>1, <4>2, PartAtAppend DEF TypeOK
    <3> QED BY <2>1, <3>2, <3>3 DEF StreamInOrder
  <2>9. StreamLength' /\ Closing'
    <3>1. StreamLength'
      BY <1>0, <2>1, <2>4 DEF StreamInv, StreamLength
    <3>2. Closing'
      BY <1>0, <2>1 DEF StreamInv, Closing
    <3> QED BY <3>1, <3>2
  <2> QED BY <2>5, <2>6, <2>7, <2>8, <2>9 DEF Inv, StreamInv
<1>2. CASE /\ Len(ch) = ChanCap
           /\ dropped' = dropped + 1
           /\ UNCHANGED <<ch, accepted>>
  <2>1. /\ UNCHANGED <<main, chClosed, tick, runner, line, buf, stdout, werr,
                       done>>
        /\ dropped' \in Nat
    BY <1>0, <1>2 DEF Write, callerVars, runnerVars, TypeOK
  <2>2. TypeOK'
    BY <1>0, <1>2, <2>1 DEF TypeOK
  <2>3. StreamInv'
    BY <1>0, <1>2, <2>1 DEF StreamInv, ChannelHoldsRest, LineInHand,
       StreamInOrder, StreamLength, Closing, Received, Unwritten
  <2> QED BY <2>2, <2>3 DEF Inv
<1> QED BY <1>1, <1>2 DEF Write, Offer

\* Steps of the caller and of the clock that leave the stream alone.
LEMMA QuietStepsKeepInv ==
  ASSUME Inv, CloseChannel \/ AwaitDone \/ Panic \/ Tick \/ Ended
  PROVE  Inv'
<1>0. TypeOK /\ StreamInv
  BY DEF Inv
<1>1. /\ UNCHANGED <<ch, runner, line, buf, stdout, werr, done, accepted,
                     dropped>>
      /\ main' \in {"writing", "closing", "returned", "crashed"}
      /\ chClosed' \in BOOLEAN
      /\ tick' \in BOOLEAN
  BY <1>0 DEF CloseChannel, AwaitDone, Panic, Tick, Ended, callerVars,
              runnerVars, vars, TypeOK
<1>2. TypeOK'
  BY <1>0, <1>1 DEF TypeOK
<1>3. ChannelHoldsRest' /\ LineInHand' /\ StreamInOrder' /\ StreamLength'
  BY <1>0, <1>1 DEF StreamInv, ChannelHoldsRest, LineInHand, StreamInOrder,
                    StreamLength, Received, Unwritten
<1>4. Closing'
  <2>1. CASE CloseChannel
    BY <1>0, <2>1 DEF CloseChannel, StreamInv, Closing, runnerVars
  <2>2. CASE AwaitDone
    BY <1>0, <2>2 DEF AwaitDone, StreamInv, Closing, runnerVars
  <2>3. CASE Panic
    BY <1>0, <2>3 DEF Panic, StreamInv, Closing, runnerVars
  <2>4. CASE Tick
    BY <1>0, <2>4 DEF Tick, StreamInv, Closing, callerVars
  <2>5. CASE Ended
    BY <1>0, <2>5 DEF Ended, StreamInv, Closing, vars
  <2> QED BY <2>1, <2>2, <2>3, <2>4, <2>5
<1> QED BY <1>2, <1>3, <1>4 DEF Inv, StreamInv

LEMMA FlushOnTickKeepsInv ==
  ASSUME Inv, FlushOnTick
  PROVE  Inv'
<1>0. TypeOK /\ StreamInv /\ StreamInOrder /\ StreamLength
  BY DEF Inv, StreamInv
<1>1. /\ UNCHANGED <<main, chClosed, ch, runner, line, done, accepted,
                     dropped>>
      /\ tick' = FALSE
      /\ runner = "select"
      /\ Flush
      /\ accepted' = accepted
  BY DEF FlushOnTick, callerVars
<1>2. /\ buf' \in Seq(Part) /\ Len(buf') <= BufCap
      /\ stdout' \in Seq(Part)
      /\ werr' \in BOOLEAN
      /\ StreamInOrder'
      /\ Len(stdout') + Len(buf') = Len(stdout) + Len(buf)
      /\ werr => werr'
  BY <1>0, <1>1, FlushKeepsStream
<1>3. TypeOK'
  BY <1>0, <1>1, <1>2 DEF TypeOK
<1>4. Received' = Received /\ Unwritten' = Unwritten
  BY <1>1 DEF Received, Unwritten
<1>5. StreamLength'
  BY <1>0, <1>2, <1>4 DEF StreamLength
<1>6. ChannelHoldsRest' /\ LineInHand'
  BY <1>0, <1>1, <1>4 DEF StreamInv, ChannelHoldsRest, LineInHand
<1>7. Closing'
  BY <1>0, <1>1 DEF StreamInv, Closing
<1> QED BY <1>2, <1>3, <1>5, <1>6, <1>7 DEF Inv, StreamInv

LEMMA FinishKeepsInv ==
  ASSUME Inv, Finish
  PROVE  Inv'
<1>0. TypeOK /\ StreamInv /\ StreamInOrder /\ StreamLength
  BY DEF Inv, StreamInv
<1>1. /\ UNCHANGED <<main, chClosed, ch, tick, line, accepted, dropped>>
      /\ done' = TRUE /\ runner' = "exited"
      /\ runner = "select" /\ ch = <<>> /\ chClosed
      /\ Flush
      /\ accepted' = accepted
  BY DEF Finish, callerVars
<1>2. /\ buf' \in Seq(Part) /\ Len(buf') <= BufCap
      /\ stdout' \in Seq(Part)
      /\ werr' \in BOOLEAN
      /\ StreamInOrder'
      /\ Len(stdout') + Len(buf') = Len(stdout) + Len(buf)
      /\ werr => werr'
      /\ ~werr' => buf' = <<>>
  BY <1>0, <1>1, FlushKeepsStream
<1>3. TypeOK'
  BY <1>0, <1>1, <1>2 DEF TypeOK
<1>4. Received' = Received /\ Unwritten' = 0 /\ Unwritten = 0
  BY <1>1 DEF Received, Unwritten
<1>5. StreamLength'
  BY <1>0, <1>2, <1>4 DEF StreamLength
<1>6. ChannelHoldsRest' /\ LineInHand'
  BY <1>0, <1>1, <1>4 DEF StreamInv, ChannelHoldsRest, LineInHand
<1>7. Closing'
  BY <1>0, <1>1, <1>2 DEF StreamInv, Closing
<1> QED BY <1>2, <1>3, <1>5, <1>6, <1>7 DEF Inv, StreamInv

LEMMA ReceiveKeepsInv ==
  ASSUME Inv, Receive
  PROVE  Inv'
<1>0. TypeOK /\ StreamInv /\ ChannelHoldsRest /\ StreamLength
  BY DEF Inv, StreamInv
<1>1. /\ UNCHANGED <<main, chClosed, tick, buf, stdout, werr, done, accepted,
                     dropped>>
      /\ runner = "select" /\ runner' = "text"
      /\ ch # <<>>
      /\ line' = Head(ch) /\ ch' = Tail(ch)
  BY DEF Receive, callerVars
<1>2. /\ Len(ch) \in Nat /\ Len(ch) >= 1
      /\ Head(ch) = ch[1] /\ ch[1] \in Line
      /\ ch' \in Seq(Line) /\ Len(ch') = Len(ch) - 1
      /\ \A i \in 1..Len(ch') : ch'[i] = ch[i + 1]
  BY <1>0, <1>1 DEF TypeOK
<1>3. Received' = Received + 1
  BY <1>1, <1>2, Lengths DEF Received
<1>4. TypeOK'
  BY <1>0, <1>1, <1>2, WriterAssumption DEF TypeOK
<1>5. ChannelHoldsRest'
  <2> SUFFICES ASSUME NEW i \in 1..Len(ch')
               PROVE  ch'[i] = accepted[Received + 1 + i]
    BY <1>0, <1>1, <1>2, <1>3, Lengths DEF ChannelHoldsRest
  <2>1. i + 1 \in 1..Len(ch) /\ ch'[i] = ch[i + 1]
    BY <1>2
  <2>2. ch[i + 1] = accepted[Received + (i + 1)]
    BY <1>0, <2>1 DEF ChannelHoldsRest
  <2>3. Received + (i + 1) = Received + 1 + i
    BY <1>2, Lengths
  <2> QED BY <2>1, <2>2, <2>3
<1>6. LineInHand'
  <2>1. ch[1] = accepted[Received + 1]
    BY <1>0, <1>2 DEF ChannelHoldsRest
  <2> QED BY <1>1, <1>2, <1>3, <2>1, Lengths DEF LineInHand
<1>7. StreamInOrder'
  BY <1>0, <1>1 DEF StreamInv, StreamInOrder
<1>8. StreamLength'
  <2>1. Unwritten = 0 /\ Unwritten' = 2
    BY <1>1 DEF Unwritten
  <2>2. 2 * Received' - Unwritten' = 2 * Received - Unwritten
    BY <1>3, <2>1, Lengths
  <2> QED BY <1>0, <1>1, <2>2 DEF StreamLength
<1>9. Closing'
  BY <1>0, <1>1 DEF StreamInv, Closing
<1> QED BY <1>4, <1>5, <1>6, <1>7, <1>8, <1>9 DEF Inv, StreamInv

LEMMA WriteTextKeepsInv ==
  ASSUME Inv, WriteText
  PROVE  Inv'
<1>0. TypeOK /\ StreamInv /\ StreamInOrder /\ StreamLength /\ LineInHand
  BY DEF Inv, StreamInv
<1>1. /\ UNCHANGED <<main, chClosed, ch, tick, line, done, accepted, dropped>>
      /\ runner = "text" /\ runner' = "newline"
      /\ Put(<<line, "text">>)
      /\ accepted' = accepted
  BY DEF WriteText, callerVars
<1>2. /\ Received \in 1..Len(accepted)
      /\ line = accepted[Received] /\ line \in Line
  BY <1>0, <1>1, Lengths DEF LineInHand, TypeOK
<1>3. Unwritten = 2 /\ Unwritten' = 1 /\ Received' = Received
  BY <1>1 DEF Unwritten, Received
<1>4. ~werr => <<line, "text">> = PartAt(accepted, Len(stdout) + Len(buf) + 1)
  <2> SUFFICES ASSUME ~werr
               PROVE  <<line, "text">>
                        = PartAt(accepted, Len(stdout) + Len(buf) + 1)
    OBVIOUS
  <2>1. Len(stdout) + Len(buf) + 1 = 2 * Received - 1
    BY <1>0, <1>3, Lengths DEF StreamLength
  <2> QED BY <1>0, <1>2, <2>1, PartAtLine DEF TypeOK
<1>5. <<line, "text">> \in Part
  BY <1>2 DEF Part
<1>6. /\ buf' \in Seq(Part) /\ Len(buf') <= BufCap
      /\ stdout' \in Seq(Part)
      /\ werr' \in BOOLEAN
      /\ StreamInOrder'
      /\ Len(stdout') + Len(buf') <= Len(stdout) + Len(buf) + 1
      /\ ~werr' => /\ ~werr
                   /\ Len(stdout') + Len(buf') = Len(stdout) + Len(buf) + 1
  BY <1>0, <1>1, <1>4, <1>5, PutKeepsStream
<1>7. TypeOK'
  BY <1>0, <1>1, <1>6 DEF TypeOK
<1>8. StreamLength'
  <2>1. /\ Len(stdout) + Len(buf) <= 2 * Received - 2
        /\ ~werr => Len(stdout) + Len(buf) = 2 * Received - 2
    BY <1>0, <1>3 DEF StreamLength
  <2>2. Len(stdout') + Len(buf') <= 2 * Received - 1
    <3>1. Len(stdout') \in Nat /\ Len(buf') \in Nat
      BY <1>6
    <3> QED BY <1>6, <2>1, <3>1, Lengths
  <2>3. ~werr' => Len(stdout') + Len(buf') = 2 * Received - 1
    BY <1>6, <2>1, Lengths
  <2> QED BY <1>3, <2>2, <2>3 DEF StreamLength
<1>9. ChannelHoldsRest' /\ LineInHand' /\ Closing'
  BY <1>0, <1>1, <1>2, <1>3
     DEF StreamInv, ChannelHoldsRest, LineInHand, Closing
<1> QED BY <1>6, <1>7, <1>8, <1>9 DEF Inv, StreamInv

LEMMA WriteNewlineKeepsInv ==
  ASSUME Inv, WriteNewline
  PROVE  Inv'
<1>0. TypeOK /\ StreamInv /\ StreamInOrder /\ StreamLength /\ LineInHand
  BY DEF Inv, StreamInv
<1>1. /\ UNCHANGED <<main, chClosed, ch, tick, done, accepted, dropped>>
      /\ runner = "newline" /\ runner' = "select" /\ line' = NoLine
      /\ Put(<<line, "newline">>)
      /\ accepted' = accepted
  BY DEF WriteNewline, callerVars
<1>2. /\ Received \in 1..Len(accepted)
      /\ line = accepted[Received] /\ line \in Line
  BY <1>0, <1>1, Lengths DEF LineInHand, TypeOK
<1>3. Unwritten = 1 /\ Unwritten' = 0 /\ Received' = Received
  BY <1>1 DEF Unwritten, Received
<1>4. ~werr =>
        <<line, "newline">> = PartAt(accepted, Len(stdout) + Len(buf) + 1)
  <2> SUFFICES ASSUME ~werr
               PROVE  <<line, "newline">>
                        = PartAt(accepted, Len(stdout) + Len(buf) + 1)
    OBVIOUS
  <2>1. Len(stdout) + Len(buf) + 1 = 2 * Received
    BY <1>0, <1>3, Lengths DEF StreamLength
  <2> QED BY <1>0, <1>2, <2>1, PartAtLine DEF TypeOK
<1>5. <<line, "newline">> \in Part
  BY <1>2 DEF Part
<1>6. /\ buf' \in Seq(Part) /\ Len(buf') <= BufCap
      /\ stdout' \in Seq(Part)
      /\ werr' \in BOOLEAN
      /\ StreamInOrder'
      /\ Len(stdout') + Len(buf') <= Len(stdout) + Len(buf) + 1
      /\ ~werr' => /\ ~werr
                   /\ Len(stdout') + Len(buf') = Len(stdout) + Len(buf) + 1
  BY <1>0, <1>1, <1>4, <1>5, PutKeepsStream
<1>7. TypeOK'
  BY <1>0, <1>1, <1>6 DEF TypeOK
<1>8. StreamLength'
  <2>1. /\ Len(stdout) + Len(buf) <= 2 * Received - 1
        /\ ~werr => Len(stdout) + Len(buf) = 2 * Received - 1
    BY <1>0, <1>3 DEF StreamLength
  <2>2. Len(stdout') + Len(buf') <= 2 * Received - 0
    <3>1. Len(stdout') \in Nat /\ Len(buf') \in Nat
      BY <1>6
    <3> QED BY <1>6, <2>1, <3>1, Lengths
  <2>3. ~werr' => Len(stdout') + Len(buf') = 2 * Received - 0
    BY <1>6, <2>1, Lengths
  <2> QED BY <1>3, <2>2, <2>3 DEF StreamLength
<1>9. ChannelHoldsRest' /\ LineInHand' /\ Closing'
  BY <1>0, <1>1, <1>2, <1>3
     DEF StreamInv, ChannelHoldsRest, LineInHand, Closing
<1> QED BY <1>6, <1>7, <1>8, <1>9 DEF Inv, StreamInv

LEMMA NextKeepsInv == Inv /\ [Next]_vars => Inv'
<1> SUFFICES ASSUME Inv, [Next]_vars PROVE Inv'
  OBVIOUS
<1>1. ASSUME NEW l \in Line, Write(l) PROVE Inv'
  BY <1>1, WriteKeepsInv
<1>2. CASE CloseChannel \/ AwaitDone \/ Panic \/ Tick \/ Ended
  BY <1>2, QuietStepsKeepInv
<1>3. CASE FlushOnTick
  BY <1>3, FlushOnTickKeepsInv
<1>4. CASE Receive
  BY <1>4, ReceiveKeepsInv
<1>5. CASE WriteText
  BY <1>5, WriteTextKeepsInv
<1>6. CASE WriteNewline
  BY <1>6, WriteNewlineKeepsInv
<1>7. CASE Finish
  BY <1>7, FinishKeepsInv
<1>8. CASE UNCHANGED vars
  BY <1>8, QuietStepsKeepInv DEF vars, Inv, TypeOK, StreamInv,
     ChannelHoldsRest, LineInHand, StreamInOrder, StreamLength, Closing,
     Received, Unwritten
<1> QED BY <1>1, <1>2, <1>3, <1>4, <1>5, <1>6, <1>7, <1>8
        DEF Next, Caller, Runner

-----------------------------------------------------------------------------
\* The types, and with them the capacities of the channel and of the buffer,
\* hold in every reachable state.
THEOREM TypeCorrect == Spec => []TypeOK
<1>1. Inv => TypeOK
  BY DEF Inv
<1> QED BY <1>1, InitInv, NextKeepsInv, PTL DEF Spec

\* The stream invariant holds in every reachable state.
THEOREM StreamCorrect == Spec => []StreamInv
<1>1. Inv => StreamInv
  BY DEF Inv
<1> QED BY <1>1, InitInv, NextKeepsInv, PTL DEF Spec

\* What is on stdout is always the beginning of the accepted lines, in order
\* (main.go:111-135).
THEOREM OutputInOrder == Spec => []StdoutInOrder
<1>1. Inv => StdoutInOrder
  <2> SUFFICES ASSUME Inv PROVE StdoutInOrder
    OBVIOUS
  <2>1. Len(stdout) <= 2 * Len(accepted)
    BY Lengths DEF Inv, StreamInv, StreamLength
  <2> QED BY <2>1 DEF Inv, StreamInv, StreamInOrder, StdoutInOrder
<1> QED BY <1>1, InitInv, NextKeepsInv, PTL DEF Spec

\* When Close has returned and stdout never failed, every accepted line is
\* on stdout (main.go:116-120 and 137-140).
THEOREM CloseFlushesAll == Spec => []NothingLeftAfterClose
<1>1. Inv => NothingLeftAfterClose
  <2> SUFFICES ASSUME Inv, main = "returned", ~werr
               PROVE  Len(stdout) = 2 * Len(accepted)
    BY DEF NothingLeftAfterClose
  <2>1. runner = "exited" /\ ch = <<>> /\ buf = <<>>
    BY DEF Inv, StreamInv, Closing
  <2>2. Len(ch) = 0 /\ Len(buf) = 0 /\ Unwritten = 0
    BY <2>1 DEF Unwritten
  <2>3. Received = Len(accepted)
    BY <2>2, Lengths DEF Received
  <2>4. Len(stdout) + Len(buf) = 2 * Received - Unwritten
    BY DEF Inv, StreamInv, StreamLength
  <2> QED BY <2>2, <2>3, <2>4, Lengths
<1> QED BY <1>1, InitInv, NextKeepsInv, PTL DEF Spec

\* A line is dropped only while ChanCap accepted lines have not reached
\* stdout whole (main.go:130-135).
THEOREM DropsAreJustified == Spec => DropsOnlyWhenBehind
<1>1. Inv /\ [Next]_vars =>
        [dropped' # dropped =>
           2 * Len(accepted) - Len(stdout) >= 2 * ChanCap]_vars
  <2> SUFFICES ASSUME Inv, Next, dropped' # dropped
               PROVE  2 * Len(accepted) - Len(stdout) >= 2 * ChanCap
    OBVIOUS
  <2>1. PICK l \in Line : Write(l)
    BY DEF Next, Caller, Runner, CloseChannel, AwaitDone, Panic, Tick, Ended,
           FlushOnTick, Receive, WriteText, WriteNewline, Finish, vars
  <2>2. Len(ch) = ChanCap
    BY <2>1 DEF Write, Offer
  <2>3. Len(stdout) + Len(buf) <= 2 * Received
    BY Lengths DEF Inv, StreamInv, StreamLength
  <2>4. Received = Len(accepted) - ChanCap
    BY <2>2 DEF Received
  <2> QED BY <2>2, <2>3, <2>4, Lengths
<1> QED BY <1>1, InitInv, NextKeepsInv, PTL DEF Spec, DropsOnlyWhenBehind

-----------------------------------------------------------------------------
(***************************************************************************)
(* The printer implements the lossy log (safety: that the lines get shown  *)
(* and that Close returns needs the fairness, and TLC).  A write of the    *)
(* line is Accept or Drop, a buffer that spills Show, a failing one Break. *)
(***************************************************************************)
\* A beginning of the stream of the accepted lines is a beginning of what
\* the log renders.
LEMMA PrefixIsRendered ==
  ASSUME NEW parts \in Seq(Part), NEW lines \in Seq(Line),
         Len(parts) <= 2 * Len(lines),
         \A k \in 1..Len(parts) : parts[k] = PartAt(lines, k)
  PROVE  parts = SubSeq(Log!Rendered(lines), 1, Len(parts))
<1> DEFINE r == Log!Rendered(lines)
<1>1. /\ Len(lines) \in Nat
      /\ Len(parts) \in Nat
      /\ \A k \in 1..(2 * Len(lines)) : /\ (k + 1) \div 2 \in 1..Len(lines)
                                        /\ PartAt(lines, k) \in Part
  <2>1. Len(lines) \in Nat /\ Len(parts) \in Nat
    OBVIOUS
  <2>2. \A k \in 1..(2 * Len(lines)) : (k + 1) \div 2 \in 1..Len(lines)
    BY <2>1
  <2> QED BY <2>1, <2>2 DEF PartAt, Part
<1>2. \A k \in 1..(2 * Len(lines)) : r[k] = PartAt(lines, k)
  BY DEF Log!Rendered, Log!PartAt, PartAt
<1>3. r \in [1..(2 * Len(lines)) -> Part]
  BY <1>1 DEF Log!Rendered, Log!PartAt, PartAt
<1>4. r \in Seq(Part) /\ Len(r) = 2 * Len(lines)
  <2>1. \A n \in Nat : \A f \in [1..n -> Part] :
          f \in Seq(Part) /\ Len(f) = n
    OBVIOUS
  <2>2. 2 * Len(lines) \in Nat
    BY <1>1
  <2> QED BY <1>3, <2>1, <2>2, Zenon
<1> HIDE DEF r
<1>5. /\ SubSeq(r, 1, Len(parts)) \in Seq(Part)
      /\ Len(SubSeq(r, 1, Len(parts))) = Len(parts)
      /\ \A k \in 1..Len(parts) : SubSeq(r, 1, Len(parts))[k] = r[k]
  BY <1>1, <1>4
<1>6. \A k \in 1..Len(parts) : parts[k] = SubSeq(r, 1, Len(parts))[k]
  BY <1>1, <1>2, <1>5
<1>7. parts = SubSeq(r, 1, Len(parts))
  BY <1>5, <1>6, SeqEqual
<1> QED BY <1>7 DEF r

LEMMA WholeIsRendered ==
  ASSUME NEW parts \in Seq(Part), NEW lines \in Seq(Line),
         Len(parts) = 2 * Len(lines),
         \A k \in 1..Len(parts) : parts[k] = PartAt(lines, k)
  PROVE  parts = Log!Rendered(lines)
<1>1. Len(parts) \in Nat
  OBVIOUS
<1>2. parts = [k \in 1..Len(parts) |-> parts[k]]
  OBVIOUS
<1>3. Log!Rendered(lines) = [k \in 1..Len(parts) |-> PartAt(lines, k)]
  BY DEF Log!Rendered, Log!PartAt, PartAt
<1> QED BY <1>2, <1>3

\* A failing flush takes nothing back from stdout.
LEMMA FlushFailsAdds ==
  ASSUME FlushFails, TypeOK
  PROVE  ~werr /\ werr' /\ Len(stdout') >= Len(stdout)
<1>1. PICK n \in 0..(Len(buf) - 1) : stdout' = stdout \o SubSeq(buf, 1, n)
  BY DEF FlushFails
<1>2. SubSeq(buf, 1, n) \in Seq(Part) /\ Len(SubSeq(buf, 1, n)) = n
  BY DEF TypeOK
<1>3. Len(stdout') = Len(stdout) + n
  BY <1>1, <1>2, ConcatProperties DEF TypeOK
<1>4. Len(stdout) \in Nat /\ n \in Nat
  BY DEF TypeOK
<1> QED BY <1>3, <1>4 DEF FlushFails

\* A step of the goroutine that adds to stdout, or finds it broken, is a
\* step of the log: what is added is the next stretch of the accepted lines.
LEMMA OutputStepsRefine ==
  ASSUME Inv, Inv', Alive, ~werr,
         UNCHANGED <<main, accepted, dropped>>,
         \/ ~werr' /\ Len(stdout') > Len(stdout)
         \/ werr' /\ Len(stdout') >= Len(stdout)
  PROVE  Log!Show \/ Log!Break
<1>1. LogPhase \in {"open", "closing"} /\ LogPhase' = LogPhase
  BY DEF Alive, LogPhase, Inv, TypeOK
<1>2. /\ stdout' \in Seq(Part) /\ accepted' \in Seq(Line)
      /\ ch' \in Seq(Line) /\ buf' \in Seq(Part)
      /\ werr' \in BOOLEAN
      /\ \A k \in 1..Len(stdout') : stdout'[k] = PartAt(accepted', k)
      /\ Len(stdout') + Len(buf')
           <= 2 * (Len(accepted') - Len(ch')) - Unwritten'
      /\ Unwritten' \in 0..2
  BY DEF Inv, TypeOK, StreamInv, StreamInOrder, StreamLength, Received,
         Unwritten
<1>3. Len(stdout') <= 2 * Len(accepted')
  BY <1>2
<1>4. stdout' = SubSeq(Log!Rendered(accepted'), 1, Len(stdout'))
  BY <1>2, <1>3, PrefixIsRendered
<1>5. /\ Len(stdout) \in Nat /\ Len(stdout') \in Nat /\ Len(accepted) \in Nat
      /\ accepted' = accepted /\ dropped' = dropped
  BY <1>2, Lengths
<1>6. CASE ~werr' /\ Len(stdout') > Len(stdout)
  <2>1. Len(stdout') \in (Len(stdout) + 1)..(2 * Len(accepted))
    BY <1>3, <1>5, <1>6
  <2>2. werr' = werr
    BY <1>2, <1>6 DEF Inv, TypeOK
  <2> QED BY <1>1, <1>4, <1>5, <2>1, <2>2 DEF Log!Show
<1>7. CASE werr' /\ Len(stdout') >= Len(stdout)
  <2>1. Len(stdout') \in Len(stdout)..(2 * Len(accepted))
    BY <1>3, <1>5, <1>7
  <2>2. werr' = TRUE
    BY <1>2, <1>7
  <2> QED BY <1>1, <1>4, <1>5, <2>1, <2>2 DEF Log!Break
<1> QED BY <1>6, <1>7

\* What the buffer does to stdout: nothing, or an output step of the log.
LEMMA FlushRefines ==
  ASSUME Inv, Inv', Alive, Flush, UNCHANGED <<main, accepted, dropped>>
  PROVE  Log!Show \/ Log!Break \/ UNCHANGED Log!vars
<1>1. TypeOK /\ StreamInOrder /\ accepted' = accepted
  BY DEF Inv, StreamInv
<1>2. CASE FlushOK
  <2>1. /\ Len(stdout') = Len(stdout) + Len(buf)
        /\ ~werr /\ ~werr'
        /\ stdout' = stdout \o buf
        /\ werr' = werr
    BY <1>1, <1>2, FlushOKKeepsStream DEF FlushOK
  <2>2. CASE buf = <<>>
    <3>1. stdout' = stdout
      BY <1>1, <2>1, <2>2 DEF TypeOK
    <3> QED BY <2>1, <3>1 DEF Log!vars, LogPhase
  <2>3. CASE buf # <<>>
    <3>1. Len(stdout') > Len(stdout)
      BY <1>1, <2>1, <2>3, Lengths DEF TypeOK
    <3> QED BY <2>1, <3>1, OutputStepsRefine
  <2> QED BY <2>2, <2>3
<1>3. CASE FlushFails
  <2>1. ~werr /\ werr' /\ Len(stdout') >= Len(stdout)
    BY <1>1, <1>3, FlushFailsAdds DEF FlushFails
  <2> QED BY <2>1, OutputStepsRefine
<1>4. CASE werr /\ UNCHANGED <<buf, stdout, werr>>
  BY <1>4 DEF Log!vars, LogPhase
<1> QED BY <1>2, <1>3, <1>4 DEF Flush

LEMMA PutRefines ==
  ASSUME Inv, Inv', Alive, NEW part, Put(part),
         UNCHANGED <<main, accepted, dropped>>
  PROVE  Log!Show \/ Log!Break \/ UNCHANGED Log!vars
<1>1. TypeOK /\ BufCap \in Nat \ {0}
  BY WriterAssumption DEF Inv
<1>2. CASE UNCHANGED <<stdout, werr>>
  BY <1>2 DEF Log!vars, LogPhase
<1>3. CASE /\ ~werr
           /\ Len(buf) = BufCap
           /\ stdout' = stdout \o buf
           /\ UNCHANGED werr
  <2>1. Len(stdout') = Len(stdout) + Len(buf)
    BY <1>1, <1>3, ConcatProperties DEF TypeOK
  <2>2. Len(stdout') > Len(stdout)
    BY <1>1, <1>3, <2>1, Lengths
  <2> QED BY <1>3, <2>2, OutputStepsRefine
<1>4. CASE FlushFails
  <2>1. ~werr /\ werr' /\ Len(stdout') >= Len(stdout)
    BY <1>1, <1>4, FlushFailsAdds DEF FlushFails
  <2> QED BY <2>1, OutputStepsRefine
<1> QED BY <1>2, <1>3, <1>4 DEF Put

LEMMA CallerRefines ==
  ASSUME Inv, Caller
  PROVE  Log!Next
<1>0. TypeOK
  BY DEF Inv
<1>1. ASSUME NEW l \in Line, Write(l)
      PROVE  Log!Next
  <2>1. /\ LogPhase = "open" /\ LogPhase' = LogPhase
        /\ UNCHANGED <<stdout, werr>>
    BY <1>1 DEF Write, LogPhase, callerVars, runnerVars
  <2>2. CASE /\ accepted' = Append(accepted, l)
             /\ UNCHANGED dropped
    BY <2>1, <2>2 DEF Log!Next, Log!Accept
  <2>3. CASE /\ Len(ch) = ChanCap
             /\ dropped' = dropped + 1
             /\ UNCHANGED <<ch, accepted>>
    <3>1. Len(stdout) + Len(buf) <= 2 * Received
      BY Lengths DEF Inv, StreamInv, StreamLength
    <3>2. Received = Len(accepted) - ChanCap
      BY <2>3 DEF Received
    <3>3. 2 * Len(accepted) - Len(stdout) >= 2 * ChanCap
      BY <2>3, <3>1, <3>2, Lengths
    <3> QED BY <2>1, <2>3, <3>3 DEF Log!Next, Log!Drop
  <2> QED BY <1>1, <2>2, <2>3 DEF Write, Offer
<1>2. CASE CloseChannel
  BY <1>2 DEF CloseChannel, LogPhase, runnerVars, Log!Next, Log!Close
<1>3. CASE AwaitDone
  <2>1. /\ LogPhase = "closing" /\ LogPhase' = "returned"
        /\ UNCHANGED <<accepted, dropped, stdout, werr>>
        /\ done
    BY <1>3 DEF AwaitDone, LogPhase, runnerVars
  <2>2. werr \/ stdout = Log!Rendered(accepted)
    <3> SUFFICES ASSUME ~werr PROVE stdout = Log!Rendered(accepted)
      OBVIOUS
    <3>1. runner = "exited" /\ ch = <<>> /\ buf = <<>>
      BY <2>1 DEF Inv, StreamInv, Closing
    <3>2. Len(ch) = 0 /\ Len(buf) = 0 /\ Unwritten = 0
      BY <3>1 DEF Unwritten
    <3>3. Received = Len(accepted)
      BY <3>2, Lengths DEF Received
    <3>4. Len(stdout) = 2 * Len(accepted)
      BY <3>2, <3>3, Lengths DEF Inv, StreamInv, StreamLength
    <3> QED BY <1>0, <3>4, WholeIsRendered
            DEF Inv, TypeOK, StreamInv, StreamInOrder
  <2> QED BY <2>1, <2>2 DEF Log!Next, Log!Return
<1>4. CASE Panic
  BY <1>4 DEF Panic, LogPhase, runnerVars, Log!Next, Log!Crash
<1> QED BY <1>1, <1>2, <1>3, <1>4 DEF Caller

LEMMA RunnerRefines ==
  ASSUME Inv, Inv', Runner
  PROVE  Log!Next \/ UNCHANGED Log!vars
<1>1. Alive /\ UNCHANGED <<main, accepted, dropped>>
  BY DEF Runner, FlushOnTick, Receive, WriteText, WriteNewline, Finish,
         callerVars
<1>2. CASE FlushOnTick \/ Finish
  <2>1. Flush
    BY <1>2 DEF FlushOnTick, Finish
  <2> QED BY <1>1, <2>1, FlushRefines DEF Log!Next
<1>3. CASE Receive
  BY <1>1, <1>3 DEF Receive, Log!vars, LogPhase
<1>4. CASE WriteText
  <2>1. Put(<<line, "text">>)
    BY <1>4 DEF WriteText
  <2> QED BY <1>1, <2>1, PutRefines DEF Log!Next
<1>5. CASE WriteNewline
  <2>1. Put(<<line, "newline">>)
    BY <1>5 DEF WriteNewline
  <2> QED BY <1>1, <2>1, PutRefines DEF Log!Next
<1> QED BY <1>2, <1>3, <1>4, <1>5 DEF Runner

\* The printer is a lossy log, whatever the capacities: every step of it is
\* a step of LossyLog, or one the log does not see.
THEOREM ImplementsLog == Spec => Log!Spec
<1>1. Init => Log!Init
  BY DEF Init, LogPhase, Log!Init
<1>2. Inv /\ Inv' /\ [Next]_vars => [Log!Next]_(Log!vars)
  <2> SUFFICES ASSUME Inv, Inv', [Next]_vars
               PROVE  Log!Next \/ UNCHANGED Log!vars
    OBVIOUS
  <2>1. CASE Caller
    BY <2>1, CallerRefines
  <2>2. CASE Runner
    BY <2>2, RunnerRefines
  <2>3. CASE Tick \/ Ended \/ UNCHANGED vars
    BY <2>3 DEF Tick, Ended, vars, callerVars, Log!vars, LogPhase
  <2> QED BY <2>1, <2>2, <2>3 DEF Next
<1> QED BY <1>1, <1>2, InitInv, NextKeepsInv, PTL DEF Spec, Log!Spec
=============================================================================
