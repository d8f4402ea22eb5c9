-------------------------- MODULE ExecStreamProofs --------------------------
(***************************************************************************)
(* ExecStream, for any output and any limits, with all faults: what the    *)
(* caller gets and in which order, how much still arrives after a limit,   *)
(* and what the reported consumption is.                                   *)
(***************************************************************************)
EXTENDS ExecStream, SequenceTheorems, TLAPS

\* A chunk is late only after the limit, and streamOutput sees the limit before
\* it sends another one.
LateInv ==
    /\ late \in {0, 1}
    /\ stopped = FALSE => late = 0
    /\ late = 1 => sp # "send"

\* What execAttach has read was true when it was read, and counters only grow.
CountersInv ==
    /\ cpu \in Base .. MaxUse /\ net \in Base .. MaxUse
    /\ curCPU \in 0 .. cpu /\ curNet \in 0 .. net

\* It reports once, on its way out, from its last reading.
ReportInv ==
    consumed = IF pc = "returned"
               THEN <<[cpu |-> Sub(curCPU, Base) \div NsPerMs, net |-> Sub(curNet, Base)]>>
               ELSE <<>>

LEMMA LateInductive == Spec => []LateInv
<1>1. Init => LateInv
  BY DEF Init, LateInv
<1>2. LateInv /\ [Next]_vars => LateInv'
  <2> SUFFICES ASSUME LateInv, [Next]_vars PROVE LateInv'
    OBVIOUS
  <2> USE DEF LateInv, run, process, exec, stream, caller
  <2>1. CASE Write \/ UseResources \/ ProcessEnds \/ CloseChannels
    BY <2>1 DEF Write, UseResources, ProcessEnds, CloseChannels
  <2>2. CASE ReadHeader \/ ReadPayload \/ FrameDone
    BY <2>2 DEF ReadHeader, ReadPayload, FrameDone, EndStream
  <2>3. CASE SelectStop
    BY <2>3 DEF SelectStop
  <2>4. CASE Send
    <3>1. sp = "send" /\ sp' # "send" /\ UNCHANGED stopped
      BY <2>4 DEF Send
    <3>2. late' = late \/ late' = late + 1
      BY <2>4 DEF Send
    <3>3. stopped = FALSE => late' = late
      BY <2>4 DEF Send
    <3>4. late = 0
      BY <3>1
    <3>5. late' \in {0, 1}
      BY <3>2, <3>4
    <3> QED BY <3>1, <3>3, <3>4, <3>5
  <2>5. CASE Tick
    BY <2>5 DEF Tick
  <2>6. CASE DoneStreaming \/ FinalStats \/ SendConsumed
    BY <2>6 DEF DoneStreaming, FinalStats, SendConsumed
  <2>7. CASE UNCHANGED vars
    BY <2>7 DEF vars
  <2> QED BY <2>1, <2>2, <2>3, <2>4, <2>5, <2>6, <2>7 DEF Next, StreamStep, ExecStep
<1> QED BY <1>1, <1>2, PTL DEF Spec

\* After a limit, streamOutput sends at most the chunk it was about to send,
\* however much the process has written.
THEOREM OneLateChunk == Spec => []AtMostOneLateChunk
<1>1. LateInv => AtMostOneLateChunk
  BY DEF LateInv, AtMostOneLateChunk
<1> QED BY LateInductive, <1>1, PTL

\* A reading is one of the counters, or zero.
LEMMA ReadingsAreReal ==
    ASSUME CountersInv, NEW ok
    PROVE  checkLimits(ok).cpu \in 0 .. cpu /\ checkLimits(ok).net \in 0 .. net
  BY StreamConstantsOK DEF CountersInv, checkLimits

LEMMA CountersInductive == Spec => [](CountersInv /\ ReportInv)
<1> USE StreamConstantsOK
<1>1. Init => CountersInv /\ ReportInv
  BY DEF Init, CountersInv, ReportInv
<1>2. CountersInv /\ ReportInv /\ [Next]_vars => CountersInv' /\ ReportInv'
  <2> SUFFICES ASSUME CountersInv, ReportInv, [Next]_vars PROVE CountersInv' /\ ReportInv'
    OBVIOUS
  <2> USE DEF run, process, exec, stream, caller
  <2>1. CASE Write \/ ProcessEnds \/ CloseChannels \/ StreamStep \/ UNCHANGED vars
    <3>1. UNCHANGED <<cpu, net, exec>>
      BY <2>1 DEF Write, ProcessEnds, CloseChannels, StreamStep, ReadHeader, ReadPayload,
         FrameDone, EndStream, SelectStop, Send, vars
    <3> QED BY <3>1 DEF CountersInv, ReportInv, Sub
  <2>2. CASE UseResources
    <3>1. UNCHANGED exec /\ CountersInv'
      BY <2>2 DEF UseResources, CountersInv
    <3> QED BY <3>1 DEF ReportInv, Sub
  <2>3. CASE Tick
    <3>1. PICK ok : curCPU' = checkLimits(ok).cpu /\ curNet' = checkLimits(ok).net
      BY <2>3 DEF Tick
    <3>2. UNCHANGED <<cpu, net, consumed>> /\ pc = "loop" /\ pc' # "returned"
      BY <2>3 DEF Tick
    <3> QED BY <3>1, <3>2, ReadingsAreReal DEF CountersInv, ReportInv
  <2>4. CASE FinalStats
    <3>1. PICK ok : curCPU' = checkLimits(ok).cpu /\ curNet' = checkLimits(ok).net
      BY <2>4 DEF FinalStats
    <3>2. UNCHANGED <<cpu, net, consumed>> /\ pc = "final" /\ pc' # "returned"
      BY <2>4 DEF FinalStats
    <3> QED BY <3>1, <3>2, ReadingsAreReal DEF CountersInv, ReportInv
  <2>5. CASE DoneStreaming
    BY <2>5 DEF DoneStreaming, CountersInv, ReportInv
  <2>6. CASE SendConsumed
    <3>1. UNCHANGED <<cpu, net, curCPU, curNet>> /\ pc = "consumed" /\ pc' = "returned"
      BY <2>6 DEF SendConsumed
    <3>2. consumed' = Append(<<>>, [cpu |-> Sub(curCPU, Base) \div NsPerMs, net |-> Sub(curNet, Base)])
      BY <2>6, <3>1 DEF SendConsumed, ReportInv
    <3> QED BY <3>1, <3>2 DEF CountersInv, ReportInv, Sub
  <2> QED BY <2>1, <2>2, <2>3, <2>4, <2>5, <2>6 DEF Next, ExecStep
<1> QED BY <1>1, <1>2, PTL DEF Spec

\* Unsigned subtraction of a counter's earlier value is exact.
LEMMA SubIsExact ==
    ASSUME NEW a \in Base .. MaxUse
    PROVE  Sub(a, Base) = a - Base
<1>1. a - Base \in 0 .. 2^W - 1 /\ (a + 2^W) - Base = (a - Base) + 2^W
  BY StreamConstantsOK
<1> DEFINE d == a - Base
           m == 2^W
<1>2. m \in Nat \ {0} /\ d \in 0 .. m - 1
  BY <1>1, StreamConstantsOK
<1> HIDE DEF d, m
<1>3. (d + m) % m = d
  BY <1>2
<1> QED BY <1>1, <1>3 DEF Sub, d, m

LEMMA DivRoundsDown ==
    ASSUME NEW a \in Nat, NEW n \in Nat \ {0}
    PROVE  (a \div n) * n <= a
  OBVIOUS

\* execAttach never reports more than the container used since the run began,
\* for every limit, unless its last statistics could not be had.
THEOREM ReportsAreReal == Spec => []ConsumedIsReal
<1>1. CountersInv /\ ReportInv => ConsumedIsReal
  <2> SUFFICES ASSUME CountersInv, ReportInv, curCPU >= Base, curNet >= Base,
                      NEW i \in DOMAIN consumed
               PROVE  /\ consumed[i].cpu * NsPerMs <= cpu - Base
                      /\ consumed[i].net <= net - Base
    BY DEF ConsumedIsReal
  <2>1. curCPU \in Base .. MaxUse /\ curNet \in Base .. MaxUse
    BY StreamConstantsOK DEF CountersInv
  <2>2. consumed[i] = [cpu |-> (curCPU - Base) \div NsPerMs, net |-> curNet - Base]
    BY <2>1, SubIsExact DEF ReportInv
  <2>3. ((curCPU - Base) \div NsPerMs) * NsPerMs <= curCPU - Base
    <3>1. curCPU - Base \in Nat /\ NsPerMs \in Nat \ {0}
      BY <2>1, StreamConstantsOK
    <3> QED BY <3>1, DivRoundsDown
  <2> QED BY <2>1, <2>2, <2>3, StreamConstantsOK DEF CountersInv
<1> QED BY CountersInductive, <1>1, PTL

(***************************************************************************)
(* What the caller gets.                                                   *)
(***************************************************************************)
Channels == {"stdout", "stderr"}

\* The output for channel ch up to offset off of the frame at hand.
Sent(ch, off) ==
    {b \in Output(Len(frames), ch) : b[1] < pos.frame \/ (b[1] = pos.frame /\ b[2] <= off)}

InOrder(s) == \A i, j \in DOMAIN s : i < j => Precedes(s[i], s[j])

\* streamOutput reads no further than the process has written.
PosInv ==
    /\ pos.frame <= emitted + 1
    /\ sp = "header" => pos.off = 0
    /\ sp \in {"read", "select", "send"} => pos.frame <= emitted /\ pos.off <= frames[pos.frame].len

\* The caller has what was read, but for the chunk at hand.
SentUpTo(off) ==
    /\ off \in 0 .. MaxLen /\ (off > 0 => pos.frame <= emitted)
    /\ sp \in {"header", "read"} => off = pos.off
    /\ sp \in {"select", "send"} =>
          off + Len(chunk) = pos.off /\ chunk = Bytes(pos.frame, off, Len(chunk))
    /\ \A ch \in Channels : Range(got[ch]) = Sent(ch, off)

\* Without a limit, execAttach leaves its loop when streamOutput is done, which,
\* unless the stream breaks, is when the process has ended and all is read.
ExitInv ==
    /\ pc = "loop" => ~stopped /\ code = "none"
    /\ pc = "final" \/ code = "exit" => sp = "done" /\ ~stopped
    /\ pc # "loop" /\ sp # "done" => stopped
    /\ closed => pc = "returned"
    /\ ~alive /\ ~stopped => emitted = Len(frames)
    /\ sp = "done" /\ ~broken /\ ~stopped => pos.frame = Len(frames) + 1

DeliveryInv ==
    /\ PosInv
    /\ \E off \in Nat : SentUpTo(off)
    /\ \A ch \in Channels : InOrder(got[ch])

(***************************************************************************)
(* Types.                                                                  *)
(***************************************************************************)
RunOK ==
    /\ frames \in Seq(Frame) /\ merged \in BOOLEAN /\ alive \in BOOLEAN
    /\ emitted \in 0 .. Len(frames)
    /\ cpu \in Base .. MaxUse /\ net \in Base .. MaxUse

ExecOK ==
    /\ elapsed \in 0 .. RunTime + 2 /\ stopped \in BOOLEAN
    /\ pc \in {"loop", "final", "consumed", "returned"}
    /\ code \in {"none", "limit", "exit"}

StreamOK ==
    /\ sp \in {"header", "read", "select", "send", "done"} /\ broken \in BOOLEAN
    /\ pos \in [frame : 1 .. Len(frames) + 1, off : 0 .. MaxLen]
    /\ chunk \in Seq(Nat \X Nat) /\ Len(chunk) <= BufLength

CallerOK ==
    /\ got \in [Channels -> Seq(Nat \X Nat)] /\ late \in Nat
    /\ closed \in BOOLEAN /\ panicked \in BOOLEAN

StreamInv == RunOK /\ ExecOK /\ StreamOK /\ CallerOK /\ PosInv

LEMMA SubIsNat ==
    ASSUME NEW a \in Nat
    PROVE  Sub(a, Base) \in Nat
<1> DEFINE m == 2^W
           d == (a + m) - Base
<1>1. m \in Nat \ {0} /\ d \in Int
  BY StreamConstantsOK
<1> HIDE DEF m, d
<1>2. d % m \in Nat
  BY <1>1
<1>3. Sub(a, Base) = d % m
  BY DEF Sub, m, d
<1> QED BY <1>2, <1>3

LEMMA TypesFromParts == StreamInv /\ CountersInv /\ ReportInv => TypeOK
<1> SUFFICES ASSUME StreamInv, CountersInv, ReportInv PROVE TypeOK
  OBVIOUS
<1>1. curCPU \in 0 .. MaxUse /\ curNet \in 0 .. MaxUse
  BY StreamConstantsOK DEF CountersInv
<1>2. consumed \in Seq([cpu : Nat, net : Nat])
  <2>1. Sub(curCPU, Base) \in Nat /\ Sub(curNet, Base) \in Nat
    BY <1>1, SubIsNat, StreamConstantsOK
  <2>2. Sub(curCPU, Base) \div NsPerMs \in Nat
    BY <2>1, StreamConstantsOK
  <2>3. ASSUME NEW r \in [cpu : Nat, net : Nat] PROVE <<r>> \in Seq([cpu : Nat, net : Nat])
    OBVIOUS
  <2>4. <<>> \in Seq([cpu : Nat, net : Nat])
    OBVIOUS
  <2>5. [cpu |-> Sub(curCPU, Base) \div NsPerMs, net |-> Sub(curNet, Base)] \in [cpu : Nat, net : Nat]
    BY <2>1, <2>2
  <2> QED BY <2>3, <2>4, <2>5, Zenon DEF ReportInv
<1>3. {alive, stopped, closed, panicked, broken} \subseteq BOOLEAN
  BY DEF StreamInv, RunOK, ExecOK, StreamOK, CallerOK
<1> QED BY <1>1, <1>2, <1>3 DEF StreamInv, RunOK, ExecOK, StreamOK, CallerOK, TypeOK, Channels

LEMMA FramesAreFrames ==
    ASSUME RunOK, NEW f \in 1 .. Len(frames)
    PROVE  frames[f].type \in {1, 2} /\ frames[f].len \in 0 .. MaxLen
<1>1. frames[f] \in Frame
  BY DEF RunOK
<1> QED BY <1>1 DEF Frame

LEMMA BytesAreBytes ==
    ASSUME NEW f \in Nat, NEW from \in Nat, NEW n \in Nat
    PROVE  /\ Bytes(f, from, n) \in Seq(Nat \X Nat) /\ Len(Bytes(f, from, n)) = n
           /\ \A i \in 1 .. n : Bytes(f, from, n)[i] = <<f, from + i>>
<1>1. \A i \in 1 .. n : <<f, from + i>> \in Nat \X Nat
  OBVIOUS
<1>2. Bytes(f, from, n) \in [1 .. n -> Nat \X Nat]
  BY <1>1 DEF Bytes
<1> QED BY <1>2 DEF Bytes

\* Nothing but the process changes what it writes and uses.
LEMMA RunStep ==
    ASSUME RunOK, [Next]_vars
    PROVE  RunOK' /\ frames' = frames /\ merged' = merged /\ emitted <= emitted'
<1> USE StreamConstantsOK DEF run, process, exec, stream, caller
<1>1. CASE Write
  BY <1>1 DEF Write, RunOK
<1>2. CASE UseResources
  <2>1. UNCHANGED <<frames, merged, emitted, alive>>
    BY <1>2 DEF UseResources
  <2>2. \/ cpu < MaxUse /\ cpu' = cpu + 1 /\ net' = net
        \/ net < MaxUse /\ net' = net + 1 /\ cpu' = cpu
    BY <1>2 DEF UseResources
  <2>3. cpu \in Base .. MaxUse /\ net \in Base .. MaxUse
    BY DEF RunOK
  <2>4. cpu' \in Base .. MaxUse /\ net' \in Base .. MaxUse
    BY <2>2, <2>3
  <2> QED BY <2>1, <2>4 DEF RunOK
<1>3. CASE ProcessEnds
  <2>1. UNCHANGED <<frames, merged, emitted, cpu, net>> /\ alive' = FALSE
    BY <1>3 DEF ProcessEnds
  <2>2. alive' \in BOOLEAN
    BY <2>1
  <2>3. emitted \in Nat
    BY DEF RunOK
  <2>4. emitted <= emitted'
    BY <2>1, <2>3
  <2> QED BY <2>1, <2>2, <2>4 DEF RunOK
<1>4. CASE StreamStep \/ ExecStep \/ CloseChannels \/ UNCHANGED vars
  <2>1. UNCHANGED <<run, process>>
    BY <1>4 DEF StreamStep, ExecStep, CloseChannels, ReadHeader, ReadPayload, FrameDone,
       SelectStop, Send, EndStream, Tick, DoneStreaming, FinalStats, SendConsumed, vars
  <2> QED BY <2>1 DEF RunOK
<1> QED BY <1>1, <1>2, <1>3, <1>4 DEF Next

LEMMA ExecTypeStep ==
    ASSUME ExecOK, [Next]_vars
    PROVE  ExecOK'
<1> USE DEF run, process, exec, stream, caller
<1>1. CASE Tick
  <2>1. /\ elapsed' = NextPeriod
        /\ \/ UNCHANGED <<pc, code, stopped>>
           \/ pc' = "final" /\ UNCHANGED <<code, stopped>>
           \/ stopped' = TRUE /\ code' = "limit" /\ pc' = "consumed"
    BY <1>1 DEF Tick
  <2>2. elapsed' \in 0 .. RunTime + 2
    BY <2>1, StreamConstantsOK DEF NextPeriod, ExecOK
  <2>3. stopped' \in BOOLEAN
    BY <2>1 DEF ExecOK
  <2> QED BY <2>1, <2>2, <2>3 DEF ExecOK
<1>2. CASE DoneStreaming \/ FinalStats \/ SendConsumed
  <2>1. UNCHANGED <<elapsed, stopped>>
    BY <1>2 DEF DoneStreaming, FinalStats, SendConsumed
  <2>2. pc' \in {"final", "consumed", "returned"} /\ code' \in {code, "exit"}
    BY <1>2 DEF DoneStreaming, FinalStats, SendConsumed
  <2> QED BY <2>1, <2>2 DEF ExecOK
<1>3. CASE Write \/ UseResources \/ ProcessEnds \/ StreamStep \/ CloseChannels \/ UNCHANGED vars
  <2>1. UNCHANGED exec
    BY <1>3 DEF Write, UseResources, ProcessEnds, StreamStep, CloseChannels, ReadHeader,
       ReadPayload, FrameDone, SelectStop, Send, EndStream, vars
  <2> QED BY <2>1 DEF ExecOK
<1> QED BY <1>1, <1>2, <1>3 DEF Next, ExecStep

LEMMA CallerTypeStep ==
    ASSUME RunOK, StreamOK, CallerOK, [Next]_vars
    PROVE  CallerOK'
<1> USE DEF run, process, exec, stream, caller
<1>1. CASE Send
  <2>1. CASE closed
    BY <1>1, <2>1 DEF Send, CallerOK
  <2>2. CASE ~closed
    <3>1. PICK c \in Channels : c = Channel(frames[pos.frame].type)
      BY DEF Channel, Channels
    <3>2. /\ got' = [got EXCEPT ![c] = @ \o chunk] /\ late' \in {late, late + 1}
          /\ UNCHANGED <<closed, panicked>>
      BY <1>1, <2>2, <3>1 DEF Send
    <3>3. got' \in [Channels -> Seq(Nat \X Nat)]
      <4>1. got[c] \in Seq(Nat \X Nat) /\ chunk \in Seq(Nat \X Nat)
        BY DEF CallerOK, StreamOK
      <4>2. got[c] \o chunk \in Seq(Nat \X Nat)
        BY <4>1
      <4> QED BY <3>2, <4>2 DEF CallerOK
    <3>4. late' \in Nat
      BY <3>2 DEF CallerOK
    <3> QED BY <3>2, <3>3, <3>4 DEF CallerOK
  <2> QED BY <2>1, <2>2
<1>2. CASE CloseChannels
  BY <1>2 DEF CloseChannels, CallerOK
<1>3. CASE \/ Write \/ UseResources \/ ProcessEnds \/ ExecStep \/ UNCHANGED vars
           \/ ReadHeader \/ ReadPayload \/ FrameDone \/ SelectStop
  <2>1. UNCHANGED caller
    BY <1>3 DEF Write, UseResources, ProcessEnds, ExecStep, ReadHeader, ReadPayload, FrameDone,
       SelectStop, EndStream, Tick, DoneStreaming, FinalStats, SendConsumed, vars
  <2> QED BY <2>1 DEF CallerOK
<1> QED BY <1>1, <1>2, <1>3 DEF Next, StreamStep

LEMMA StreamTypeStep ==
    ASSUME RunOK, StreamOK, PosInv, [Next]_vars
    PROVE  StreamOK' /\ PosInv'
<1> USE DEF run, process, exec, stream, caller
<1>0. /\ frames' = frames /\ emitted \in Nat /\ emitted' \in Nat /\ emitted <= emitted'
      /\ Len(frames) \in Nat /\ emitted <= Len(frames)
      /\ pos.frame \in Nat \ {0} /\ pos.off \in 0 .. MaxLen /\ MaxLen \in Nat
      /\ pos = [frame |-> pos.frame, off |-> pos.off]
  <2>1. RunOK' /\ frames' = frames /\ emitted <= emitted'
    BY RunStep
  <2>2. emitted \in Nat /\ Len(frames) \in Nat /\ emitted <= Len(frames)
    BY DEF RunOK
  <2>3. emitted' \in Nat
    BY <2>1 DEF RunOK
  <2>4. pos \in [frame : 1 .. Len(frames) + 1, off : 0 .. MaxLen] /\ MaxLen \in Nat
    BY StreamConstantsOK DEF StreamOK
  <2>5. pos.frame \in 1 .. Len(frames) + 1 /\ pos.off \in 0 .. MaxLen
    BY <2>4
  <2> QED BY <2>1, <2>2, <2>3, <2>4, <2>5
<1>1. CASE UNCHANGED stream
  BY <1>0, <1>1 DEF StreamOK, PosInv
<1>2. ASSUME NEW err \in BOOLEAN, EndStream(err) PROVE StreamOK' /\ PosInv'
  <2>1. sp' = "done" /\ broken' \in BOOLEAN /\ UNCHANGED <<pos, chunk>>
    BY <1>2 DEF EndStream
  <2> QED BY <1>0, <2>1 DEF StreamOK, PosInv
<1>3. CASE ReadHeader
  <2>1. CASE /\ sp = "header" /\ pos.frame <= emitted /\ sp' = "read" /\ pos' = [pos EXCEPT !.off = 0]
             /\ UNCHANGED <<process, broken, chunk>>
    <3>1. pos' = [frame |-> pos.frame, off |-> 0]
      BY <1>0, <2>1
    <3>2. frames[pos.frame].len \in 0 .. MaxLen
      BY <1>0, <2>1, FramesAreFrames
    <3>3. pos' \in [frame : 1 .. Len(frames) + 1, off : 0 .. MaxLen]
      BY <1>0, <2>1, <3>1
    <3>4. StreamOK'
      BY <1>0, <2>1, <3>3 DEF StreamOK
    <3>5. pos'.frame = pos.frame /\ pos'.off = 0
      BY <3>1
    <3>6. PosInv'
      BY <1>0, <2>1, <3>2, <3>5 DEF PosInv
    <3> QED BY <3>4, <3>6
  <2> QED BY <1>2, <1>3, <2>1 DEF ReadHeader
<1>4. CASE ReadPayload
  <2> DEFINE left == frames[pos.frame].len - pos.off
             room == IF left < BufLength THEN left ELSE BufLength
  <2>1. ASSUME NEW n \in 1 .. room, sp = "read", left > 0,
               chunk' = Bytes(pos.frame, pos.off, n), pos' = [pos EXCEPT !.off = @ + n],
               sp' = "select", UNCHANGED <<process, broken>>
        PROVE  StreamOK' /\ PosInv'
    <3>1. pos.frame <= emitted /\ frames[pos.frame].len \in 0 .. MaxLen
      BY <1>0, <2>1, FramesAreFrames DEF PosInv
    <3>2. n \in Nat /\ n <= BufLength /\ pos.off + n <= frames[pos.frame].len
      <4>1. /\ left \in Nat /\ frames[pos.frame].len = pos.off + left /\ pos.off \in Nat
            /\ BufLength \in Nat
        <5>1. PICK l \in Nat, o \in Nat : l = frames[pos.frame].len /\ o = pos.off
          BY <1>0, <3>1
        <5>2. left = l - o /\ left > 0
          BY <2>1, <5>1
        <5> HIDE DEF left
        <5> QED BY <5>1, <5>2, StreamConstantsOK
      <4> HIDE DEF left
      <4>2. room \in Nat /\ room <= left /\ room <= BufLength
        BY <4>1
      <4> HIDE DEF room
      <4>3. n \in Nat /\ n <= room
        BY <2>1, <4>2
      <4> QED BY <4>1, <4>2, <4>3
    <3>3. pos' = [frame |-> pos.frame, off |-> pos.off + n]
      BY <1>0, <2>1
    <3>4. pos'.frame = pos.frame /\ pos'.off = pos.off + n
      BY <3>3
    <3>5. pos.off + n \in 0 .. MaxLen /\ pos.frame \in 1 .. Len(frames) + 1
      BY <1>0, <3>1, <3>2
    <3>6. pos' \in [frame : 1 .. Len(frames) + 1, off : 0 .. MaxLen]
      BY <3>3, <3>5
    <3>7. chunk' \in Seq(Nat \X Nat) /\ Len(chunk') <= BufLength
      <4>1. pos.frame \in Nat /\ pos.off \in Nat
        BY <1>0
      <4> QED BY <2>1, <3>2, <4>1, BytesAreBytes
    <3>8. StreamOK'
      BY <1>0, <2>1, <3>6, <3>7 DEF StreamOK
    <3>9. PosInv'
      BY <1>0, <2>1, <3>1, <3>2, <3>4 DEF PosInv
    <3> QED BY <3>8, <3>9
  <2> QED BY <1>2, <1>4, <2>1 DEF ReadPayload
<1>5. CASE FrameDone
  <2>1. /\ sp = "read" /\ sp' = "header" /\ pos' = [frame |-> pos.frame + 1, off |-> 0]
        /\ UNCHANGED <<emitted, broken, chunk>>
    BY <1>5 DEF FrameDone
  <2>2. pos.frame <= emitted
    BY <2>1 DEF PosInv
  <2>3. pos' \in [frame : 1 .. Len(frames) + 1, off : 0 .. MaxLen]
    BY <1>0, <2>1, <2>2
  <2>4. pos'.frame = pos.frame + 1 /\ pos'.off = 0
    BY <2>1
  <2>5. StreamOK'
    BY <1>0, <2>1, <2>3 DEF StreamOK
  <2>6. PosInv'
    BY <1>0, <2>1, <2>2, <2>4 DEF PosInv
  <2> QED BY <2>5, <2>6
<1>6. CASE SelectStop \/ Send
  <2>1. /\ sp \in {"select", "send"} /\ sp' \in {"done", "send", "read"}
        /\ UNCHANGED <<emitted, broken, pos, chunk>>
    BY <1>6 DEF SelectStop, Send
  <2>2. StreamOK'
    BY <1>0, <2>1 DEF StreamOK
  <2>3. PosInv'
    BY <1>0, <2>1 DEF PosInv
  <2> QED BY <2>2, <2>3
<1>7. CASE Write \/ UseResources \/ ProcessEnds \/ ExecStep \/ CloseChannels \/ UNCHANGED vars
  <2>1. UNCHANGED stream
    BY <1>7 DEF Write, UseResources, ProcessEnds, ExecStep, CloseChannels, Tick, DoneStreaming,
       FinalStats, SendConsumed, vars
  <2> QED BY <1>1, <2>1
<1> QED BY <1>3, <1>4, <1>5, <1>6, <1>7 DEF Next, StreamStep

LEMMA TypesInductive == Spec => [](StreamInv /\ TypeOK)
<1>1. Init => StreamInv
  <2> SUFFICES ASSUME Init PROVE StreamInv
    OBVIOUS
  <2>1. frames \in Seq(Frame)
    <3>1. PICK n \in 0 .. MaxFrames : frames \in [1 .. n -> Frame]
      BY DEF Init
    <3>2. n \in Nat
      BY StreamConstantsOK
    <3> QED BY <3>1, <3>2
  <2>2. RunOK
    BY <2>1, StreamConstantsOK DEF Init, RunOK
  <2>3. ExecOK /\ CallerOK
    <3>0. elapsed \in 0 .. RunTime + 2
      BY StreamConstantsOK DEF Init
    <3>1. ExecOK
      BY <3>0 DEF Init, ExecOK
    <3>2. <<>> \in Seq(Nat \X Nat)
      OBVIOUS
    <3>3. got \in [Channels -> Seq(Nat \X Nat)]
      BY <3>2 DEF Init, Channels
    <3>4. late \in Nat /\ closed \in BOOLEAN /\ panicked \in BOOLEAN
      BY DEF Init
    <3> QED BY <3>1, <3>3, <3>4 DEF CallerOK
  <2>4. StreamOK /\ PosInv
    <3>1. Len(frames) \in Nat /\ MaxLen \in Nat /\ BufLength \in Nat
      BY <2>1, StreamConstantsOK
    <3>2. pos \in [frame : 1 .. Len(frames) + 1, off : 0 .. MaxLen] /\ pos.frame = 1 /\ pos.off = 0
      BY <3>1 DEF Init
    <3>3. chunk = <<>> /\ sp = "header" /\ broken \in BOOLEAN /\ emitted = 0
      BY DEF Init
    <3>4. <<>> \in Seq(Nat \X Nat) /\ Len(<<>>) = 0
      OBVIOUS
    <3> QED BY <3>1, <3>2, <3>3, <3>4 DEF StreamOK, PosInv
  <2> QED BY <2>2, <2>3, <2>4 DEF StreamInv
<1>2. StreamInv /\ [Next]_vars => StreamInv'
  BY RunStep, ExecTypeStep, CallerTypeStep, StreamTypeStep DEF StreamInv
<1> QED BY <1>1, <1>2, CountersInductive, TypesFromParts, PTL DEF Spec

\* The types of the model, for any output and any limits; streamOutput reads within
\* the frames that the process has written and never more than its buffer holds.
THEOREM StreamTypes == Spec => []TypeOK
  BY TypesInductive, PTL

(***************************************************************************)
(* Order and completeness of the output.                                   *)
(***************************************************************************)
LEMMA ExitStep ==
    ASSUME StreamInv, ExitInv, [Next]_vars
    PROVE  ExitInv'
<1> USE DEF run, process, exec, stream, caller
<1>0. /\ frames' = frames /\ emitted \in Nat /\ Len(frames) \in Nat /\ emitted <= Len(frames)
      /\ pos.frame \in Nat /\ pos.frame <= emitted + 1
  BY RunStep DEF StreamInv, RunOK, StreamOK, PosInv
<1>1. CASE Write \/ UseResources \/ ProcessEnds
  <2>1. /\ UNCHANGED <<exec, stream, caller>> /\ alive
        /\ alive' => alive
        /\ ~alive' => emitted' = Len(frames) \/ stopped
    BY <1>1 DEF Write, UseResources, ProcessEnds
  <2> QED BY <1>0, <2>1 DEF ExitInv
<1>2. CASE ReadHeader \/ ReadPayload
  <2>1. /\ UNCHANGED <<process, exec, caller>> /\ sp # "done"
        /\ \/ sp' # "done"
           \/ sp' = "done" /\ broken' = TRUE
           \/ pos.frame > emitted /\ ~alive /\ sp' = "done" /\ pos' = pos
    BY <1>2 DEF ReadHeader, ReadPayload, EndStream
  <2>2. pos.frame > emitted /\ ~alive /\ ~stopped => pos.frame = Len(frames) + 1
    BY <1>0 DEF ExitInv
  <2> QED BY <1>0, <2>1, <2>2 DEF ExitInv
<1>3. CASE FrameDone \/ SelectStop \/ Send
  <2>1. /\ UNCHANGED <<process, exec, closed>> /\ sp # "done"
        /\ sp' # "done" \/ stopped \/ closed
    BY <1>3 DEF FrameDone, SelectStop, Send
  <2> QED BY <1>0, <2>1 DEF ExitInv
<1>4. CASE Tick
  <2>1. /\ UNCHANGED <<process, stream, caller>> /\ pc = "loop"
        /\ \/ UNCHANGED <<pc, code, stopped>>
           \/ sp = "done" /\ pc' = "final" /\ UNCHANGED <<code, stopped>>
           \/ sp # "done" /\ stopped' = TRUE /\ code' = "limit" /\ pc' = "consumed"
    BY <1>4 DEF Tick, StreamDone
  <2> QED BY <1>0, <2>1 DEF ExitInv
<1>5. CASE DoneStreaming \/ FinalStats \/ SendConsumed
  <2>1. /\ UNCHANGED <<process, stream, caller, stopped>>
        /\ \/ pc = "loop" /\ sp = "done" /\ pc' = "final" /\ code' = code
           \/ pc = "final" /\ pc' = "consumed" /\ code' = "exit"
           \/ pc = "consumed" /\ pc' = "returned" /\ code' = code
    BY <1>5 DEF DoneStreaming, FinalStats, SendConsumed, StreamDone
  <2> QED BY <1>0, <2>1 DEF ExitInv
<1>6. CASE CloseChannels \/ UNCHANGED vars
  <2>1. UNCHANGED <<process, exec, stream>> /\ (closed' = closed \/ pc = "returned")
    BY <1>6 DEF CloseChannels, vars
  <2> QED BY <1>0, <2>1 DEF ExitInv
<1> QED BY <1>1, <1>2, <1>3, <1>4, <1>5, <1>6 DEF Next, StreamStep, ExecStep

\* What is under way when nothing is received and the position stays.
LEMMA NothingReceived ==
    ASSUME NEW off \in Nat, SentUpTo(off), frames' = frames, merged' = merged,
           RunOK, RunOK', emitted <= emitted', StreamOK,
           UNCHANGED <<pos, got, chunk>>,
           sp' = sp \/ sp' = "done" \/ (sp = "select" /\ sp' = "send")
    PROVE  SentUpTo(off)'
<1>1. off > 0 => pos.frame <= emitted'
  <2>1. emitted \in Nat /\ emitted' \in Nat /\ pos.frame \in Nat
    BY DEF RunOK, StreamOK
  <2> QED BY <2>1 DEF SentUpTo
<1>2. \A ch \in Channels : Range(got'[ch]) = Sent(ch, off)'
  BY DEF SentUpTo, Sent, Output, Channel
<1> QED BY <1>1, <1>2 DEF SentUpTo

\* The elements of two sequences, one after the other.
LEMMA RangeOfConcat ==
    ASSUME NEW S, NEW s \in Seq(S), NEW t \in Seq(S)
    PROVE  Range(s \o t) = Range(s) \cup Range(t)
<1>1. /\ s \o t \in Seq(S) /\ Len(s \o t) = Len(s) + Len(t)
      /\ \A i \in 1 .. Len(s) + Len(t) : (s \o t)[i] = IF i <= Len(s) THEN s[i] ELSE t[i - Len(s)]
  BY ConcatProperties
<1>2. /\ DOMAIN s = 1 .. Len(s) /\ DOMAIN t = 1 .. Len(t) /\ DOMAIN (s \o t) = 1 .. Len(s) + Len(t)
      /\ Len(s) \in Nat /\ Len(t) \in Nat
  BY <1>1
<1>3. ASSUME NEW i \in DOMAIN (s \o t) PROVE (s \o t)[i] \in Range(s) \cup Range(t)
  <2>1. CASE i <= Len(s)
    <3>1. i \in DOMAIN s /\ (s \o t)[i] = s[i]
      BY <1>1, <1>2, <2>1
    <3> QED BY <3>1 DEF Range
  <2>2. CASE i > Len(s)
    <3>1. i - Len(s) \in DOMAIN t /\ (s \o t)[i] = t[i - Len(s)]
      BY <1>1, <1>2, <2>2
    <3> QED BY <3>1 DEF Range
  <2> QED BY <1>2, <2>1, <2>2
<1>4. ASSUME NEW i \in DOMAIN s PROVE s[i] \in Range(s \o t)
  <2>1. i \in DOMAIN (s \o t) /\ (s \o t)[i] = s[i]
    BY <1>1, <1>2
  <2> QED BY <2>1 DEF Range
<1>5. ASSUME NEW i \in DOMAIN t PROVE t[i] \in Range(s \o t)
  <2>1. Len(s) + i \in DOMAIN (s \o t) /\ (s \o t)[Len(s) + i] = t[i]
    BY <1>1, <1>2
  <2> QED BY <2>1 DEF Range
<1> QED BY <1>3, <1>4, <1>5 DEF Range

\* Two ordered sequences make one when all of the first precedes all of the second.
LEMMA OrderOfConcat ==
    ASSUME NEW S, NEW s \in Seq(S), NEW t \in Seq(S), InOrder(s), InOrder(t),
           \A a \in Range(s), b \in Range(t) : Precedes(a, b)
    PROVE  InOrder(s \o t)
<1>1. /\ s \o t \in Seq(S) /\ Len(s \o t) = Len(s) + Len(t)
      /\ \A i \in 1 .. Len(s) + Len(t) : (s \o t)[i] = IF i <= Len(s) THEN s[i] ELSE t[i - Len(s)]
  BY ConcatProperties
<1>2. /\ DOMAIN s = 1 .. Len(s) /\ DOMAIN t = 1 .. Len(t) /\ DOMAIN (s \o t) = 1 .. Len(s) + Len(t)
      /\ Len(s) \in Nat /\ Len(t) \in Nat
  BY <1>1
<1> SUFFICES ASSUME NEW i \in 1 .. Len(s) + Len(t), NEW j \in 1 .. Len(s) + Len(t), i < j
             PROVE  Precedes((s \o t)[i], (s \o t)[j])
  BY <1>2 DEF InOrder
<1>3. CASE j <= Len(s)
  <2>1. i \in DOMAIN s /\ j \in DOMAIN s /\ (s \o t)[i] = s[i] /\ (s \o t)[j] = s[j]
    BY <1>1, <1>2, <1>3
  <2> QED BY <2>1 DEF InOrder
<1>4. CASE i > Len(s)
  <2>1. /\ i - Len(s) \in DOMAIN t /\ j - Len(s) \in DOMAIN t /\ i - Len(s) < j - Len(s)
        /\ (s \o t)[i] = t[i - Len(s)] /\ (s \o t)[j] = t[j - Len(s)]
    BY <1>1, <1>2, <1>4
  <2> QED BY <2>1 DEF InOrder
<1>5. CASE i <= Len(s) /\ j > Len(s)
  <2>1. /\ i \in DOMAIN s /\ j - Len(s) \in DOMAIN t
        /\ (s \o t)[i] = s[i] /\ (s \o t)[j] = t[j - Len(s)]
    BY <1>1, <1>2, <1>5
  <2> QED BY <2>1 DEF Range
<1> QED BY <1>2, <1>3, <1>4, <1>5

\* A byte of the output is a frame and an offset in it.
LEMMA OutputIsNumbered ==
    ASSUME StreamInv, NEW ch, NEW b \in Output(Len(frames), ch)
    PROVE  b[1] \in Nat /\ b[2] \in Nat \ {0} /\ b = <<b[1], b[2]>>
<1>1. b \in (1 .. Len(frames)) \X (1 .. MaxLen)
  BY DEF Output
<1> QED BY <1>1

\* The chunk that is sent is what comes next on its channel.
LEMMA ChunkComesNext ==
    ASSUME StreamInv, NEW off \in Nat, SentUpTo(off), sp = "send",
           NEW c, c = Channel(frames[pos.frame].type)
    PROVE  /\ InOrder(chunk)
           /\ \A a \in Sent(c, off), b \in Range(chunk) : Precedes(a, b)
           /\ Sent(c, pos.off) = Sent(c, off) \cup Range(chunk)
           /\ \A ch \in Channels \ {c} : Sent(ch, pos.off) = Sent(ch, off)
<1>1. PICK f \in Nat, n \in Nat, l \in Nat :
         /\ f = pos.frame /\ n = Len(chunk) /\ l = frames[f].len
         /\ f \in 1 .. Len(frames) /\ l <= MaxLen /\ off + n <= l
         /\ pos.off = off + n /\ chunk = Bytes(f, off, n)
  <2>1. pos.frame \in 1 .. Len(frames)
    BY DEF StreamInv, RunOK, StreamOK, PosInv
  <2>2. frames[pos.frame].len \in 0 .. MaxLen /\ MaxLen \in Nat
    BY <2>1, FramesAreFrames, StreamConstantsOK DEF StreamInv
  <2>3. Len(chunk) \in Nat
    BY DEF StreamInv, StreamOK
  <2> QED BY <2>1, <2>2, <2>3 DEF SentUpTo, StreamInv, PosInv
<1>2. DOMAIN chunk = 1 .. n /\ \A i \in 1 .. n : chunk[i] = <<f, off + i>>
  BY <1>1 DEF Bytes
<1>3. Range(chunk) = {<<f, off + i>> : i \in 1 .. n}
  BY <1>2 DEF Range
<1>4. InOrder(chunk)
  BY <1>2 DEF InOrder, Precedes
<1>5. \A a \in Sent(c, off), b \in Range(chunk) : Precedes(a, b)
  <2> SUFFICES ASSUME NEW a \in Sent(c, off), NEW i \in 1 .. n
               PROVE  Precedes(a, <<f, off + i>>)
    BY <1>3
  <2>1. a[1] < f \/ (a[1] = f /\ a[2] <= off)
    BY <1>1 DEF Sent
  <2>2. a[2] \in Nat
    BY OutputIsNumbered DEF Sent
  <2> QED BY <1>1, <2>1, <2>2 DEF Precedes
<1>6. ASSUME NEW ch, NEW b
      PROVE  b \in Sent(ch, off + n) <=>
                \/ b \in Sent(ch, off)
                \/ b \in Output(Len(frames), ch) /\ b[1] = f /\ off < b[2] /\ b[2] <= off + n
  <2>1. b \in Output(Len(frames), ch) => b[2] \in Nat
    BY OutputIsNumbered
  <2> QED BY <1>1, <2>1 DEF Sent
<1>7. ASSUME NEW b, b \in Output(Len(frames), c), b[1] = f, off < b[2], b[2] <= off + n
      PROVE  b \in Range(chunk)
  <2>1. b = <<f, b[2]>> /\ b[2] \in Nat
    BY <1>7, OutputIsNumbered
  <2>2. PICK i \in 1 .. n : b[2] = off + i
    <3>1. b[2] - off \in 1 .. n /\ b[2] = off + (b[2] - off)
      BY <1>1, <1>7, <2>1
    <3> QED BY <3>1
  <2> QED BY <1>3, <2>1, <2>2
<1>8. ASSUME NEW i \in 1 .. n
      PROVE  <<f, off + i>> \in Output(Len(frames), c) /\ off < off + i /\ off + i <= off + n
  <2>1. off + i \in 1 .. MaxLen /\ off + i <= l /\ off < off + i /\ off + i <= off + n
    <3>1. MaxLen \in Nat /\ l <= MaxLen /\ off + n <= l
      BY <1>1, StreamConstantsOK
    <3> QED BY <3>1
  <2> QED BY <1>1, <2>1 DEF Output
<1>9. Sent(c, off + n) = Sent(c, off) \cup Range(chunk)
  BY <1>3, <1>6, <1>7, <1>8
<1>10. ASSUME NEW ch \in Channels \ {c} PROVE Sent(ch, off + n) = Sent(ch, off)
  <2>1. \A b \in Output(Len(frames), ch) : b[1] # f
    BY <1>1 DEF Output
  <2> QED BY <1>6, <2>1
<1> QED BY <1>1, <1>4, <1>5, <1>9, <1>10

LEMMA DeliveryStep ==
    ASSUME StreamInv, DeliveryInv, [Next]_vars
    PROVE  DeliveryInv'
<1> USE DEF run, process, exec, stream, caller
<1>0. PICK off \in Nat : SentUpTo(off)
  BY DEF DeliveryInv
<1>1. /\ RunOK /\ RunOK' /\ frames' = frames /\ merged' = merged /\ emitted <= emitted'
      /\ StreamOK /\ StreamOK' /\ PosInv' /\ CallerOK /\ ExecOK
  BY RunStep, StreamTypeStep DEF StreamInv
<1>2. /\ emitted \in Nat /\ emitted' \in Nat /\ Len(frames) \in Nat /\ MaxLen \in Nat
      /\ pos.frame \in Nat /\ pos.off \in 0 .. MaxLen
  <2>1. /\ emitted \in Nat /\ emitted' \in Nat /\ Len(frames) \in Nat
    BY <1>1 DEF RunOK
  <2>2. pos \in [frame : 1 .. Len(frames) + 1, off : 0 .. MaxLen] /\ MaxLen \in Nat
    BY <1>1, StreamConstantsOK DEF StreamOK
  <2>3. pos.frame \in 1 .. Len(frames) + 1 /\ pos.off \in 0 .. MaxLen
    BY <2>2
  <2> QED BY <2>1, <2>2, <2>3
<1>3. ASSUME NEW o \in Nat, SentUpTo(o)', got' = got PROVE DeliveryInv'
  BY <1>1, <1>3 DEF DeliveryInv
<1>4. CASE /\ UNCHANGED <<pos, got, chunk>>
           /\ sp' = sp \/ sp' = "done" \/ (sp = "select" /\ sp' = "send")
  BY <1>0, <1>1, <1>3, <1>4, NothingReceived
<1>5. CASE Write \/ UseResources \/ ProcessEnds \/ ExecStep \/ CloseChannels \/ UNCHANGED vars
  <2>1. UNCHANGED <<pos, got, chunk, sp>>
    BY <1>5 DEF Write, UseResources, ProcessEnds, ExecStep, CloseChannels, Tick, DoneStreaming,
       FinalStats, SendConsumed, vars
  <2> QED BY <1>4, <2>1
<1>6. CASE SelectStop \/ (\E err \in BOOLEAN : EndStream(err)) \/ (Send /\ closed)
  <2>1. UNCHANGED <<pos, got, chunk>> /\ (sp' = "done" \/ (sp = "select" /\ sp' = "send"))
    BY <1>6 DEF SelectStop, EndStream, Send
  <2> QED BY <1>4, <2>1
<1>7. ASSUME sp = "header", pos.frame <= emitted, sp' = "read", pos' = [pos EXCEPT !.off = 0],
             UNCHANGED <<emitted, got, chunk>>
      PROVE  DeliveryInv'
  <2>1. off = 0 /\ pos.off = 0
    BY <1>0, <1>7 DEF SentUpTo, StreamInv, PosInv
  <2>2. pos'.frame = pos.frame /\ pos'.off = 0
    BY <1>1, <1>7 DEF StreamOK
  <2>3. \A ch \in Channels : Range(got'[ch]) = Sent(ch, off)'
    BY <1>0, <1>1, <1>7, <2>2 DEF SentUpTo, Sent, Output, Channel
  <2>4. SentUpTo(off)'
    BY <1>2, <1>7, <2>1, <2>2, <2>3 DEF SentUpTo
  <2> QED BY <1>3, <1>7, <2>4
<1>8. ASSUME sp = "read", NEW n \in Nat, chunk' = Bytes(pos.frame, pos.off, n),
             pos' = [pos EXCEPT !.off = @ + n], sp' = "select", UNCHANGED <<emitted, got>>
      PROVE  DeliveryInv'
  <2>1. off = pos.off /\ pos.frame <= emitted
    BY <1>0, <1>8 DEF SentUpTo, StreamInv, PosInv
  <2>2. pos'.frame = pos.frame /\ pos'.off = pos.off + n
    BY <1>1, <1>8 DEF StreamOK
  <2>3. Len(chunk') = n
    <3>1. pos.frame \in Nat /\ pos.off \in Nat
      BY <1>2
    <3> QED BY <1>8, <3>1, BytesAreBytes
  <2>4. chunk' = Bytes(pos'.frame, off, Len(chunk'))
    BY <1>8, <2>1, <2>2, <2>3
  <2>5. \A ch \in Channels : Range(got'[ch]) = Sent(ch, off)'
    BY <1>0, <1>1, <1>8, <2>2 DEF SentUpTo, Sent, Output, Channel
  <2>6. SentUpTo(off)'
    BY <1>2, <1>8, <2>1, <2>2, <2>3, <2>4, <2>5 DEF SentUpTo, Bytes
  <2> QED BY <1>3, <1>8, <2>6
<1>9. CASE FrameDone
  <2>1. /\ sp = "read" /\ pos.off = frames[pos.frame].len /\ sp' = "header"
        /\ pos' = [frame |-> pos.frame + 1, off |-> 0] /\ UNCHANGED <<emitted, got>>
    BY <1>9 DEF FrameDone
  <2>2. off = frames[pos.frame].len
    BY <1>0, <2>1 DEF SentUpTo
  <2>3. pos'.frame = pos.frame + 1 /\ pos'.off = 0
    BY <2>1
  <2>4. ASSUME NEW ch \in Channels PROVE Range(got'[ch]) = Sent(ch, 0)'
    <3>1. \A b \in Output(Len(frames), ch) :
             /\ b[1] \in Nat /\ b[2] \in Nat \ {0} /\ (b[1] = pos.frame => b[2] <= off)
      BY <1>2, <2>2 DEF Output
    <3>2. \A b \in Output(Len(frames), ch) :
             b[1] < pos.frame \/ (b[1] = pos.frame /\ b[2] <= off) <=>
             b[1] < pos.frame + 1 \/ (b[1] = pos.frame + 1 /\ b[2] <= 0)
      BY <1>2, <3>1
    <3>3. Output(Len(frames), ch)' = Output(Len(frames), ch)
      BY <1>1 DEF Output, Channel
    <3>4. Sent(ch, 0)' = Sent(ch, off)
      BY <2>3, <3>2, <3>3 DEF Sent
    <3> QED BY <1>0, <2>1, <3>4 DEF SentUpTo
  <2>5. SentUpTo(0)'
    BY <1>2, <2>1, <2>3, <2>4 DEF SentUpTo
  <2> QED BY <1>3, <2>1, <2>5
<1>10. CASE Send /\ ~closed
  <2>1. PICK c \in Channels : c = Channel(frames[pos.frame].type)
    BY DEF Channel, Channels
  <2>2. /\ sp = "send" /\ sp' = "read" /\ got' = [got EXCEPT ![c] = @ \o chunk]
        /\ UNCHANGED <<emitted, pos, chunk>>
    BY <1>10, <2>1 DEF Send
  <2>3. /\ InOrder(chunk)
        /\ \A a \in Sent(c, off), b \in Range(chunk) : Precedes(a, b)
        /\ Sent(c, pos.off) = Sent(c, off) \cup Range(chunk)
        /\ \A ch \in Channels \ {c} : Sent(ch, pos.off) = Sent(ch, off)
    BY <1>0, <2>1, <2>2, ChunkComesNext
  <2>4. got[c] \in Seq(Nat \X Nat) /\ chunk \in Seq(Nat \X Nat)
    BY <1>1 DEF CallerOK, StreamOK
  <2>5. Range(got[c]) = Sent(c, off) /\ InOrder(got[c])
    BY <1>0 DEF SentUpTo, DeliveryInv
  <2>6. Range(got[c] \o chunk) = Sent(c, pos.off) /\ InOrder(got[c] \o chunk)
    BY <2>3, <2>4, <2>5, RangeOfConcat, OrderOfConcat
  <2>7. got'[c] = got[c] \o chunk /\ \A ch \in Channels \ {c} : got'[ch] = got[ch]
    BY <1>1, <2>2 DEF CallerOK
  <2>8. \A ch \in Channels : InOrder(got'[ch])
    BY <2>6, <2>7 DEF DeliveryInv
  <2>9. \A ch \in Channels : Range(got'[ch]) = Sent(ch, pos.off)
    BY <1>0, <2>3, <2>6, <2>7 DEF SentUpTo
  <2>10. PICK o \in Nat : o = pos.off
    BY <1>2
  <2>11. \A ch \in Channels : Sent(ch, o)' = Sent(ch, o)
    BY <1>1, <2>2 DEF Sent, Output, Channel
  <2>12. SentUpTo(o)'
    <3>1. o \in 0 .. MaxLen /\ pos.frame <= emitted
      BY <1>2, <2>2, <2>10 DEF StreamInv, PosInv
    <3> QED BY <2>2, <2>9, <2>10, <2>11, <3>1 DEF SentUpTo
  <2> QED BY <1>1, <2>8, <2>12 DEF DeliveryInv, InOrder
<1>11. CASE ReadHeader
  BY <1>6, <1>7, <1>11 DEF ReadHeader
<1>12. CASE ReadPayload
  <2> DEFINE left == frames[pos.frame].len - pos.off
             room == IF left < BufLength THEN left ELSE BufLength
  <2>1. ASSUME NEW n \in 1 .. room PROVE n \in Nat
    OBVIOUS
  <2> QED BY <1>6, <1>8, <1>12, <2>1 DEF ReadPayload
<1> QED BY <1>5, <1>6, <1>9, <1>10, <1>11, <1>12 DEF Next, StreamStep

LEMMA DeliveryInductive == Spec => [](StreamInv /\ ExitInv /\ DeliveryInv)
<1>1. Init => ExitInv
  BY DEF Init, ExitInv
<1>2. Init /\ StreamInv => DeliveryInv
  <2> SUFFICES ASSUME Init, StreamInv PROVE DeliveryInv
    OBVIOUS
  <2>1. /\ pos.frame = 1 /\ pos.off = 0 /\ sp = "header" /\ MaxLen \in Nat
        /\ \A ch \in Channels : got[ch] = <<>>
    BY StreamConstantsOK DEF Init, Channels
  <2>2. \A ch : Sent(ch, 0) = {}
    BY <2>1 DEF Sent, Output
  <2>3. Range(<<>>) = {} /\ InOrder(<<>>)
    BY DEF Range, InOrder
  <2>4. \A ch \in Channels : Range(got[ch]) = Sent(ch, 0) /\ InOrder(got[ch])
    BY <2>1, <2>2, <2>3
  <2>5. 0 \in 0 .. MaxLen /\ ~(0 > 0)
    BY <2>1
  <2>6. SentUpTo(0)
    BY <2>1, <2>4, <2>5, Zenon DEF SentUpTo
  <2> QED BY <2>4, <2>6 DEF DeliveryInv, StreamInv
<1>3. StreamInv /\ ExitInv /\ DeliveryInv /\ [Next]_vars => ExitInv' /\ DeliveryInv'
  BY ExitStep, DeliveryStep
<1> QED BY <1>1, <1>2, <1>3, TypesInductive, PTL DEF Spec

\* streamOutput: for any output, however it is cut into frames and reads, whatever
\* breaks and whenever a limit strikes, each channel gets a prefix of its bytes.
THEOREM OutputInOrder == Spec => []DeliveredInOrder
<1>1. StreamInv /\ DeliveryInv => DeliveredInOrder
  <2> SUFFICES ASSUME StreamInv, DeliveryInv, NEW ch \in Channels
               PROVE  /\ Range(got[ch]) \subseteq Output(emitted, ch)
                      /\ InOrder(got[ch])
                      /\ \A b \in Range(got[ch]), a \in Output(emitted, ch) :
                            Precedes(a, b) => a \in Range(got[ch])
    BY DEF DeliveredInOrder, StreamInv, CallerOK, InOrder
  <2>1. PICK off \in Nat : SentUpTo(off)
    BY DEF DeliveryInv
  <2>2. /\ emitted \in Nat /\ Len(frames) \in Nat /\ emitted <= Len(frames) /\ pos.frame \in Nat
        /\ pos.frame <= emitted + 1 /\ (off > 0 => pos.frame <= emitted)
    BY <2>1 DEF StreamInv, RunOK, StreamOK, PosInv, SentUpTo
  <2>3. ASSUME NEW b \in Output(Len(frames), ch)
        PROVE  b[1] \in Nat /\ b[2] \in Nat \ {0} /\ (b[1] <= emitted => b \in Output(emitted, ch))
    <3>1. b \in (1 .. Len(frames)) \X (1 .. MaxLen) /\ MaxLen \in Nat
      BY StreamConstantsOK DEF Output
    <3>2. b[1] \in 1 .. Len(frames) /\ b[2] \in 1 .. MaxLen /\ b = <<b[1], b[2]>>
      BY <3>1
    <3>3. b[1] <= emitted => b[1] \in 1 .. emitted
      BY <2>2, <3>2
    <3>4. b[1] <= emitted => b \in (1 .. emitted) \X (1 .. MaxLen)
      BY <3>2, <3>3
    <3>5. b[1] <= emitted => b \in Output(emitted, ch)
      BY <3>4 DEF Output
    <3> QED BY <2>2, <3>1, <3>2, <3>5
  <2>4. Output(emitted, ch) \subseteq Output(Len(frames), ch)
    BY <2>2 DEF Output
  <2>5. Range(got[ch]) = Sent(ch, off)
    BY <2>1 DEF SentUpTo
  <2>6. Sent(ch, off) \subseteq Output(emitted, ch)
    BY <2>2, <2>3 DEF Sent
  <2>7. ASSUME NEW b \in Sent(ch, off), NEW a \in Output(Len(frames), ch), Precedes(a, b)
        PROVE  a \in Sent(ch, off)
    BY <2>2, <2>3, <2>7 DEF Sent, Precedes
  <2> QED BY <2>4, <2>5, <2>6, <2>7 DEF DeliveryInv
<1> QED BY <1>1, DeliveryInductive, PTL

\* execAttach: a run that no limit stopped, and whose stream did not break, returns
\* only when the caller has every byte that the process has written.
THEOREM OutputCompleteOnExit == Spec => []CompleteOnExit
<1>1. StreamInv /\ ExitInv /\ DeliveryInv => CompleteOnExit
  <2> SUFFICES ASSUME StreamInv, ExitInv, DeliveryInv, code = "exit", ~broken, NEW ch \in Channels
               PROVE  Range(got[ch]) = Output(Len(frames), ch)
    BY DEF CompleteOnExit, StreamInv, CallerOK
  <2>1. PICK off \in Nat : SentUpTo(off)
    BY DEF DeliveryInv
  <2>2. pos.frame = Len(frames) + 1 /\ Len(frames) \in Nat
    BY DEF ExitInv, StreamInv, RunOK
  <2>3. \A b \in Output(Len(frames), ch) : b[1] < pos.frame
    BY <2>2 DEF Output
  <2> QED BY <2>1, <2>3 DEF SentUpTo, Sent
<1> QED BY <1>1, DeliveryInductive, PTL

\* A caller may close its channels once Execute has returned, unless a limit has
\* stopped the run: only then can streamOutput still be at work.
PanicsOnlyAfterLimit == panicked => code = "limit"

\* streamOutput sends on a closed channel only when execAttach has returned because
\* of a limit, for any output and any way in which the stream ends.
THEOREM ClosingIsSafeWithoutLimit == Spec => []PanicsOnlyAfterLimit
<1> DEFINE LimitInv == /\ stopped => code = "limit"
                       /\ code = "limit" => pc # "loop" /\ pc # "final"
<1>1. Init => LimitInv /\ PanicsOnlyAfterLimit
  BY DEF Init, PanicsOnlyAfterLimit
<1>2. ASSUME ExitInv, LimitInv, PanicsOnlyAfterLimit, [Next]_vars
      PROVE  LimitInv' /\ PanicsOnlyAfterLimit'
  <2> USE <1>2 DEF PanicsOnlyAfterLimit, run, process, exec, stream, caller
  <2>1. CASE Send
    <3>1. closed /\ sp # "done" => stopped
      BY DEF ExitInv
    <3>2. UNCHANGED exec /\ sp = "send" /\ (panicked' = panicked \/ closed)
      BY <2>1 DEF Send
    <3> QED BY <3>1, <3>2
  <2>2. CASE Tick
    <3>1. /\ UNCHANGED caller /\ pc = "loop"
          /\ \/ UNCHANGED <<code, stopped>> /\ pc' \in {pc, "final"}
             \/ code' = "limit" /\ pc' = "consumed"
      BY <2>2 DEF Tick
    <3> QED BY <3>1
  <2>3. CASE DoneStreaming \/ FinalStats \/ SendConsumed
    <3>1. /\ UNCHANGED <<caller, stopped>>
          /\ \/ pc = "loop" /\ code' = code
             \/ pc = "final" /\ code' = "exit"
             \/ pc = "consumed" /\ pc' = "returned" /\ code' = code
      BY <2>3 DEF DoneStreaming, FinalStats, SendConsumed
    <3> QED BY <3>1
  <2>4. CASE \/ Write \/ UseResources \/ ProcessEnds \/ CloseChannels \/ UNCHANGED vars
             \/ ReadHeader \/ ReadPayload \/ FrameDone \/ SelectStop
    <3>1. UNCHANGED <<exec, panicked>>
      BY <2>4 DEF Write, UseResources, ProcessEnds, CloseChannels, vars, ReadHeader, ReadPayload,
         FrameDone, SelectStop, EndStream
    <3> QED BY <3>1
  <2> QED BY <2>1, <2>2, <2>3, <2>4 DEF Next, StreamStep, ExecStep
<1>3. ExitInv /\ LimitInv /\ PanicsOnlyAfterLimit /\ [Next]_vars => LimitInv' /\ PanicsOnlyAfterLimit'
  BY <1>2
<1> HIDE DEF LimitInv
<1> QED BY <1>1, <1>3, DeliveryInductive, PTL DEF Spec
=============================================================================
