----------------------------- MODULE ExecStream -----------------------------
(***************************************************************************)
(* One run of a process in a container (containermanager/containers.go):   *)
(* execAttach, which watches the limits, the streamOutput goroutine, which *)
(* forwards Docker's multiplexed stream to the caller's channels, and the  *)
(* caller that reads the channels.                                         *)
(*                                                                         *)
(* All channels are unbuffered: a send happens together with its receive.  *)
(* A byte is <<frame, offset>>, so that order and loss can be seen.        *)
(***************************************************************************)
EXTENDS Naturals, Sequences, SequencesExt

CONSTANTS
    MaxFrames,   \* bound: frames a process writes
    MaxLen,      \* bound: payload bytes of a frame
    BufLength,   \* bufLength
    Base,        \* counters of the container before the run
    MaxUse,      \* bound: counters of the container
    W,           \* the counters are uint64: subtraction wraps at 2^W
    NsPerMs,     \* 1000000
    BytesPerMb,  \* 1024 * 1024
    LimitCPU, LimitNet, RunTime,   \* RuntimeLimits
    Faults,      \* {"stats", "stream"}: the Docker requests that may fail
    AfterReturn  \* what the caller does with its channels once Execute is back

ASSUME StreamConstantsOK ==
    /\ {MaxFrames, MaxLen, Base, LimitCPU, LimitNet, RunTime} \subseteq Nat
    /\ {BufLength, NsPerMs, BytesPerMb} \subseteq Nat \ {0}
    /\ MaxUse \in Nat /\ MaxUse >= Base /\ 2^W \in Nat /\ 2^W > MaxUse
    /\ Faults \subseteq {"stats", "stream"}
    /\ AfterReturn \in {"reads", "closes"}

VARIABLES
    frames,    \* what the process will write: [type, len] in order
    merged,    \* pipe.StdErr was nil: stderr goes to the stdout channel
    emitted,   \* frames the process has written so far
    alive,     \* does the process run?
    cpu, net,  \* the container's counters, as Docker reports them
    elapsed,   \* ticker periods since the start
    pc,        \* execAttach
    code,      \* what made it leave its loop
    curCPU, curNet, \* its local variables
    consumed,  \* what it has sent on pipe.Consumed
    stopped,   \* stopStreaming is closed
    sp,        \* streamOutput
    broken,    \* it ended with an error other than io.EOF
    pos,       \* the byte it reads next
    chunk,     \* the bytes it is about to send
    got,       \* what the caller has received on each channel
    late,      \* chunks received after stopStreaming was closed
    closed,    \* the caller has closed its channels
    panicked   \* a send on a closed channel

run == <<frames, merged>>
process == <<emitted, alive, cpu, net>>
exec == <<elapsed, pc, code, curCPU, curNet, consumed, stopped>>
stream == <<sp, broken, pos, chunk>>
caller == <<got, late, closed, panicked>>
vars == <<run, process, exec, stream, caller>>

Frame == [type : {1, 2}, len : 0 .. MaxLen]

Init ==
    /\ frames \in UNION {[1 .. n -> Frame] : n \in 0 .. MaxFrames}
    /\ merged \in BOOLEAN
    /\ emitted = 0
    /\ alive = TRUE
    /\ cpu = Base /\ net = Base
    /\ elapsed = 0
    /\ pc = "loop" /\ code = "none"
    /\ curCPU = 0 /\ curNet = 0
    /\ consumed = <<>>
    /\ stopped = FALSE
    /\ sp = "header" /\ broken = FALSE /\ pos = [frame |-> 1, off |-> 0] /\ chunk = <<>>
    /\ got = [ch \in {"stdout", "stderr"} |-> <<>>]
    /\ late = 0
    /\ closed = FALSE /\ panicked = FALSE

\* pipe.StdErr = pipe.StdOut when it was not set; type 1 and 2 as in the switch.
Channel(type) == IF type = 2 /\ ~merged THEN "stderr" ELSE "stdout"

(***************************************************************************)
(* The process and its container.                                          *)
(***************************************************************************)
Write ==
    /\ alive /\ emitted < Len(frames)
    /\ emitted' = emitted + 1
    /\ UNCHANGED <<run, alive, cpu, net, exec, stream, caller>>

UseResources ==
    /\ alive
    /\ \/ cpu < MaxUse /\ cpu' = cpu + 1 /\ UNCHANGED net
       \/ net < MaxUse /\ net' = net + 1 /\ UNCHANGED cpu
    /\ UNCHANGED <<run, emitted, alive, exec, stream, caller>>

\* The process ends once it has written everything; the StopContainer that a
\* limit starts ends it at any point.
ProcessEnds ==
    /\ alive
    /\ emitted = Len(frames) \/ stopped
    /\ alive' = FALSE
    /\ UNCHANGED <<run, emitted, cpu, net, exec, stream, caller>>

(***************************************************************************)
(* streamOutput.                                                           *)
(***************************************************************************)
StreamDone == sp = "done"

\* The connection is closed when execAttach returns.
ReadError == "stream" \in Faults \/ pc = "returned"

EndStream(err) ==
    /\ sp' = "done"
    /\ broken' = err
    /\ UNCHANGED <<run, process, exec, pos, chunk, caller>>

\* Mutant: an error of the header read does not end the goroutine.
ReadHeaderNoEOF ==
    /\ sp = "header" /\ pos.frame <= emitted
    /\ sp' = "read"
    /\ pos' = [pos EXCEPT !.off = 0]
    /\ UNCHANGED <<run, process, exec, broken, chunk, caller>>

ReadHeader ==
    /\ sp = "header"
    /\ \/ /\ pos.frame <= emitted
          /\ sp' = "read"
          /\ pos' = [pos EXCEPT !.off = 0]
          /\ UNCHANGED <<run, process, exec, broken, chunk, caller>>
       \/ /\ pos.frame > emitted /\ ~alive          \* io.EOF
          /\ EndStream(FALSE)
       \/ ReadError /\ EndStream(TRUE)

Bytes(f, from, n) == [i \in 1 .. n |-> <<f, from + i>>]

\* Mutant: offsets restart with every part of a frame.
ReadPayloadFromStart ==
    LET left == frames[pos.frame].len - pos.off IN
    /\ sp = "read" /\ left > 0
    /\ \E n \in 1 .. left :
          /\ chunk' = Bytes(pos.frame, 0, n)
          /\ pos' = [pos EXCEPT !.off = @ + n]
    /\ sp' = "select"
    /\ UNCHANGED <<run, process, exec, broken, caller>>

\* r.Read returns at least one byte and at most what the buffer holds.
ReadPayload ==
    LET left == frames[pos.frame].len - pos.off IN
    /\ sp = "read" /\ left > 0
    /\ \/ /\ \E n \in 1 .. (IF left < BufLength THEN left ELSE BufLength) :
                /\ chunk' = Bytes(pos.frame, pos.off, n)
                /\ pos' = [pos EXCEPT !.off = @ + n]
          /\ sp' = "select"
          /\ UNCHANGED <<run, process, exec, broken, caller>>
       \/ ReadError /\ EndStream(TRUE)

FrameDone ==
    /\ sp = "read" /\ pos.off = frames[pos.frame].len
    /\ sp' = "header"
    /\ pos' = [frame |-> pos.frame + 1, off |-> 0]
    /\ UNCHANGED <<run, process, exec, broken, chunk, caller>>

\* Mutant: stopStreaming is not looked at.
SelectIgnoringStop ==
    /\ sp = "select"
    /\ sp' = "send"
    /\ UNCHANGED <<run, process, exec, broken, pos, chunk, caller>>

\* select { case <-stopCh: return; default: ch <- b }
SelectStop ==
    /\ sp = "select"
    /\ sp' = IF stopped THEN "done" ELSE "send"
    /\ UNCHANGED <<run, process, exec, broken, pos, chunk, caller>>

\* The send meets the caller's receive, or finds the channel closed.
Send ==
    /\ sp = "send"
    /\ \/ /\ ~closed
          /\ got' = [got EXCEPT ![Channel(frames[pos.frame].type)] = @ \o chunk]
          /\ late' = IF stopped THEN late + 1 ELSE late
          /\ sp' = "read"
          /\ UNCHANGED panicked
       \/ /\ closed
          /\ panicked' = TRUE
          /\ sp' = "done"
          /\ UNCHANGED <<got, late>>
    /\ UNCHANGED <<run, process, exec, broken, pos, chunk, closed>>

(***************************************************************************)
(* execAttach and checkLimits.                                             *)
(***************************************************************************)
Sub(a, b) == ((a + 2^W) - b) % 2^W

\* Mutant: the run time is not limited.
checkLimitsNoTime(ok) ==
    IF ~ok THEN [cpu |-> 0, net |-> 0, err |-> FALSE]
    ELSE [cpu |-> cpu, net |-> net,
          err |-> \/ Sub(cpu, Base) \div NsPerMs > LimitCPU
                  \/ Sub(net, Base) \div BytesPerMb > LimitNet]

\* Statistics that cannot be had read as zero and as no error, and then the
\* run time is not looked at either.
checkLimits(ok) ==
    IF ~ok THEN [cpu |-> 0, net |-> 0, err |-> FALSE]
    ELSE [cpu |-> cpu, net |-> net,
          err |-> \/ Sub(cpu, Base) \div NsPerMs > LimitCPU
                  \/ Sub(net, Base) \div BytesPerMb > LimitNet
                  \/ elapsed > RunTime]

StatsAnswers == IF "stats" \in Faults THEN BOOLEAN ELSE {TRUE}

\* One more ticker period. Past RunTime all counts mean the same: two of them
\* alternate, so that every tick is a step.
NextPeriod == IF elapsed <= RunTime + 1 THEN elapsed + 1 ELSE RunTime + 1

\* case <-ticker.C
Tick ==
    /\ pc = "loop"
    /\ elapsed' = NextPeriod
    /\ \E ok \in StatsAnswers :
          LET r == checkLimits(ok) IN
          /\ curCPU' = r.cpu
          /\ curNet' = r.net
          /\ \/ ~r.err /\ UNCHANGED <<pc, code, stopped>>
             \/ /\ r.err /\ StreamDone
                /\ pc' = "final"
                /\ UNCHANGED <<code, stopped>>
             \/ /\ r.err /\ ~StreamDone
                /\ stopped' = TRUE
                /\ code' = "limit"
                /\ pc' = "consumed"
    /\ UNCHANGED <<run, process, consumed, stream, caller>>

\* Mutant: the loop is left when the process has ended, not its stream.
DoneWithProcess ==
    /\ pc = "loop" /\ ~alive
    /\ pc' = "final"
    /\ UNCHANGED <<run, process, elapsed, code, curCPU, curNet, consumed,
                   stopped, stream, caller>>

\* case <-doneStreaming
DoneStreaming ==
    /\ pc = "loop" /\ StreamDone
    /\ pc' = "final"
    /\ UNCHANGED <<run, process, elapsed, code, curCPU, curNet, consumed,
                   stopped, stream, caller>>

\* The last look at the statistics, whose error is ignored.
FinalStats ==
    /\ pc = "final"
    /\ \E ok \in StatsAnswers : /\ curCPU' = checkLimits(ok).cpu
                                /\ curNet' = checkLimits(ok).net
    /\ code' = "exit"
    /\ pc' = "consumed"
    /\ UNCHANGED <<run, process, elapsed, consumed, stopped, stream, caller>>

\* Mutant: what the container had used before the run is not subtracted.
SendConsumedTotals ==
    /\ pc = "consumed"
    /\ consumed' = Append(consumed, [cpu |-> curCPU \div NsPerMs, net |-> curNet])
    /\ pc' = "returned"
    /\ UNCHANGED <<run, process, elapsed, code, curCPU, curNet, stopped,
                   stream, caller>>

\* The exit code is asked for, and teardown started, in ContainerManager.
SendConsumed ==
    /\ pc = "consumed"
    /\ consumed' = Append(consumed, [cpu |-> Sub(curCPU, Base) \div NsPerMs,
                                     net |-> Sub(curNet, Base)])
    /\ pc' = "returned"
    /\ UNCHANGED <<run, process, elapsed, code, curCPU, curNet, stopped,
                   stream, caller>>

\* The caller's close(pipe.StdOut), close(pipe.StdErr) after Execute.
CloseChannels ==
    /\ pc = "returned" /\ AfterReturn = "closes" /\ ~closed
    /\ closed' = TRUE
    /\ UNCHANGED <<run, process, exec, stream, got, late, panicked>>

-----------------------------------------------------------------------------
StreamStep == ReadHeader \/ ReadPayload \/ FrameDone \/ SelectStop \/ Send

ExecStep == Tick \/ DoneStreaming \/ FinalStats \/ SendConsumed

Next ==
    \/ Write \/ UseResources \/ ProcessEnds
    \/ StreamStep
    \/ ExecStep
    \/ CloseChannels

\* Goroutines are scheduled, the ticker ticks, a limit stops the container. A
\* process need not write, and need not end; nothing makes a stream break while
\* its connection is open.
Fairness ==
    /\ WF_vars(StreamStep /\ (broken' => pc = "returned"))
    /\ WF_vars(Tick)
    /\ WF_vars(DoneStreaming \/ FinalStats \/ SendConsumed)
    /\ WF_vars(stopped /\ ProcessEnds)

Spec == Init /\ [][Next]_vars /\ Fairness

-----------------------------------------------------------------------------
TypeOK ==
    /\ frames \in Seq(Frame) /\ merged \in BOOLEAN
    /\ emitted \in 0 .. Len(frames)
    /\ cpu \in Base .. MaxUse /\ net \in Base .. MaxUse
    /\ elapsed \in 0 .. RunTime + 2
    /\ pc \in {"loop", "final", "consumed", "returned"}
    /\ code \in {"none", "limit", "exit"}
    /\ curCPU \in 0 .. MaxUse /\ curNet \in 0 .. MaxUse
    /\ consumed \in Seq([cpu : Nat, net : Nat])
    /\ sp \in {"header", "read", "select", "send", "done"}
    /\ pos \in [frame : 1 .. Len(frames) + 1, off : 0 .. MaxLen]
    /\ chunk \in Seq(Nat \X Nat) /\ Len(chunk) <= BufLength
    /\ got \in [{"stdout", "stderr"} -> Seq(Nat \X Nat)] /\ late \in Nat
    /\ {alive, stopped, closed, panicked, broken} \subseteq BOOLEAN

\* The bytes of the first n frames that go to channel ch ...
Output(n, ch) ==
    {b \in (1 .. n) \X (1 .. MaxLen) :
        Channel(frames[b[1]].type) = ch /\ b[2] <= frames[b[1]].len}

\* ... and the order in which they are written.
Precedes(a, b) == a[1] < b[1] \/ (a[1] = b[1] /\ a[2] < b[2])

\* However the stream is cut into reads, each channel gets its bytes in the
\* order they were written, none twice and none left out in between.
DeliveredInOrder ==
    \A ch \in DOMAIN got :
        /\ Range(got[ch]) \subseteq Output(emitted, ch)
        /\ \A i, j \in DOMAIN got[ch] : i < j => Precedes(got[ch][i], got[ch][j])
        /\ \A b \in Range(got[ch]), a \in Output(emitted, ch) :
              Precedes(a, b) => a \in Range(got[ch])

\* A process that was not stopped, and whose stream did not break, has all of
\* its output delivered before Execute returns.
CompleteOnExit ==
    pc = "returned" /\ code = "exit" /\ ~broken
    => \A ch \in DOMAIN got : Range(got[ch]) = Output(Len(frames), ch)

\* After a limit the caller gets at most the one chunk already under way.
AtMostOneLateChunk == late <= 1

\* What is reported is what was used since the run began, and no more, unless
\* the last statistics could not be had: then they read as zero, less than the
\* container had used before, and the subtraction wraps around.
ConsumedIsReal ==
    curCPU >= Base /\ curNet >= Base =>
        \A i \in DOMAIN consumed :
            /\ consumed[i].cpu * NsPerMs <= cpu - Base
            /\ consumed[i].net <= net - Base

\* Line 360: Execute "waits for end of the process OR stops the container if
\* the limits were exceeded": with a run time limit it always returns.
ExecuteReturns == <>(pc = "returned")

\* The goroutine of streamOutput does not outlive the call for ever.
StreamerEnds == (pc = "returned") ~> StreamDone

\* Callers close their channels when Execute has returned, as
\* containers_test.go does in lines 120-122.
NoSendOnClosed == ~panicked
=============================================================================
