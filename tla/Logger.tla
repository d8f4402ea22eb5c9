------------------------------- MODULE Logger -------------------------------
(***************************************************************************)
(* log: a logger that writes every record at once, or in oneline mode      *)
(* merges records into one line until Flush; and its use by the HTTP       *)
(* server. Every request logs to a clone of its own (With) and flushes it, *)
(* and a panic is logged and flushed by the base logger, which all         *)
(* requests, the server and the services of the program share without a    *)
(* lock.                                                                   *)
(*                                                                         *)
(* A record is its level, its name (for its message, never empty, and its  *)
(* fields) and whether it carries the MainMessage flag.                    *)
(***************************************************************************)
EXTENDS Integers, Sequences, FiniteSets

CONSTANTS
    Requests,
    HandlerRecords, \* bound: what handlers may log, each once
    ServiceRecords, \* bound: what services may log to the base logger, each once
    LogLevels,      \* the levels at which handlers and services log
    MinLevel        \* the level that New is given

Debug == -1
Info == 0
Error == 2
DPanic == 3
Panic == 4
Fatal == 5
ZeroLevel == Debug - 1

None == "none"
Server == "server"

\* At Fatal the program ends. For the level "debug" New leaves zap's sampling on,
\* which drops what is repeated within a second; that level is left out.
ASSUME LoggerConstantsOK ==
    /\ LogLevels \subseteq Debug .. Panic
    /\ MinLevel \in Info .. Fatal
    /\ None \notin HandlerRecords \cup Requests \cup ServiceRecords
    /\ Server \notin Requests \cup ServiceRecords
    /\ Requests \cap ServiceRecords = {}

\* Those who use the base logger: a request for its panic, a service for a record.
Users == Requests \cup ServiceRecords \cup {Server}

Record(level, name, main) == [level |-> level, name |-> name, main |-> main]

VARIABLES
    oneline,    \* the mode that New is given
    base,       \* the buffer of the base logger
    baseLines,  \* lines that it has written
    buf,        \* the buffer of each request's logger
    lines,      \* lines that it has written
    pc,         \* where a request, the server, or a service with a record stands
    copy,       \* what a user of the base logger has read of its buffer
    hist,       \* the records of a request so far
    inherited,  \* the level that its logger began with
    shared      \* have two users been in the base logger at the same time?

vars == <<oneline, base, baseLines, buf, lines, pc, copy, hist, inherited, shared>>

Empty == [level |-> ZeroLevel, message |-> None, fields |-> <<>>]

InTheBase == {"booting", "store", "output", "reset"}
Flushed == {"load", "store", "output", "reset", "panicked", "ended"}

InBase(u) == pc[u] \in InTheBase

Init ==
    /\ oneline \in BOOLEAN
    /\ base = Empty
    /\ baseLines = <<>>
    /\ buf = [r \in Requests |-> Empty]
    /\ lines = [r \in Requests |-> <<>>]
    /\ pc = [u \in Users |-> CASE u = Server -> "boot"
                               [] u \in Requests -> "new"
                               [] OTHER -> "load"]
    /\ copy = [u \in Users |-> Empty]
    /\ hist = [r \in Requests |-> <<>>]
    /\ inherited = [r \in Requests |-> ZeroLevel]
    /\ shared = FALSE

Goto(u, where) == pc' = [pc EXCEPT ![u] = where]

(***************************************************************************)
(* The logger.                                                             *)
(***************************************************************************)
\* Mutant: the latest message of a level wins.
mergeLatest(b, rec) ==
    IF rec.level < b.level THEN b
    ELSE [level |-> rec.level,
          message |-> rec.name,
          fields |-> Append(b.fields, rec.name)]

\* log, in oneline mode
merge(b, rec) ==
    IF rec.level < b.level THEN b
    ELSE [level |-> rec.level,
          message |-> IF rec.main \/ rec.level > b.level \/ b.message = None
                      THEN rec.name ELSE b.message,
          fields |-> Append(b.fields, rec.name)]

\* What zap writes.
Enabled(level) == level >= MinLevel

\* There is no case for DPanic.
directLog(line) ==
    IF Enabled(line.level) /\ line.level # DPanic THEN <<line>> ELSE <<>>

\* log, in the other mode: the record is a line of its own.
Line(rec) == [level |-> rec.level, message |-> rec.name, fields |-> <<rec.name>>]

\* Has Flush anything to write, and what does it write?
Pending(b) == oneline /\ (b.fields # <<>> \/ b.message # None)

flushed(b) == IF Pending(b) THEN directLog(b) ELSE <<>>

\* zap panics once it has written, or left out, a line at Panic; Flush gets no
\* further.
FlushPanics(b) == Pending(b) /\ b.level = Panic

(***************************************************************************)
(* A request: With, the records of the instrumentation and of the handler, *)
(* and the deferred Flush.                                                 *)
(***************************************************************************)
With(r) ==
    /\ pc[r] = "new"
    /\ buf' = [buf EXCEPT ![r] = [Empty EXCEPT !.level = base.level]]
    /\ inherited' = [inherited EXCEPT ![r] = base.level]
    /\ Goto(r, "cloned")
    /\ UNCHANGED <<oneline, base, baseLines, lines, copy, hist, shared>>

\* log, in either mode
Log(r, rec) ==
    /\ hist' = [hist EXCEPT ![r] = Append(@, rec)]
    /\ buf' = IF oneline THEN [buf EXCEPT ![r] = merge(@, rec)] ELSE buf
    /\ lines' = IF oneline THEN lines ELSE [lines EXCEPT ![r] = @ \o directLog(Line(rec))]
    /\ UNCHANGED <<oneline, base, baseLines, copy, inherited, shared>>

\* "start", perhaps after an error about the session.
LogStart(r) ==
    \/ /\ pc[r] = "cloned"
       /\ Log(r, Record(Error, "no session", FALSE))
       /\ Goto(r, "start")
    \/ /\ pc[r] \in {"cloned", "start"}
       /\ Log(r, Record(Info, "start", FALSE))
       /\ Goto(r, "handler")

\* At Panic a logger that writes at once panics, one that merges does not.
LogHandler(r) ==
    /\ pc[r] = "handler"
    /\ \E name \in HandlerRecords, level \in LogLevels, main \in BOOLEAN :
          /\ \A q \in Requests : \A i \in DOMAIN hist[q] : hist[q][i].name # name
          /\ Log(r, Record(level, name, main))
          /\ Goto(r, IF ~oneline /\ level = Panic THEN "flush panic" ELSE "handler")

HandlerPanics(r) ==
    /\ pc[r] = "handler"
    /\ Goto(r, "flush panic")
    /\ UNCHANGED <<oneline, base, baseLines, buf, lines, copy, hist, inherited, shared>>

\* "finish", and the error that the handler has returned, if any.
LogFinish(r) ==
    \/ /\ pc[r] = "handler"
       /\ Log(r, Record(Info, "finish", FALSE))
       /\ \E next \in {"runtime", "flush"} : Goto(r, next)
    \/ /\ pc[r] = "runtime"
       /\ Log(r, Record(Error, "runtime", TRUE))
       /\ Goto(r, "flush")

Flush(r) ==
    /\ pc[r] \in {"flush", "flush panic"}
    /\ lines' = [lines EXCEPT ![r] = @ \o flushed(buf[r])]
    /\ buf' = IF ~oneline \/ FlushPanics(buf[r]) THEN buf ELSE [buf EXCEPT ![r] = Empty]
    /\ Goto(r, IF pc[r] = "flush panic" \/ FlushPanics(buf[r]) THEN "load" ELSE "ended")
    /\ UNCHANGED <<oneline, base, baseLines, copy, hist, inherited, shared>>

(***************************************************************************)
(* The base logger. Its users do not wait for each other: log reads the    *)
(* buffer and stores the new one, Flush writes the line and then empties   *)
(* the buffer, and what others have stored in between is lost. (A slice    *)
(* header torn between two stores is left out.)                            *)
(***************************************************************************)
\* What the server logs when it starts and when it is told to end (two records
\* in a row there, taken as one), a panic, and what a service logs.
BaseRecords(u) ==
    CASE u = Server -> {Record(Info, Server, pc[u] = "store")}
      [] u \in Requests -> {Record(Error, u, FALSE)}
      [] OTHER -> {Record(level, u, main) : level \in LogLevels, main \in BOOLEAN}

Enter(u) == shared' = (shared \/ \E v \in Users \ {u} : InBase(v))

BaseLoad(u) ==
    /\ pc[u] \in {"boot", "load"}
    /\ copy' = [copy EXCEPT ![u] = base]
    /\ Enter(u)
    /\ Goto(u, IF pc[u] = "boot" THEN "booting" ELSE "store")
    /\ UNCHANGED <<oneline, base, baseLines, buf, lines, hist, inherited>>

\* What the server logs when it starts stays there, what a service logs may; all
\* else is flushed at once. At Panic a logger that writes at once panics.
BaseStore(u) ==
    /\ pc[u] \in {"booting", "store"}
    /\ \E rec \in BaseRecords(u) :
          /\ base' = IF oneline THEN merge(copy[u], rec) ELSE base
          /\ baseLines' = IF oneline THEN baseLines ELSE baseLines \o directLog(Line(rec))
    /\ copy' = [copy EXCEPT ![u] = Empty]
    /\ \/ pc[u] = "booting" /\ Goto(u, "serving")
       \/ pc[u] = "store" /\ Goto(u, "output")
       \/ u \in ServiceRecords /\ Goto(u, "ended")
    /\ UNCHANGED <<oneline, buf, lines, hist, inherited, shared>>

\* A signal: the server logs it, and flushes.
Terminate ==
    /\ pc[Server] = "serving"
    /\ Goto(Server, "load")
    /\ UNCHANGED <<oneline, base, baseLines, buf, lines, copy, hist, inherited, shared>>

\* Mutant: Flush empties the buffer first.
BaseOutputEmpty(u) ==
    /\ pc[u] = "output"
    /\ baseLines' = baseLines \o flushed(Empty)
    /\ Goto(u, "reset")
    /\ UNCHANGED <<oneline, base, buf, lines, copy, hist, inherited, shared>>

BaseOutput(u) ==
    /\ pc[u] = "output"
    /\ baseLines' = baseLines \o flushed(base)
    /\ Goto(u, IF FlushPanics(base) THEN "panicked" ELSE "reset")
    /\ UNCHANGED <<oneline, base, buf, lines, copy, hist, inherited, shared>>

BaseReset(u) ==
    /\ pc[u] = "reset"
    /\ base' = IF oneline THEN Empty ELSE base
    /\ Goto(u, "ended")
    /\ UNCHANGED <<oneline, baseLines, buf, lines, copy, hist, inherited, shared>>

-----------------------------------------------------------------------------
Next ==
    \/ \E r \in Requests :
          \/ With(r) \/ LogStart(r) \/ LogHandler(r) \/ HandlerPanics(r)
          \/ LogFinish(r) \/ Flush(r)
    \/ \E u \in Users : BaseLoad(u) \/ BaseStore(u) \/ BaseOutput(u) \/ BaseReset(u)
    \/ Terminate

Spec == Init /\ [][Next]_vars

-----------------------------------------------------------------------------
Position(S, i) == Cardinality({j \in S : j <= i})

\* seq is what f has at the indices in S, in their order.
Lists(seq, S, f) ==
    /\ Len(seq) = Cardinality(S)
    /\ \A i \in S : seq[Position(S, i)] = f[i]

\* Of the records h of a request, those that count: not below the level low that
\* its logger began with, and not below an earlier one.
Kept(h, low) ==
    {i \in DOMAIN h : h[i].level >= low /\ \A j \in 1 .. i - 1 : h[j].level <= h[i].level}

Tops(h, low) == {i \in Kept(h, low) : \A j \in Kept(h, low) : h[j].level <= h[i].level}

\* The one that gives its level and its message to the line: of those of the
\* highest level the last that is flagged, or else the first.
Main(h, low, i) ==
    /\ i \in Tops(h, low)
    /\ \/ h[i].main /\ \A j \in Tops(h, low) : j > i => ~h[j].main
       \/ \A j \in Tops(h, low) : j >= i /\ ~h[j].main

\* The line of the records that count has the fields of them all.
Merged(h, low, line) ==
    /\ \E i \in Kept(h, low) :
          Main(h, low, i) /\ line.level = h[i].level /\ line.message = h[i].name
    /\ Lists(line.fields, Kept(h, low), [i \in DOMAIN h |-> h[i].name])

\* What the README of the logger promises for oneline mode: "a single log record".
OneLine(h, low, ls) ==
    IF \E i \in Kept(h, low) : Main(h, low, i) /\ Enabled(h[i].level)
    THEN Len(ls) = 1 /\ Merged(h, low, ls[1])
    ELSE ls = <<>>

DPanicOnTop(h, low) == \E i \in Kept(h, low) : Main(h, low, i) /\ h[i].level = DPanic

\* And for the other mode, in which it "works just like a normal zap logger",
\* DPanic excepted.
LineForEach(h, ls) ==
    Lists(ls, {i \in DOMAIN h : Enabled(h[i].level) /\ h[i].level # DPanic},
          [i \in DOMAIN h |-> Line(h[i])])

\* A request that has ended, panic or not, has left the lines that the README of
\* the logger promises for its records, one for all of them or one for each, with
\* two exceptions. Records below the level of whatever waited in the base logger
\* when that of the request was cloned are gone without a trace. And so are
\* records at DPanic, and in oneline mode all that were merged with one: the
\* README has no such gap.
LinesAsPromised ==
    \A r \in Requests :
        pc[r] \in Flushed =>
            IF oneline
            THEN \/ OneLine(hist[r], inherited[r], lines[r])
                 \/ DPanicOnTop(hist[r], inherited[r]) /\ lines[r] = <<>>
            ELSE LineForEach(hist[r], lines[r])

\* A line has name among its fields.
InLine(ls, name) ==
    \E n \in DOMAIN ls : \E k \in DOMAIN ls[n].fields : ls[n].fields[k] = name

\* As long as no two users are in the base logger at the same time, a panic is in
\* a line by the time its request is done with Flush. The exception: a service has
\* left a DPanic or a Panic in the buffer, which outranks it. A Panic stays there
\* for good, since Flush panics before it empties the buffer.
PanicsAreWritten ==
    ~shared /\ MinLevel <= Error =>
        \A r \in Requests :
            pc[r] \in {"reset", "panicked"} =>
                InLine(baseLines, r) \/ (oneline /\ base.level > Error)

(***************************************************************************)
(* The inductive invariant.                                                *)
(***************************************************************************)
Names == HandlerRecords \cup Users \cup {"start", "no session", "finish", "runtime"}
Records == [level : Debug .. Panic, name : Names, main : BOOLEAN]
Buffers == [level : ZeroLevel .. Panic, message : Names \cup {None}, fields : Seq(Names)]

Unflushed == {"cloned", "start", "handler", "runtime", "flush", "flush panic"}

TypeOK ==
    /\ oneline \in BOOLEAN
    /\ base \in Buffers
    /\ baseLines \in Seq(Buffers)
    /\ buf \in [Requests -> Buffers]
    /\ lines \in [Requests -> Seq(Buffers)]
    /\ pc \in [Users -> {"boot", "serving", "new"} \cup Unflushed \cup InTheBase \cup Flushed]
    /\ copy \in [Users -> Buffers]
    /\ hist \in [Requests -> Seq(Records)]
    /\ inherited \in [Requests -> ZeroLevel .. Panic]
    /\ shared \in BOOLEAN

\* What a buffer that began at level low holds after the records h. The level is
\* not below any record, so that one that is merged is not below an earlier one.
Holds(b, h, low) ==
    /\ \A i \in DOMAIN h : h[i].level <= b.level
    /\ IF Kept(h, low) = {} THEN b.level = low /\ b.message = None /\ b.fields = <<>>
       ELSE Merged(h, low, b)

\* A request that is still logging, or about to flush.
BufferInv ==
    \A r \in Requests :
        /\ pc[r] = "new" => hist[r] = <<>> /\ lines[r] = <<>>
        /\ pc[r] \in Unflushed =>
              IF oneline THEN lines[r] = <<>> /\ Holds(buf[r], hist[r], inherited[r])
              ELSE LineForEach(hist[r], lines[r])

LinesInv == TypeOK /\ BufferInv /\ LinesAsPromised

\* As long as its users have not met there is one at a time, who knows what is in
\* it; and a panic is in the buffer, or in a line when that is written, or it has
\* met what outranks it. Whoever resets the buffer has not panicked, and who has
\* panicked has left a Panic behind.
OneAtATime == \A u, v \in Users : InBase(u) /\ InBase(v) => u = v

CopyIsCurrent == \A u \in Users : pc[u] \in {"booting", "store"} => copy[u] = base

PanicHasFields ==
    \A b \in {base} \cup {copy[u] : u \in Users} : b.level = Panic => b.fields # <<>>

PanicInBuffer ==
    \A r \in Requests : oneline /\ pc[r] = "output" =>
        base.level > Error \/ (base.level = Error /\ InLine(<<base>>, r))

PanicInLine ==
    \A r \in Requests :
        /\ ~oneline /\ pc[r] = "output" => InLine(baseLines, r)
        /\ pc[r] = "reset" => InLine(baseLines, r) \/ (oneline /\ base.level > Error)

PanicsStay ==
    \A u \in Users :
        /\ oneline /\ pc[u] = "reset" => base.level # Panic
        /\ pc[u] = "panicked" => oneline /\ base.level = Panic

BaseInv ==
    /\ PanicHasFields
    /\ ~shared =>
          /\ OneAtATime /\ CopyIsCurrent /\ PanicInBuffer /\ PanicsStay
          /\ MinLevel <= Error => PanicInLine

PanicsInv == TypeOK /\ BaseInv
=============================================================================
