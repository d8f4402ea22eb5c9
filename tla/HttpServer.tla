----------------------------- MODULE HttpServer -----------------------------
(***************************************************************************)
(* httpserver: the connection watcher that net/http calls back, and the    *)
(* chain of middlewares that every request passes on its way to a handler. *)
(* net/http runs one goroutine that accepts connections and one for each   *)
(* connection, and with HTTP/2 one for each request on it; they share the  *)
(* counter and the rate limiter.                                           *)
(***************************************************************************)
EXTENDS Integers, FiniteSets

CONSTANTS
    Conns,          \* incoming connections
    Reqs,           \* places for requests under way
    NoConn,         \* what a place that is free has for a connection
    OpenConnLimit,  \* Config.OpenConnLimit
    RateTenths,     \* Config.RateLimit, in tenths of a request per second
    UseTLS,         \* Config.UseTLS
    TokenSet,       \* Config.Token # ""
    CORS,           \* Config.CORS
    MayHijack       \* may a handler take its connection over?

ASSUME HttpConstantsOK ==
    /\ IsFiniteSet(Conns)
    /\ NoConn \notin Conns
    /\ OpenConnLimit \in Nat
    /\ RateTenths \in Nat
    /\ {UseTLS, TokenSet, CORS, MayHijack} \subseteq BOOLEAN

VARIABLES
    conn,      \* the protocol of each open connection, or how it has ended
    open,      \* currentlyOpen
    gauge,     \* incomingConnectionsGauge
    toSet,     \* what a callback is about to set it to, or Nothing
    racing,    \* did the last callback begin while another was about to set it?
    tokens,    \* of the rate limiter
    on,        \* the connection of each request under way
    req        \* where it is in the chain

watcher == <<open, gauge, toSet, racing>>
requests == <<on, req>>
vars == <<conn, watcher, tokens, requests>>

Nothing == -1

\* int(float64(cfg.RateLimit) * rateLimitBurstRatio)
Burst == (RateTenths * 12) \div 100

\* A TLS listener offers both in NextProtos, and the client chooses.
Protocols == IF UseTLS THEN {"h2", "http1"} ELSE {"http1"}

Init ==
    /\ conn = [c \in Conns |-> "closed"]
    /\ open = 0 /\ gauge = 0
    /\ toSet = [c \in Conns |-> Nothing]
    /\ racing = FALSE
    /\ tokens = Burst
    /\ on = [r \in Reqs |-> NoConn]
    /\ req = [r \in Reqs |-> "none"]

OpenConns == {c \in Conns : conn[c] \in {"http1", "h2"}}

ReqsOn(c) == {r \in Reqs : on[r] = c}

(***************************************************************************)
(* ConnectionWatcher.OnStateChange.                                        *)
(***************************************************************************)
InCallback(c) == toSet[c] # Nothing

\* The counter is atomic, and the callback will set the gauge to what it has got.
Count(c, n) ==
    /\ open' = n
    /\ toSet' = [toSet EXCEPT ![c] = n]
    /\ racing' = \E d \in Conns : InCallback(d)
    /\ UNCHANGED gauge

\* StateNew, called by the goroutine that accepts, which is in one callback at a
\* time. A name is used again for a new connection once nothing is left of the
\* old one.
OnNew(c) ==
    /\ c \notin OpenConns /\ ReqsOn(c) = {} /\ ~InCallback(c)
    /\ \A d \in OpenConns : ~InCallback(d)
    /\ \E p \in Protocols : conn' = [conn EXCEPT ![c] = p]
    /\ Count(c, open + 1)
    /\ UNCHANGED <<tokens, requests>>

\* Mutant: the gauge is set to the count before.
OnClosedStale(c) ==
    /\ c \in OpenConns /\ ~InCallback(c)
    /\ conn[c] = "http1" => ReqsOn(c) = {}
    /\ conn' = [conn EXCEPT ![c] = "closed"]
    /\ open' = open - 1
    /\ toSet' = [toSet EXCEPT ![c] = open]
    /\ racing' = \E d \in Conns : InCallback(d)
    /\ UNCHANGED <<gauge, tokens, requests>>

\* StateClosed, called by the goroutine of the connection. An HTTP/1 connection
\* runs its handlers in that goroutine; an HTTP/2 connection does not wait for
\* the handlers of its requests.
OnClosed(c) ==
    /\ c \in OpenConns /\ ~InCallback(c)
    /\ conn[c] = "http1" => ReqsOn(c) = {}
    /\ conn' = [conn EXCEPT ![c] = "closed"]
    /\ Count(c, open - 1)
    /\ UNCHANGED <<tokens, requests>>

\* StateHijacked, called by the handler, which goes on with a connection that is
\* not counted; HTTP/2 connections cannot be hijacked.
OnHijacked(r) ==
    /\ MayHijack
    /\ req[r] = "handler" /\ conn[on[r]] = "http1"
    /\ conn' = [conn EXCEPT ![on[r]] = "hijacked"]
    /\ Count(on[r], open - 1)
    /\ UNCHANGED <<tokens, requests>>

\* The second step of a callback.
SetGauge(c) ==
    /\ InCallback(c)
    /\ gauge' = toSet[c]
    /\ toSet' = [toSet EXCEPT ![c] = Nothing]
    /\ UNCHANGED <<conn, open, racing, tokens, requests>>

(***************************************************************************)
(* The middlewares.                                                        *)
(***************************************************************************)
\* A request arrives, on HTTP/1 once the one before it is done; the CORS
\* middleware answers OPTIONS itself.
Arrive(r, c) ==
    /\ req[r] = "none"
    /\ c \in OpenConns /\ ~InCallback(c)
    /\ conn[c] = "http1" => ReqsOn(c) = {}
    /\ \/ CORS /\ UNCHANGED requests
       \/ /\ on' = [on EXCEPT ![r] = c]
          /\ req' = [req EXCEPT ![r] = "conn"]
    /\ UNCHANGED <<conn, watcher, tokens>>

Answer(r) ==
    /\ on' = [on EXCEPT ![r] = NoConn]
    /\ req' = [req EXCEPT ![r] = "none"]

Pass(r, s) == req' = [req EXCEPT ![r] = s] /\ UNCHANGED on

\* Mutant: one connection too many is let through (> for >=).
connLimiterOffByOne(r) ==
    /\ req[r] = "conn"
    /\ \/ open > OpenConnLimit /\ Answer(r)
       \/ open <= OpenConnLimit /\ Pass(r, "rate")
    /\ UNCHANGED <<conn, watcher, tokens>>

connLimiterMiddleware(r) ==
    /\ req[r] = "conn"
    /\ \/ open >= OpenConnLimit /\ Answer(r)
       \/ open < OpenConnLimit /\ Pass(r, "rate")
    /\ UNCHANGED <<conn, watcher, tokens>>

rateLimiterMiddleware(r) ==
    /\ req[r] = "rate"
    /\ \/ tokens = 0 /\ Answer(r) /\ UNCHANGED tokens
       \/ tokens > 0 /\ tokens' = tokens - 1 /\ Pass(r, "auth")
    /\ UNCHANGED <<conn, watcher>>

Refill ==
    /\ tokens < Burst
    /\ tokens' = tokens + 1
    /\ UNCHANGED <<conn, watcher, requests>>

\* Does the request carry the right Api-Token? Then the router calls the handler
\* of its path, inside instrumentationMiddleware.
authMiddleware(r) ==
    /\ req[r] = "auth"
    /\ \E authorized \in BOOLEAN :
          IF TokenSet => authorized THEN Pass(r, "handler") ELSE Answer(r)
    /\ UNCHANGED <<conn, watcher, tokens>>

\* The handler is in its callback of OnStateChange.
Hijacking(r) == conn[on[r]] = "hijacked" /\ InCallback(on[r])

\* instrumentationMiddleware counts a result and an error; both are answered.
HandlerReturns(r) ==
    /\ req[r] = "handler" /\ ~Hijacking(r)
    /\ Answer(r)
    /\ UNCHANGED <<conn, watcher, tokens>>

\* Mutant: the panic ends the goroutine of the request.
PanicUnrecovered(r) ==
    /\ req[r] = "handler"
    /\ Pass(r, "lost")
    /\ UNCHANGED <<conn, watcher, tokens>>

\* panicLoggerMiddleware recovers, logs and answers.
HandlerPanics(r) ==
    /\ req[r] = "handler" /\ ~Hijacking(r)
    /\ Answer(r)
    /\ UNCHANGED <<conn, watcher, tokens>>

-----------------------------------------------------------------------------
RequestStep(r) ==
    \/ connLimiterMiddleware(r)
    \/ rateLimiterMiddleware(r)
    \/ authMiddleware(r)
    \/ HandlerReturns(r)
    \/ HandlerPanics(r)

Next ==
    \/ Refill
    \/ \E c \in Conns : OnNew(c) \/ OnClosed(c) \/ SetGauge(c)
    \/ \E r \in Reqs : \/ \E c \in Conns : Arrive(r, c)
                       \/ RequestStep(r)
                       \/ OnHijacked(r)

Spec == Init /\ [][Next]_vars

\* The goroutines of connections and requests are scheduled, and handlers return.
FairSpec ==
    /\ Spec
    /\ \A c \in Conns : WF_vars(SetGauge(c))
    /\ \A r \in Reqs : WF_vars(RequestStep(r))

-----------------------------------------------------------------------------
\* Requests that the connection limit has let through.
Admitted == {r \in Reqs : req[r] \in {"rate", "auth", "handler"}}

\* The open connections on which such requests are under way.
Served == {c \in OpenConns : \E r \in Admitted : on[r] = c}

TypeOK ==
    /\ conn \in [Conns -> {"closed", "hijacked", "http1", "h2"}]
    /\ open \in Nat
    /\ tokens \in 0 .. Burst
    /\ on \in [Reqs -> Conns \cup {NoConn}]
    /\ req \in [Reqs -> {"none", "conn", "rate", "auth", "handler"}]

\* What the check of the counter is worth, which is made before a request goes
\* on while connections come and go: with OpenConnLimit connections or more
\* being open nobody new gets served, so requests are under way on fewer than
\* that many. It bounds connections: over HTTP/2 each may carry any number of
\* requests, and those of a closed one go on.
ServedWithinLimit == Served # {} => Cardinality(Served) < OpenConnLimit

\* A request is under way on a connection exactly as long as it is in the chain.
OnItsConnection == \A r \in Reqs : req[r] = "none" <=> on[r] = NoConn

\* What makes it so: the counter is exact, and who asks to be admitted is counted.
AdmissionInv ==
    /\ TypeOK
    /\ OnItsConnection
    /\ open = Cardinality(OpenConns)
    /\ ServedWithinLimit

\* The gauge shows the open connections, except after callbacks that overlapped,
\* which may set it in the wrong order; it is right again after the next one that
\* is alone.
GaugeIsRight == racing \/ (\E c \in Conns : InCallback(c)) \/ gauge = open

\* Every request is answered, panics included, and leaves its connection.
EveryRequestAnswered == \A r \in Reqs : req[r] = "conn" ~> req[r] = "none"
=============================================================================
