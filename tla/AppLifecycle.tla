---------------------------- MODULE AppLifecycle ----------------------------
(***************************************************************************)
(* app/app.go with appstatus and statserver: registration of services, the *)
(* configuration, the start of the two servers and the services in one     *)
(* errgroup, readiness as a Kubernetes probe sees it, and the shutdown.    *)
(***************************************************************************)
EXTENDS Naturals, Sequences, FiniteSets

CONSTANTS
    Services,      \* names a program may register a service under
    MaxHandlers,   \* bound: handlers of a service
    Faults         \* what may fail: subset of FaultKinds

FaultKinds == {"setup", "factory", "stat", "statShutdown", "http", "service"}

ASSUME AppConstantsOK ==
    /\ Faults \subseteq FaultKinds
    /\ MaxHandlers \in Nat
    /\ Services \cap {"stat", "http", "term", "none"} = {}

VARIABLES
    pc,        \* where Run stands
    defs,      \* serviceDefs
    created,   \* services
    handlers,  \* their GetHandlers: Options.SIDRequired of each
    current,   \* the service whose handlers are being added
    getter,    \* is sessionGetter set, in addHandlers?
    routed,    \* handlers of each service that the router has
    ready,     \* appstatus.serviceReady: "none" where there is no entry
    alive,     \* appstatus.appAlive
    go,        \* the goroutines of the errgroup
    ctxDone,   \* the errgroup's context is cancelled
    signal,    \* a signal is on its way to the term handler, or was received
    probe,     \* what the last readiness probe saw
    request    \* what became of the last request routed on its account

startup == <<defs, created, handlers, current, getter, routed>>
status == <<ready, alive>>
cluster == <<probe, request>>
vars == <<pc, startup, status, go, ctxDone, signal, cluster>>

Names == Services \cup {"app"}
Goroutines == Services \cup {"stat", "http", "term"}
Ended == {"exited", "fatal", "killed"}
Returned == {"ok", "failed"}

HandlerLists == UNION {[1 .. n -> BOOLEAN] : n \in 0 .. MaxHandlers}

Init ==
    /\ pc = "register"
    /\ defs = {}
    /\ created = {}
    /\ handlers = [s \in Services |-> <<>>]
    /\ current = "none" /\ getter = FALSE
    /\ routed = [s \in Services |-> 0]
    /\ ready = [n \in Names |-> "none"]
    /\ alive = TRUE
    /\ go = [g \in Goroutines |-> "none"]
    /\ ctxDone = FALSE
    /\ signal = "none"
    /\ probe = "none" /\ request = "none"

Fatal == pc' = "fatal"          \* logger.Fatal ends the program

(***************************************************************************)
(* appstatus.                                                              *)
(***************************************************************************)
GetServiceReporter(n) == ready[n] = "none" /\ ready' = [ready EXCEPT ![n] = "no"]

SetReady(n, r) == ready' = [ready EXCEPT ![n] = r]

IsReady == \A n \in Names : ready[n] # "no"

\* A service may report at any time once its factory has been given the reporter.
ServiceReports(s) ==
    /\ s \in created /\ pc \notin Ended
    /\ \/ \E r \in {"yes", "no"} : SetReady(s, r) /\ UNCHANGED alive
       \/ alive' = FALSE /\ UNCHANGED ready      \* Dead
    /\ UNCHANGED <<pc, startup, go, ctxDone, signal, cluster>>

(***************************************************************************)
(* Registration and Run up to the start of the goroutines.                 *)
(***************************************************************************)
RegisterService(s) ==
    /\ pc = "register"
    /\ defs' = defs \cup {s}
    /\ UNCHANGED <<pc, created, handlers, current, getter, routed, status, go,
                   ctxDone, signal, cluster>>

\* The configs that DefaultsAndRequired is called for: from a file all of them,
\* from a struct those it has a section for.
Checked(src, present) ==
    LET all == {"app"} \cup defs IN IF src = "file" THEN all ELSE present \cap all

\* No required value is left empty.
DefaultsAndRequired(checked, lacking) == checked \cap lacking = {}

\* Mutant: the application itself does not report.
RunWithoutReporter ==
    /\ pc = "register"
    /\ pc' = "create"
    /\ UNCHANGED <<startup, status, go, ctxDone, signal, cluster>>

\* Reads the configuration, in which some sections are present and some configs
\* are left without a required value; an error, as any of the setup after it,
\* ends the program.
Run ==
    /\ pc = "register"
    /\ \E src \in {"file", "struct"}, present, lacking \in SUBSET Names :
          LET checked == Checked(src, present) IN
          \/ /\ DefaultsAndRequired(checked, lacking)
             /\ GetServiceReporter("app")
             /\ pc' = "create"
          \/ /\ ~DefaultsAndRequired(checked, lacking) \/ "setup" \in Faults
             /\ Fatal
             /\ UNCHANGED ready
    /\ UNCHANGED <<defs, created, handlers, current, getter, routed, alive, go,
                   ctxDone, signal, cluster>>

\* Mutant: services are created that nobody has registered.
CreateAnyService(s) ==
    /\ pc = "create" /\ s \notin created
    /\ GetServiceReporter(s)
    /\ created' = created \cup {s}
    /\ UNCHANGED <<pc, defs, handlers, current, getter, routed, alive, go,
                   ctxDone, signal, cluster>>

\* A name that has a reporter already ends the program, as does a factory error.
CreateService(s) ==
    /\ pc = "create" /\ s \in defs \ created
    /\ \/ /\ GetServiceReporter(s)
          /\ created' = created \cup {s}
          /\ \E h \in HandlerLists : handlers' = [handlers EXCEPT ![s] = h]
          /\ UNCHANGED pc
       \/ /\ ready[s] # "none" \/ "factory" \in Faults
          /\ Fatal
          /\ UNCHANGED <<created, handlers, ready>>
    /\ UNCHANGED <<defs, current, getter, routed, alive, go, ctxDone,
                   signal, cluster>>

StartServers ==
    /\ pc = "create" /\ created = defs
    /\ go' = [go EXCEPT !["stat"] = "running", !["http"] = "running"]
    /\ pc' = "handlers"
    /\ UNCHANGED <<startup, status, ctxDone, signal, cluster>>

\* for name, service := range a.services
NextService(s) ==
    /\ pc = "handlers" /\ current = "none"
    /\ s \in created /\ go[s] = "none"
    /\ current' = s
    /\ getter' = TRUE
    /\ UNCHANGED <<pc, defs, created, handlers, routed, status, go, ctxDone,
                   signal, cluster>>

\* One handler of addHandlers. A handler that needs no session takes the getter
\* away, and the next one that needs it ends the program.
AddHandler ==
    /\ pc = "handlers" /\ current # "none"
    /\ routed[current] < Len(handlers[current])
    /\ LET sidRequired == handlers[current][routed[current] + 1] IN
       \/ /\ sidRequired => getter
          /\ getter' = sidRequired
          /\ routed' = [routed EXCEPT ![current] = @ + 1]
          /\ UNCHANGED pc
       \/ /\ sidRequired /\ ~getter
          /\ Fatal
          /\ UNCHANGED <<getter, routed>>
    /\ UNCHANGED <<defs, created, handlers, current, status, go, ctxDone, signal,
                   cluster>>

StartService ==
    /\ pc = "handlers" /\ current # "none"
    /\ routed[current] = Len(handlers[current])
    /\ go' = [go EXCEPT ![current] = "running"]
    /\ current' = "none"
    /\ UNCHANGED <<pc, defs, created, handlers, getter, routed, status, ctxDone,
                   signal, cluster>>

BecomeReady ==
    /\ pc = "handlers" /\ current = "none"
    /\ \A s \in created : go[s] # "none"
    /\ SetReady("app", "yes")
    /\ pc' = "term"
    /\ UNCHANGED <<startup, alive, go, ctxDone, signal, cluster>>

StartTermHandler ==
    /\ pc = "term"
    /\ go' = [go EXCEPT !["term"] = "running"]
    /\ pc' = "wait"
    /\ UNCHANGED <<startup, status, ctxDone, signal, cluster>>

(***************************************************************************)
(* The errgroup.                                                           *)
(***************************************************************************)
\* The first error cancels the context; a nil result does not.
Return(g, result) ==
    /\ go' = [go EXCEPT ![g] = result]
    /\ ctxDone' = (ctxDone \/ result = "failed")
    /\ UNCHANGED <<pc, startup, status, signal, cluster>>

\* statServer.Run: its Shutdown may run out of time, and says so.
StatServerReturns ==
    /\ go["stat"] = "running" /\ pc \notin Ended
    /\ \/ "stat" \in Faults /\ Return("stat", "failed")
       \/ ctxDone /\ Return("stat", "ok")
       \/ ctxDone /\ "statShutdown" \in Faults /\ Return("stat", "failed")

\* Mutant: the API server does not watch the context.
HttpServerServesOn ==
    /\ go["http"] = "running" /\ pc \notin Ended
    /\ "http" \in Faults /\ Return("http", "failed")

\* httpServer.Run: an error of Shutdown is only logged.
HttpServerReturns ==
    /\ go["http"] = "running" /\ pc \notin Ended
    /\ \/ "http" \in Faults /\ Return("http", "failed")
       \/ ctxDone /\ Return("http", "ok")

ServiceReturns(s) ==
    /\ go[s] = "running" /\ pc \notin Ended
    /\ \/ Return(s, "ok")
       \/ "service" \in Faults /\ Return(s, "failed")

\* Mutant: the signal is received and the context left alone.
TermHandlerNoCancel ==
    /\ go["term"] = "running" /\ pc \notin Ended
    /\ \/ ctxDone /\ UNCHANGED <<ctxDone, signal>>
       \/ signal = "sent" /\ signal' = "received" /\ UNCHANGED ctxDone
    /\ go' = [go EXCEPT !["term"] = "ok"]
    /\ UNCHANGED <<pc, startup, status, cluster>>

TermHandlerReturns ==
    /\ go["term"] = "running" /\ pc \notin Ended
    /\ \/ ctxDone /\ UNCHANGED <<ctxDone, signal>>
       \/ signal = "sent" /\ signal' = "received" /\ ctxDone' = TRUE
    /\ go' = [go EXCEPT !["term"] = "ok"]
    /\ UNCHANGED <<pc, startup, status, cluster>>

\* Mutant: services are not run in the errgroup, and nobody waits for them.
WaitForServers ==
    /\ pc = "wait"
    /\ \A g \in {"stat", "http", "term"} : go[g] \in Returned
    /\ pc' = "sleep"
    /\ SetReady("app", "no")
    /\ ctxDone' = TRUE
    /\ UNCHANGED <<startup, alive, go, signal, cluster>>

\* eg.Wait returns when every goroutine has; NotReady; then ShutdownDelay.
Wait ==
    /\ pc = "wait"
    /\ \A g \in Goroutines : go[g] \in Returned \cup {"none"}
    /\ pc' = "sleep"
    /\ SetReady("app", "no")
    /\ ctxDone' = TRUE
    /\ UNCHANGED <<startup, alive, go, signal, cluster>>

Exit ==
    /\ pc = "sleep"
    /\ pc' = "exited"
    /\ UNCHANGED <<startup, status, go, ctxDone, signal, cluster>>

(***************************************************************************)
(* The outside: SIGTERM, the readiness probe, and the requests that the    *)
(* cluster routes here as long as the last probe succeeded.                *)
(***************************************************************************)
\* Before signal.Notify a signal ends the program at once.
Signal ==
    /\ signal = "none" /\ pc \notin Ended \cup {"register"}
    /\ IF go["term"] = "none" THEN pc' = "killed" /\ UNCHANGED signal
       ELSE signal' = "sent" /\ UNCHANGED pc
    /\ UNCHANGED <<startup, status, go, ctxDone, cluster>>

Probe ==
    /\ pc \notin Ended
    /\ probe' = IF go["stat"] # "running" THEN "refused"
                ELSE IF IsReady THEN "ok" ELSE "fail"
    /\ UNCHANGED <<pc, startup, status, go, ctxDone, signal, request>>

AllRouted == \A s \in defs : s \in created /\ routed[s] = Len(handlers[s])

Request ==
    /\ pc \notin Ended /\ probe = "ok"
    /\ request' = IF go["http"] # "running" THEN "refused"
                  ELSE IF AllRouted THEN "served" ELSE "missing"
    /\ UNCHANGED <<pc, startup, status, go, ctxDone, signal, probe>>

-----------------------------------------------------------------------------
MainStep ==
    \/ Run
    \/ \E s \in Services : CreateService(s) \/ NextService(s)
    \/ StartServers \/ AddHandler \/ StartService \/ BecomeReady
    \/ StartTermHandler \/ Wait \/ Exit

Next ==
    \/ \E s \in Services : RegisterService(s) \/ ServiceReports(s) \/ ServiceReturns(s)
    \/ MainStep
    \/ StatServerReturns \/ HttpServerReturns \/ TermHandlerReturns
    \/ Signal \/ Probe \/ Request

\* Goroutines are scheduled, and a service returns when its context is done.
\* Nothing makes a server fail.
Fairness ==
    /\ WF_vars(pc # "register" /\ MainStep)
    /\ WF_vars(StatServerReturns /\ go'["stat"] = "ok")
    /\ WF_vars(HttpServerReturns /\ go'["http"] = "ok")
    /\ WF_vars(TermHandlerReturns)
    /\ \A s \in Services : WF_vars(ctxDone /\ ServiceReturns(s) /\ go'[s] = "ok")

Spec == Init /\ [][Next]_vars /\ Fairness

-----------------------------------------------------------------------------
TypeOK ==
    /\ pc \in {"register", "create", "handlers", "term", "wait", "sleep"} \cup Ended
    /\ created \subseteq defs /\ defs \subseteq Services
    /\ current \in created \cup {"none"}
    /\ \A s \in Services : routed[s] \in 0 .. Len(handlers[s])
    /\ ready \in [Names -> {"none", "yes", "no"}]
    /\ go \in [Goroutines -> {"none", "running"} \cup Returned]
    /\ signal \in {"none", "sent", "received"}

\* The servers run before the routes are there. A cluster that waits for
\* /ready never sends a request to a router that lacks some of them.
RoutedWhenReady == request # "missing"

\* SIGTERM ends the program, whatever the services and servers are doing.
SignalEnds == signal = "sent" ~> pc \in Ended

\* When one server or service fails, all are stopped and the program ends.
FailureEnds == (\E g \in Goroutines : go[g] = "failed") ~> pc \in Ended

\* The context is cancelled by a failure, by the signal or by the end of Wait, and
\* by nothing else; and when Wait has returned, nothing runs any more.
ShutdownInOrder ==
    /\ ctxDone <=> \/ \E g \in Goroutines : go[g] = "failed"
                   \/ signal = "received"
                   \/ pc \in {"sleep", "exited"}
    /\ pc \in {"sleep", "exited"} => \A g \in Goroutines : go[g] # "running"
=============================================================================
