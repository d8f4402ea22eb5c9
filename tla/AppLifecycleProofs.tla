------------------------- MODULE AppLifecycleProofs -------------------------
(***************************************************************************)
(* AppLifecycle, for any number of services and handlers and all failures: *)
(* /ready keeps requests away from a router that lacks routes, and the     *)
(* shutdown leaves nothing running.                                        *)
(***************************************************************************)
EXTENDS AppLifecycle, TLAPS

Running == {"term", "wait", "sleep"}

\* The lists of handlers that services have.
ListsOK == handlers \in [Services -> Seq(BOOLEAN)] /\ routed \in [Services -> Nat]

\* Nothing happens to a service before it is created, and it runs only with all
\* of its handlers in the router.
ServiceInv ==
    \A s \in Services :
        /\ s \notin created => routed[s] = 0 /\ go[s] = "none"
        /\ go[s] # "none" => routed[s] = Len(handlers[s])

\* Nothing is created before Run.
RegisterInv == pc = "register" => created = {} /\ ready["app"] = "none"

\* The order of the start.
StartInv ==
    /\ pc \in {"register", "create"} => go["stat"] = "none"
    /\ pc \in {"create", "handlers"} => ready["app"] = "no"
    /\ "app" \notin created
    /\ pc \in {"handlers"} \cup Running => created = defs
    /\ pc \in Running => \A s \in created : go[s] # "none"

\* A probe that succeeds comes after the start.
ProbeInv == probe = "ok" => pc \in Running \cup Ended

AppInv ==
    /\ TypeOK /\ ListsOK /\ ServiceInv /\ RegisterInv /\ StartInv /\ ProbeInv
    /\ RoutedWhenReady

LEMMA ListsAreSequences ==
    ASSUME NEW h \in HandlerLists
    PROVE  h \in Seq(BOOLEAN) /\ Len(h) \in Nat
<1>1. PICK n \in 0 .. MaxHandlers : h \in [1 .. n -> BOOLEAN]
  BY DEF HandlerLists
<1>2. n \in Nat
  BY AppConstantsOK
<1>3. h \in Seq(BOOLEAN)
  BY <1>1, <1>2
<1> QED BY <1>3

LEMMA InitOK == Init => AppInv
<1> SUFFICES ASSUME Init PROVE AppInv
  OBVIOUS
<1> USE AppConstantsOK DEF Init, Names, Goroutines
<1>1. TypeOK
  BY DEF TypeOK, Returned, Ended
<1>2. ListsOK
  BY DEF ListsOK
<1>3. ServiceInv
  BY DEF ServiceInv
<1>4. RegisterInv /\ StartInv /\ ProbeInv /\ RoutedWhenReady
  BY DEF RegisterInv, StartInv, ProbeInv, RoutedWhenReady, Running
<1> QED BY <1>1, <1>2, <1>3, <1>4 DEF AppInv

LEMMA RunStep == AppInv /\ Run => AppInv'
<1> SUFFICES ASSUME AppInv, Run PROVE AppInv'
  OBVIOUS
<1> USE AppConstantsOK DEF AppInv
<1>1. CASE pc' = "fatal" /\ UNCHANGED ready
  BY <1>1 DEF Run, TypeOK, Ended, cluster, ListsOK, ServiceInv, RegisterInv, StartInv,
     ProbeInv, RoutedWhenReady, Running
<1>2. CASE GetServiceReporter("app") /\ pc' = "create"
  <2>1. /\ pc = "register"
        /\ ready' = [ready EXCEPT !["app"] = "no"]
        /\ UNCHANGED <<defs, created, handlers, current, getter, routed, alive, go,
                       ctxDone, signal, probe, request>>
    BY <1>2 DEF Run, cluster, GetServiceReporter
  <2>2. TypeOK' /\ ready'["app"] = "no"
    BY <1>2, <2>1 DEF TypeOK, Names
  <2> QED BY <1>2, <2>1, <2>2 DEF ListsOK, ServiceInv, RegisterInv, StartInv, ProbeInv,
          RoutedWhenReady, Running, Ended
<1> QED BY <1>1, <1>2 DEF Run, Fatal

LEMMA CreateStep ==
    ASSUME NEW s \in Services
    PROVE  AppInv /\ CreateService(s) => AppInv'
<1> SUFFICES ASSUME AppInv, CreateService(s) PROVE AppInv'
  OBVIOUS
<1> USE AppConstantsOK DEF AppInv
<1>1. /\ pc = "create" /\ s \in defs \ created
      /\ UNCHANGED <<defs, current, getter, routed, alive, go, ctxDone,
                     signal, probe, request>>
  BY DEF CreateService, cluster
<1>2. CASE pc' = "fatal" /\ UNCHANGED <<created, handlers, ready>>
  BY <1>1, <1>2 DEF TypeOK, Ended, ListsOK, ServiceInv, RegisterInv, StartInv,
     ProbeInv, RoutedWhenReady, Running
<1>3. ASSUME NEW h \in HandlerLists, GetServiceReporter(s), created' = created \cup {s},
             handlers' = [handlers EXCEPT ![s] = h], UNCHANGED pc
      PROVE  AppInv'
  <2>1. s # "app"
    BY <1>1, <1>3 DEF StartInv, GetServiceReporter
  <2>2. h \in Seq(BOOLEAN) /\ Len(h) \in Nat
    BY ListsAreSequences
  <2>3. ListsOK' /\ routed[s] = 0 /\ go[s] = "none"
    BY <1>1, <1>3, <2>2 DEF ListsOK, ServiceInv
  <2>4. \A t \in Services \ {s} : handlers'[t] = handlers[t]
    BY <1>3 DEF ListsOK
  <2>5. \A t \in Services : routed'[t] \in 0 .. Len(handlers'[t])
    BY <1>1, <1>3, <2>2, <2>3, <2>4 DEF TypeOK, ListsOK
  <2>6. ready' = [ready EXCEPT ![s] = "no"]
    BY <1>3 DEF GetServiceReporter
  <2>7. TypeOK'
    BY <1>1, <1>3, <2>5, <2>6 DEF TypeOK, Names
  <2>8. ServiceInv'
    BY <1>1, <1>3, <2>3, <2>4 DEF ServiceInv
  <2>9. RegisterInv' /\ StartInv' /\ ProbeInv' /\ RoutedWhenReady'
    BY <1>1, <1>3, <2>1, <2>6 DEF RegisterInv, StartInv, ProbeInv, RoutedWhenReady, Running, TypeOK, Names
  <2> QED BY <2>3, <2>7, <2>8, <2>9
<1> QED BY <1>2, <1>3 DEF CreateService, Fatal

\* Steps of the start after the services are created.
LEMMA HandlersStep == AppInv /\ AddHandler => AppInv'
<1> SUFFICES ASSUME AppInv, AddHandler PROVE AppInv'
  OBVIOUS
<1> USE AppConstantsOK DEF AppInv
<1>1. /\ pc = "handlers" /\ current # "none" /\ routed[current] < Len(handlers[current])
      /\ UNCHANGED <<defs, created, handlers, current, ready, alive, go,
                     ctxDone, signal, probe, request>>
      /\ \/ routed' = [routed EXCEPT ![current] = @ + 1] /\ pc' = pc
         \/ pc' = "fatal" /\ routed' = routed
  BY DEF AddHandler, Fatal, status, cluster
<1>2. current \in created /\ created \subseteq Services
  BY <1>1 DEF TypeOK
<1>3. go[current] = "none"
  BY <1>1, <1>2 DEF ServiceInv, TypeOK, ListsOK
<1>4. ListsOK' /\ (\A t \in Services : routed'[t] \in 0 .. Len(handlers[t]))
  <2>1. \A t \in Services : Len(handlers[t]) \in Nat
    BY DEF ListsOK
  <2>2. CASE routed' = routed
    BY <1>1, <2>2 DEF ListsOK, TypeOK
  <2>3. CASE routed' = [routed EXCEPT ![current] = @ + 1]
    <3>1. ListsOK'
      BY <1>1, <1>2, <2>3 DEF ListsOK
    <3>2. current \in Services /\ routed'[current] = routed[current] + 1
      BY <1>2, <2>3 DEF ListsOK, TypeOK
    <3>3. routed'[current] \in 0 .. Len(handlers[current])
      BY <1>1, <2>1, <3>2 DEF ListsOK
    <3>4. \A t \in Services \ {current} : routed'[t] = routed[t]
      BY <2>3 DEF ListsOK
    <3> QED BY <3>1, <3>3, <3>4 DEF TypeOK
  <2> QED BY <1>1, <2>2, <2>3
<1>5. TypeOK'
  BY <1>1, <1>4 DEF TypeOK, Ended
<1>6. ServiceInv'
  BY <1>1, <1>2, <1>3 DEF ServiceInv, ListsOK
<1>7. RegisterInv' /\ StartInv' /\ ProbeInv' /\ RoutedWhenReady'
  BY <1>1 DEF RegisterInv, StartInv, ProbeInv, RoutedWhenReady, Running, Ended
<1> QED BY <1>4, <1>5, <1>6, <1>7

\* A step that leaves the lists of handlers and the services as they are.
LEMMA ListsStay ==
    ASSUME AppInv, UNCHANGED <<created, handlers, routed>>,
           \A s \in Services : /\ go'[s] = "none" <=> go[s] = "none"
    PROVE  ListsOK' /\ ServiceInv'
  BY DEF AppInv, ListsOK, ServiceInv

LEMMA StartUpStep ==
    AppInv /\ (\/ StartServers \/ StartService \/ BecomeReady \/ StartTermHandler
              \/ \E s \in Services : RegisterService(s) \/ NextService(s)) => AppInv'
<1> SUFFICES ASSUME AppInv,
                    \/ StartServers \/ StartService \/ BecomeReady \/ StartTermHandler
                    \/ \E s \in Services : RegisterService(s) \/ NextService(s)
             PROVE  AppInv'
  OBVIOUS
<1> USE AppConstantsOK DEF AppInv
<1>1. CASE StartServers
  <2>1. /\ pc = "create" /\ pc' = "handlers" /\ created = defs
        /\ go' = [go EXCEPT !["stat"] = "running", !["http"] = "running"]
        /\ UNCHANGED <<defs, created, handlers, current, getter, routed,
                       ready, alive, ctxDone, signal, probe, request>>
    BY <1>1 DEF StartServers, startup, status, cluster
  <2>2. \A s \in Services : go'[s] = go[s]
    BY <2>1 DEF TypeOK, Goroutines
  <2>3. TypeOK'
    BY <2>1 DEF TypeOK, Goroutines, Returned
  <2> QED BY <2>1, <2>2, <2>3, ListsStay DEF RegisterInv, StartInv, ProbeInv, RoutedWhenReady, Running, Ended
<1>2. CASE StartService
  <2>1. /\ pc = "handlers" /\ current # "none" /\ routed[current] = Len(handlers[current])
        /\ go' = [go EXCEPT ![current] = "running"] /\ current' = "none"
        /\ UNCHANGED <<pc, defs, created, handlers, getter, routed,
                       ready, alive, ctxDone, signal, probe, request>>
    BY <1>2 DEF StartService, status, cluster
  <2>2. current \in created /\ created \subseteq Services
    BY <2>1 DEF TypeOK
  <2>3. TypeOK' /\ ListsOK'
    BY <2>1, <2>2 DEF TypeOK, Goroutines, Returned, ListsOK
  <2>4. ServiceInv'
    BY <2>1, <2>2 DEF ServiceInv, TypeOK, Goroutines
  <2> QED BY <2>1, <2>3, <2>4 DEF RegisterInv, StartInv, ProbeInv, RoutedWhenReady, Running, Ended
<1>3. CASE BecomeReady
  <2>1. /\ pc = "handlers" /\ pc' = "term" /\ ready' = [ready EXCEPT !["app"] = "yes"]
        /\ \A s \in created : go[s] # "none"
        /\ UNCHANGED <<defs, created, handlers, current, getter, routed,
                       alive, go, ctxDone, signal, probe, request>>
    BY <1>3 DEF BecomeReady, SetReady, startup, cluster
  <2>2. TypeOK'
    BY <2>1 DEF TypeOK, Names
  <2> QED BY <2>1, <2>2, ListsStay DEF RegisterInv, StartInv, ProbeInv, RoutedWhenReady, Running, Ended
<1>4. CASE StartTermHandler
  <2>1. /\ pc = "term" /\ pc' = "wait" /\ go' = [go EXCEPT !["term"] = "running"]
        /\ UNCHANGED <<defs, created, handlers, current, getter, routed,
                       ready, alive, ctxDone, signal, probe, request>>
    BY <1>4 DEF StartTermHandler, startup, status, cluster
  <2>2. \A s \in Services : go'[s] = go[s]
    BY <2>1 DEF TypeOK, Goroutines
  <2>3. TypeOK' /\ created \subseteq Services
    BY <2>1 DEF TypeOK, Goroutines, Returned
  <2> QED BY <2>1, <2>2, <2>3, ListsStay DEF RegisterInv, StartInv, ProbeInv, RoutedWhenReady, Running, Ended
<1>5. ASSUME NEW s \in Services, RegisterService(s) PROVE AppInv'
  <2>1. /\ pc = "register" /\ defs' = defs \cup {s}
        /\ UNCHANGED <<pc, created, handlers, current, getter, routed,
                       ready, alive, go, ctxDone, signal, probe, request>>
    BY <1>5 DEF RegisterService, status, cluster
  <2>2. TypeOK'
    BY <2>1 DEF TypeOK
  <2> QED BY <2>1, <2>2, ListsStay DEF RegisterInv, StartInv, ProbeInv, RoutedWhenReady, Running, Ended
<1>6. ASSUME NEW s \in Services, NextService(s) PROVE AppInv'
  <2>1. /\ s \in created /\ current' = s
        /\ UNCHANGED <<pc, defs, created, handlers, routed,
                       ready, alive, go, ctxDone, signal, probe, request>>
    BY <1>6 DEF NextService, status, cluster
  <2>2. TypeOK'
    BY <2>1 DEF TypeOK
  <2> QED BY <2>1, <2>2, ListsStay DEF RegisterInv, StartInv, ProbeInv, RoutedWhenReady, Running, Ended
<1> QED BY <1>1, <1>2, <1>3, <1>4, <1>5, <1>6

\* A goroutine of the errgroup that has been started returns.
LEMMA ReturnStep ==
    ASSUME AppInv, NEW g \in Goroutines, go[g] = "running",
           NEW result \in Returned, go' = [go EXCEPT ![g] = result],
           UNCHANGED <<pc, startup, status, cluster>>,
           signal' \in {"none", "sent", "received"}
    PROVE  AppInv'
<1> USE DEF AppInv, startup, status, cluster
<1>1. \A k \in Goroutines : go'[k] = "none" <=> go[k] = "none"
  BY DEF TypeOK, Returned
<1>2. TypeOK'
  BY DEF TypeOK, Returned
<1>3. ListsOK' /\ ServiceInv'
  BY <1>1, ListsStay DEF Goroutines
<1>4. StartInv'
  BY <1>1 DEF StartInv, Goroutines, TypeOK
<1> QED BY <1>2, <1>3, <1>4 DEF RegisterInv, ProbeInv, RoutedWhenReady

LEMMA EndStep == AppInv /\ (Wait \/ Exit \/ Signal \/ Probe \/ Request) => AppInv'
<1> SUFFICES ASSUME AppInv, Wait \/ Exit \/ Signal \/ Probe \/ Request PROVE AppInv'
  OBVIOUS
<1> USE AppConstantsOK DEF AppInv, startup, status, cluster
<1>1. CASE Wait
  <2>1. TypeOK'
    BY <1>1 DEF Wait, SetReady, TypeOK, Names
  <2> QED BY <1>1, <2>1, ListsStay DEF Wait, RegisterInv, StartInv, ProbeInv, RoutedWhenReady, Running
<1>2. CASE Exit \/ Signal
  <2>1. /\ pc' = pc \/ (pc' \in Ended /\ pc # "register")
        /\ signal' \in {"none", "sent", "received"}
        /\ UNCHANGED <<startup, status, go, cluster>>
    BY <1>2 DEF Exit, Signal, Ended, TypeOK
  <2>2. TypeOK'
    BY <2>1 DEF TypeOK
  <2> QED BY <2>1, <2>2, ListsStay DEF RegisterInv, StartInv, ProbeInv, RoutedWhenReady, Running, Ended
<1>3. CASE Probe
  <2>1. probe' = "ok" => go["stat"] = "running" /\ IsReady
    BY <1>3 DEF Probe
  <2>2. ProbeInv'
    BY <1>3, <2>1 DEF Probe, ProbeInv, IsReady, Names, StartInv, TypeOK, Running
  <2> QED BY <1>3, <2>2, ListsStay DEF Probe, TypeOK, RegisterInv, StartInv, RoutedWhenReady
<1>4. CASE Request
  <2>1. pc \in Running
    BY <1>4 DEF Request, ProbeInv
  <2>2. AllRouted
    BY <2>1 DEF AllRouted, StartInv, ServiceInv, TypeOK
  <2>3. RoutedWhenReady'
    BY <1>4, <2>2 DEF Request, RoutedWhenReady
  <2> QED BY <1>4, <2>3, ListsStay DEF Request, TypeOK, RegisterInv, StartInv, ProbeInv
<1> QED BY <1>1, <1>2, <1>3, <1>4

LEMMA ReportStep ==
    ASSUME NEW s \in Services
    PROVE  AppInv /\ ServiceReports(s) => AppInv'
<1> SUFFICES ASSUME AppInv, ServiceReports(s) PROVE AppInv'
  OBVIOUS
<1> USE AppConstantsOK DEF AppInv, startup, cluster
<1>1. s # "app" /\ s \in created
  BY DEF ServiceReports, StartInv
<1>2. ready'["app"] = ready["app"] /\ ready' \in [Names -> {"none", "yes", "no"}]
  BY <1>1 DEF ServiceReports, SetReady, TypeOK, Names
<1> QED BY <1>2, ListsStay DEF ServiceReports, TypeOK, RegisterInv, StartInv, ProbeInv, RoutedWhenReady

LEMMA AppInductive == Spec => []AppInv
<1> USE DEF AppInv
<1>1. AppInv /\ [Next]_vars => AppInv'
  <2> SUFFICES ASSUME AppInv, [Next]_vars PROVE AppInv'
    OBVIOUS
  <2>1. CASE MainStep
    BY <2>1, RunStep, CreateStep, HandlersStep, StartUpStep, EndStep DEF MainStep
  <2>2. CASE \E s \in Services : RegisterService(s) \/ ServiceReports(s)
    BY <2>2, StartUpStep, ReportStep
  <2>3. ASSUME NEW g \in Goroutines, go[g] = "running", NEW result \in Returned,
               Return(g, result)
        PROVE  AppInv'
    <3>1. signal' \in {"none", "sent", "received"}
      BY <2>3 DEF Return, TypeOK
    <3> QED BY <2>3, <3>1, ReturnStep DEF Return
  <2>4. CASE StatServerReturns \/ HttpServerReturns \/ \E s \in Services : ServiceReturns(s)
    BY <2>3, <2>4 DEF StatServerReturns, HttpServerReturns, ServiceReturns, Goroutines, Returned
  <2>5. CASE TermHandlerReturns
    <3>1. signal' \in {"none", "sent", "received"}
      BY <2>5 DEF TermHandlerReturns, TypeOK
    <3> QED BY <2>5, <3>1, ReturnStep DEF TermHandlerReturns, Goroutines, Returned
  <2>6. CASE Signal \/ Probe \/ Request
    BY <2>6, EndStep
  <2>7. CASE UNCHANGED vars
    BY <2>7 DEF vars, startup, status, cluster, TypeOK, ListsOK, ServiceInv, RegisterInv,
       StartInv, ProbeInv, RoutedWhenReady
  <2> QED BY <2>1, <2>2, <2>4, <2>5, <2>6, <2>7 DEF Next
<1> QED BY InitOK, <1>1, PTL DEF Spec

\* Types, whatever is registered and whatever fails.
THEOREM AppTypes == Spec => []TypeOK
  BY AppInductive, PTL DEF AppInv

\* A request sent on account of /ready finds the router complete, however many
\* services and handlers there are and whatever they report meanwhile.
THEOREM ReadyMeansRouted == Spec => []RoutedWhenReady
  BY AppInductive, PTL DEF AppInv

-----------------------------------------------------------------------------
\* What has not been started yet. The term handler is there before Wait, so that
\* no signal kills the program from then on.
TermInv ==
    /\ ctxDone \in BOOLEAN
    /\ pc \in {"wait", "sleep"} => go["term"] # "none"
    /\ pc \in {"register", "create"} => go["http"] = "none"
    /\ pc \in {"register", "create", "handlers", "term"} => go["term"] = "none"
    /\ current # "none" => go[current] = "none"

ShutdownInv == AppInv /\ TermInv /\ ShutdownInOrder

\* A goroutine of the errgroup returns.
LEMMA ShutdownReturn ==
    ASSUME ShutdownInv, NEW g \in Goroutines, go[g] = "running",
           NEW result \in Returned, Return(g, result)
    PROVE  TermInv' /\ ShutdownInOrder'
<1> USE DEF ShutdownInv, AppInv
<1>1. /\ pc' = pc /\ signal' = signal /\ current' = current
      /\ ctxDone' = (ctxDone \/ result = "failed")
      /\ go' = [go EXCEPT ![g] = result]
  BY DEF Return, startup
<1>2. go'[g] = result /\ \A k \in Goroutines \ {g} : go'[k] = go[k]
  BY <1>1 DEF TypeOK
<1>3. (\E k \in Goroutines : go'[k] = "failed")
         <=> (\E k \in Goroutines : go[k] = "failed") \/ result = "failed"
  BY <1>2
<1>4. ctxDone' \in BOOLEAN
  BY <1>1, Zenon DEF TermInv
<1>5. TermInv'
  <2>1. {"http", "term"} \subseteq Goroutines
    BY DEF Goroutines
  <2>2. current # "none" => current \in Goroutines
    BY DEF TypeOK, Goroutines
  <2> QED BY <1>1, <1>2, <1>4, <2>1, <2>2 DEF TermInv, Returned
<1>6. pc \notin {"sleep", "exited"}
  BY DEF ShutdownInOrder
<1> QED BY <1>1, <1>3, <1>5, <1>6 DEF ShutdownInOrder

LEMMA ShutdownStep == ShutdownInv /\ [Next]_vars => TermInv' /\ ShutdownInOrder'
<1> SUFFICES ASSUME ShutdownInv, [Next]_vars PROVE TermInv' /\ ShutdownInOrder'
  OBVIOUS
<1> USE DEF ShutdownInv, AppInv
<1>g. {"stat", "http", "term"} \subseteq Goroutines /\ Services \subseteq Goroutines
  BY DEF Goroutines
<1>n. Services \cap {"stat", "http", "term", "none"} = {}
  BY AppConstantsOK
\* No goroutine, signal or end of the program is involved.
<1>1. CASE /\ UNCHANGED <<go, ctxDone, signal, current>>
           /\ \/ pc' = pc
              \/ pc = "register" /\ pc' = "create"
              \/ pc = "handlers" /\ pc' = "term"
              \/ pc \in {"register", "create", "handlers"} /\ pc' = "fatal"
  BY <1>1 DEF TermInv, ShutdownInOrder
\* Goroutines are started.
<1>2. ASSUME UNCHANGED <<ctxDone, signal>>, {pc, pc'} \cap {"sleep", "exited"} = {},
             \A g \in Goroutines : \/ go'[g] = go[g]
                                   \/ go[g] = "none" /\ go'[g] = "running"
      PROVE  ShutdownInOrder'
  <2>1. (\E g \in Goroutines : go'[g] = "failed") <=> (\E g \in Goroutines : go[g] = "failed")
    BY <1>2
  <2> QED BY <1>2, <2>1 DEF ShutdownInOrder
<1>3. ASSUME NEW s \in Services, RegisterService(s) \/ ServiceReports(s)
      PROVE  TermInv' /\ ShutdownInOrder'
  BY <1>1, <1>3 DEF RegisterService, ServiceReports, startup
<1>4. CASE Run
  BY <1>1, <1>4 DEF Run, Fatal
<1>5. ASSUME NEW s \in Services, CreateService(s) PROVE TermInv' /\ ShutdownInOrder'
  BY <1>1, <1>5 DEF CreateService, Fatal
<1>6. ASSUME NEW s \in Services, NextService(s) PROVE TermInv' /\ ShutdownInOrder'
  <2>1. /\ current' = s /\ go[s] = "none" /\ UNCHANGED <<pc, go, ctxDone, signal>>
    BY <1>6 DEF NextService
  <2> QED BY <2>1 DEF TermInv, ShutdownInOrder
<1>7. CASE StartServers
  <2>1. /\ pc = "create" /\ pc' = "handlers" /\ UNCHANGED <<ctxDone, signal, current>>
        /\ go["stat"] = "none" /\ go["http"] = "none"
    BY <1>7 DEF StartServers, startup, StartInv, TermInv
  <2>2. /\ go'["stat"] = "running" /\ go'["http"] = "running"
        /\ \A g \in Goroutines \ {"stat", "http"} : go'[g] = go[g]
    BY <1>7, <1>g DEF StartServers, TypeOK
  <2>3. TermInv'
    <3>1. current # "none" => current \in Goroutines \ {"stat", "http"}
      BY <1>g, <1>n DEF TypeOK
    <3> QED BY <2>1, <2>2, <3>1, <1>g DEF TermInv
  <2> QED BY <1>2, <2>1, <2>2, <2>3
<1>8. CASE AddHandler
  BY <1>1, <1>8 DEF AddHandler, Fatal
<1>9. CASE StartService
  <2>1. /\ pc = "handlers" /\ pc' = pc /\ UNCHANGED <<ctxDone, signal>>
        /\ current' = "none" /\ current # "none" /\ go[current] = "none"
        /\ go' = [go EXCEPT ![current] = "running"]
    BY <1>9 DEF StartService, TermInv
  <2>2. current \in Services
    BY <2>1 DEF TypeOK
  <2>3. /\ go'[current] = "running"
        /\ \A g \in Goroutines \ {current} : go'[g] = go[g]
    BY <2>1, <2>2, <1>g DEF TypeOK
  <2>4. go'["term"] = go["term"]
    BY <2>2, <2>3, <1>g, <1>n
  <2>5. TermInv'
    BY <2>1, <2>4 DEF TermInv
  <2> QED BY <1>2, <2>1, <2>3, <2>5
<1>10. CASE BecomeReady
  BY <1>1, <1>10 DEF BecomeReady, startup
<1>11. CASE StartTermHandler
  <2>1. /\ pc = "term" /\ pc' = "wait" /\ UNCHANGED <<ctxDone, signal, current>>
        /\ go["term"] = "none"
    BY <1>11 DEF StartTermHandler, startup, TermInv
  <2>2. /\ go'["term"] = "running"
        /\ \A g \in Goroutines \ {"term"} : go'[g] = go[g]
    BY <1>11, <1>g DEF StartTermHandler, TypeOK
  <2>3. TermInv'
    <3>1. current # "none" => current \in Goroutines \ {"term"}
      BY <1>g, <1>n DEF TypeOK
    <3> QED BY <2>1, <2>2, <3>1 DEF TermInv
  <2> QED BY <1>2, <2>1, <2>2, <2>3
<1>12. CASE Wait
  <2>1. /\ pc = "wait" /\ pc' = "sleep" /\ ctxDone' = TRUE
        /\ UNCHANGED <<go, signal, current>>
        /\ \A g \in Goroutines : go[g] # "running"
    BY <1>12 DEF Wait, Returned, startup
  <2> QED BY <2>1 DEF TermInv, ShutdownInOrder
<1>13. CASE Exit
  BY <1>13 DEF Exit, TermInv, ShutdownInOrder, startup
<1>14. CASE StatServerReturns \/ HttpServerReturns \/ \E s \in Services : ServiceReturns(s)
  BY <1>14, <1>g, ShutdownReturn DEF StatServerReturns, HttpServerReturns, ServiceReturns, Returned
<1>15. CASE TermHandlerReturns
  <2>1. /\ go["term"] = "running" /\ pc' = pc /\ current' = current
        /\ pc \notin {"sleep", "exited"}
    BY <1>15, <1>g DEF TermHandlerReturns, startup, ShutdownInOrder
  <2>2. go'["term"] = "ok" /\ \A g \in Goroutines \ {"term"} : go'[g] = go[g]
    BY <1>15, <1>g DEF TermHandlerReturns, TypeOK
  <2>3. (\E g \in Goroutines : go'[g] = "failed") <=> (\E g \in Goroutines : go[g] = "failed")
    BY <2>1, <2>2, <1>g
  <2>4. \/ ctxDone /\ ctxDone' = ctxDone /\ signal' = signal
        \/ signal' = "received" /\ ctxDone' = TRUE
    BY <1>15 DEF TermHandlerReturns
  <2>5. TermInv'
    <3>1. current # "none" => current \in Goroutines \ {"term"}
      BY <1>g, <1>n DEF TypeOK
    <3>2. ctxDone' \in BOOLEAN
      BY <2>4, Zenon DEF TermInv
    <3> QED BY <2>1, <2>2, <3>1, <3>2, <1>g DEF TermInv
  <2> QED BY <2>1, <2>3, <2>4, <2>5 DEF ShutdownInOrder
<1>16. CASE Signal
  <2>1. /\ UNCHANGED <<go, ctxDone, current>> /\ signal = "none" /\ pc # "exited"
        /\ \/ pc' = pc /\ signal' = "sent"
           \/ pc' = "killed" /\ signal' = signal /\ go["term"] = "none"
    BY <1>16 DEF Signal, startup, Ended
  <2> QED BY <2>1 DEF TermInv, ShutdownInOrder
<1>17. CASE Probe \/ Request \/ UNCHANGED vars
  BY <1>1, <1>17 DEF Probe, Request, vars, startup
<1> QED BY <1>3, <1>4, <1>5, <1>6, <1>7, <1>8, <1>9, <1>10, <1>11, <1>12, <1>13, <1>14, <1>15, <1>16,
           <1>17 DEF Next, MainStep

\* runEverything stops what it has started: a failure and a signal cancel the
\* context that servers and services watch, nothing else does, and when the
\* program sleeps before its exit none of them runs.
THEOREM ShutdownIsOrderly == Spec => []ShutdownInOrder
<1>1. Init => TermInv /\ ShutdownInOrder
  BY DEF Init, TermInv, ShutdownInOrder, Goroutines
<1>2. AppInv /\ TermInv /\ ShutdownInOrder /\ [Next]_vars => TermInv' /\ ShutdownInOrder'
  BY ShutdownStep DEF ShutdownInv
<1> QED BY <1>1, <1>2, AppInductive, PTL DEF Spec
=============================================================================
