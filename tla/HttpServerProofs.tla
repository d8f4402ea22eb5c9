-------------------------- MODULE HttpServerProofs --------------------------
(***************************************************************************)
(* The connection limit of HttpServer, for every number of connections and *)
(* of requests on them, and every limit.                                   *)
(***************************************************************************)
EXTENDS HttpServer, FiniteSetTheorems, TLAPS

\* Sets of connections are finite, and a part has no more than the whole.
LEMMA ConnSets ==
    ASSUME NEW S \in SUBSET Conns, NEW T \in SUBSET S
    PROVE  /\ IsFiniteSet(S) /\ Cardinality(S) \in Nat
           /\ Cardinality(T) \in Nat /\ Cardinality(T) <= Cardinality(S)
<1>1. IsFiniteSet(S)
  BY HttpConstantsOK, FS_Subset
<1> QED BY <1>1, FS_Subset, FS_CardinalityType

LEMMA BurstType == Burst \in Nat
  BY HttpConstantsOK DEF Burst

LEMMA AdmissionStep == AdmissionInv /\ [Next]_vars => AdmissionInv'
<1> SUFFICES ASSUME AdmissionInv, [Next]_vars PROVE AdmissionInv'
  OBVIOUS
<1> USE BurstType, HttpConstantsOK DEF AdmissionInv, TypeOK, OnItsConnection, requests, watcher
<1>0. /\ OpenConns \in SUBSET Conns /\ Served \in SUBSET OpenConns
      /\ IsFiniteSet(OpenConns)
      /\ Cardinality(OpenConns) \in Nat /\ Cardinality(Served) \in Nat
  <2>1. OpenConns \in SUBSET Conns /\ Served \in SUBSET OpenConns
    BY DEF OpenConns, Served
  <2> QED BY <2>1, ConnSets
<1>a. ASSUME Served' \in SUBSET Served PROVE ServedWithinLimit'
  <2>1. Served \in SUBSET Conns
    BY <1>0
  <2>2. Cardinality(Served') \in Nat /\ Cardinality(Served') <= Cardinality(Served)
    BY <1>a, <2>1, ConnSets
  <2> QED BY <1>0, <1>a, <2>2 DEF ServedWithinLimit
<1>1. ASSUME NEW c \in Conns, OnNew(c) PROVE AdmissionInv'
  <2>0. PICK p \in Protocols : conn' = [conn EXCEPT ![c] = p]
    BY <1>1 DEF OnNew
  <2>1. OpenConns' = OpenConns \cup {c} /\ c \notin OpenConns
    BY <1>1, <2>0 DEF OnNew, OpenConns, Protocols
  <2>2. Cardinality(OpenConns') = open + 1
    BY <1>0, <2>1, FS_AddElement
  <2>3. Served' \in SUBSET Served
    BY <1>1, <2>1 DEF OnNew, ReqsOn, Served, Admitted
  <2>4. TypeOK' /\ OnItsConnection'
    BY <1>1, <2>0 DEF OnNew, Count, Protocols
  <2> QED BY <1>1, <1>a, <2>2, <2>3, <2>4 DEF OnNew, Count
<1>2. ASSUME NEW c \in Conns, NEW s \in {"closed", "hijacked"}, c \in OpenConns,
             conn' = [conn EXCEPT ![c] = s], Count(c, open - 1),
             UNCHANGED <<tokens, requests>>
      PROVE  AdmissionInv'
  <2>1. OpenConns' = OpenConns \ {c}
    BY <1>2 DEF OpenConns
  <2>2. Cardinality(OpenConns') = open - 1 /\ open - 1 \in Nat
    <3>1. /\ IsFiniteSet(OpenConns \ {c})
          /\ Cardinality(OpenConns \ {c}) = Cardinality(OpenConns) - 1
      BY <1>0, <1>2, FS_RemoveElement
    <3>2. Cardinality(OpenConns \ {c}) \in Nat
      BY <3>1, FS_CardinalityType
    <3> QED BY <2>1, <3>1, <3>2
  <2>3. Served' \in SUBSET Served
    BY <1>2, <2>1 DEF Served, Admitted
  <2> QED BY <1>2, <1>a, <2>2, <2>3 DEF Count
<1>3. ASSUME NEW c \in Conns, OnClosed(c) PROVE AdmissionInv'
  BY <1>2, <1>3 DEF OnClosed
<1>4. ASSUME NEW r \in Reqs, OnHijacked(r) PROVE AdmissionInv'
  <2>1. on[r] \in Conns /\ on[r] \in OpenConns
    BY <1>4 DEF OnHijacked, OpenConns
  <2> QED BY <1>2, <1>4, <2>1 DEF OnHijacked
<1>5. ASSUME NEW r \in Reqs, NEW c \in Conns, Arrive(r, c) PROVE AdmissionInv'
  <2>1. OpenConns' = OpenConns /\ Served' \in SUBSET Served
    BY <1>5 DEF Arrive, OpenConns, Served, Admitted
  <2> QED BY <1>5, <1>a, <2>1 DEF Arrive
<1>6. ASSUME NEW r \in Reqs, RequestStep(r) PROVE AdmissionInv'
  <2>1. OpenConns' = OpenConns /\ open' = open
    BY <1>6 DEF RequestStep, connLimiterMiddleware, rateLimiterMiddleware,
       authMiddleware, HandlerReturns, HandlerPanics, OpenConns
  <2>2. ServedWithinLimit'
    \* The only step that admits a request has just seen the counter, which
    \* counts the connections of all admitted requests and its own.
    <3>1. CASE open < OpenConnLimit
      <4>1. Served' \in SUBSET OpenConns
        BY <2>1 DEF Served
      <4>2. Cardinality(Served') \in Nat /\ Cardinality(Served') <= open
        BY <1>0, <4>1, ConnSets
      <4> QED BY <3>1, <4>2 DEF ServedWithinLimit
    <3>2. CASE ~(open < OpenConnLimit)
      <4>1. Admitted' \in SUBSET Admitted
        BY <1>6, <3>2 DEF RequestStep, connLimiterMiddleware,
           rateLimiterMiddleware, authMiddleware, HandlerReturns, HandlerPanics,
           Answer, Pass, Admitted
      <4>2. \A q \in Reqs : on'[q] = on[q] \/ on'[q] = NoConn
        BY <1>6 DEF RequestStep, connLimiterMiddleware, rateLimiterMiddleware,
           authMiddleware, HandlerReturns, HandlerPanics, Answer, Pass
      <4>3. Served' \in SUBSET Served
        BY <1>0, <2>1, <4>1, <4>2 DEF Served, Admitted
      <4> QED BY <1>a, <4>3
    <3> QED BY <3>1, <3>2
  <2>3. TypeOK' /\ OnItsConnection'
    BY <1>6 DEF RequestStep, connLimiterMiddleware, rateLimiterMiddleware,
       authMiddleware, HandlerReturns, HandlerPanics, Answer, Pass
  <2> QED BY <2>1, <2>2, <2>3
<1>7. ASSUME UNCHANGED <<conn, open, requests>>, tokens' \in 0 .. Burst
      PROVE  AdmissionInv'
  <2>1. OpenConns' = OpenConns /\ Served' = Served
    BY <1>7 DEF OpenConns, Served, Admitted
  <2> QED BY <1>7, <1>a, <2>1
<1>8. CASE Refill
  BY <1>7, <1>8 DEF Refill
<1>9. ASSUME NEW c \in Conns, SetGauge(c) PROVE AdmissionInv'
  BY <1>7, <1>9 DEF SetGauge
<1>10. CASE UNCHANGED vars
  BY <1>7, <1>10 DEF vars
<1> QED BY <1>1, <1>3, <1>4, <1>5, <1>6, <1>8, <1>9, <1>10 DEF Next

LEMMA AdmissionInit == Init => AdmissionInv
<1> SUFFICES ASSUME Init PROVE AdmissionInv
  OBVIOUS
<1>1. OpenConns = {} /\ Served = {}
  BY DEF Init, OpenConns, Served
<1> QED BY <1>1, BurstType, HttpConstantsOK, FS_EmptySet
        DEF Init, AdmissionInv, TypeOK, OnItsConnection, ServedWithinLimit

\* However connections open and close between the check and the handler, and
\* however many requests each of them carries, requests are never under way on
\* OpenConnLimit or more of the open connections.
THEOREM ConnectionLimit == Spec => []ServedWithinLimit
<1>1. AdmissionInv => ServedWithinLimit
  BY DEF AdmissionInv
<1> QED BY <1>1, AdmissionInit, AdmissionStep, PTL DEF Spec

\* A callback that runs alone will set the gauge to the count.
GaugeInv ==
    /\ GaugeIsRight
    /\ toSet \in [Conns -> Int]
    /\ racing \in BOOLEAN
    /\ ~racing => \A c \in Conns : InCallback(c) =>
          toSet[c] = open /\ \A d \in Conns : InCallback(d) => d = c

LEMMA GaugeStep == AdmissionInv /\ AdmissionInv' /\ GaugeInv /\ [Next]_vars => GaugeInv'
<1> SUFFICES ASSUME AdmissionInv, AdmissionInv', GaugeInv, [Next]_vars PROVE GaugeInv'
  OBVIOUS
<1> USE DEF GaugeInv, GaugeIsRight, InCallback, Nothing
<1>1. ASSUME NEW c \in Conns, NEW n \in Nat, Count(c, n) PROVE GaugeInv'
  <2>1. /\ toSet' \in [Conns -> Int] /\ racing' \in BOOLEAN
        /\ toSet'[c] = n /\ open' = n /\ n # -1
    BY <1>1 DEF Count
  <2>2. ~racing' => \A d \in Conns : toSet'[d] # -1 => d = c
    BY <1>1 DEF Count
  <2> QED BY <2>1, <2>2
<1>2. open \in Nat /\ open' \in Nat
  BY DEF AdmissionInv, TypeOK
<1>3. ASSUME NEW c \in Conns, OnNew(c) PROVE GaugeInv'
  <2>1. Count(c, open + 1)
    BY <1>3 DEF OnNew
  <2> QED BY <1>1, <1>2, <2>1
<1>4. ASSUME NEW c \in Conns, Count(c, open - 1) PROVE GaugeInv'
  <2>1. open' = open - 1
    BY <1>4 DEF Count
  <2> QED BY <1>1, <1>2, <1>4, <2>1
<1>5. ASSUME NEW c \in Conns, OnClosed(c) PROVE GaugeInv'
  BY <1>4, <1>5 DEF OnClosed
<1>6. ASSUME NEW r \in Reqs, OnHijacked(r) PROVE GaugeInv'
  <2>1. on[r] \in Conns
    BY <1>6 DEF OnHijacked, AdmissionInv, TypeOK, OnItsConnection
  <2> QED BY <1>4, <1>6, <2>1 DEF OnHijacked
<1>7. ASSUME NEW c \in Conns, SetGauge(c) PROVE GaugeInv'
  BY <1>7 DEF SetGauge
<1>8. CASE UNCHANGED watcher
  BY <1>8 DEF watcher
<1>9. ASSUME NEW r \in Reqs, RequestStep(r) \/ \E c \in Conns : Arrive(r, c)
      PROVE  UNCHANGED watcher
  BY <1>9 DEF Arrive, RequestStep, connLimiterMiddleware, rateLimiterMiddleware,
     authMiddleware, HandlerReturns, HandlerPanics
<1>10. Refill \/ UNCHANGED vars => UNCHANGED watcher
  BY DEF Refill, vars
<1> QED BY <1>3, <1>5, <1>6, <1>7, <1>8, <1>9, <1>10 DEF Next

\* The gauge is wrong only after callbacks that overlapped, and right again
\* after the next one that runs alone.
THEOREM GaugeHeals == Spec => []GaugeIsRight
<1>1. Init => GaugeInv
  <2> SUFFICES ASSUME Init PROVE GaugeInv
    OBVIOUS
  <2>1. gauge = open /\ racing = FALSE /\ toSet = [c \in Conns |-> -1]
    BY DEF Init, Nothing
  <2>2. toSet \in [Conns -> Int] /\ \A c \in Conns : toSet[c] = -1
    BY <2>1
  <2> QED BY <2>1, <2>2 DEF GaugeInv, GaugeIsRight, InCallback, Nothing
<1>2. GaugeInv => GaugeIsRight
  BY DEF GaugeInv
<1> QED BY <1>1, <1>2, AdmissionInit, AdmissionStep, GaugeStep, PTL DEF Spec

=============================================================================
