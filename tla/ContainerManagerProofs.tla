----------------------- MODULE ContainerManagerProofs -----------------------
(***************************************************************************)
(* ContainerManager for every set of containers, calls and stop calls,     *)
(* every set of failing requests and every number of restarts.             *)
(***************************************************************************)
EXTENDS ContainerManager, TLAPS

LEMMA TypeStep == TypeOK /\ [Next]_vars => TypeOK'
<1> SUFFICES ASSUME TypeOK, [Next]_vars PROVE TypeOK'
  OBVIOUS
<1> USE DEF TypeOK, Stoppers
<1>1. ASSUME NEW c \in Containers, CreateStep(c) PROVE TypeOK'
  <2>1. CASE ContainerCreate(c)
    BY <2>1 DEF ContainerCreate
  <2>2. CASE ContainerStart(c)
    BY <2>2 DEF ContainerStart, CreateFails
  <2>3. CASE InspectUntilRunning(c)
    BY <2>3 DEF InspectUntilRunning, CreateFails
  <2>4. CASE GrepLogs(c)
    BY <2>4, ConstantsOK DEF GrepLogs, CreateFails, Restart
  <2>5. CASE Register(c)
    BY <2>5 DEF Register, registerContainer
  <2> QED BY <1>1, <2>1, <2>2, <2>3, <2>4, <2>5 DEF CreateStep
<1>2. ASSUME NEW c \in Containers, DaemonStep(c) PROVE TypeOK'
  BY <1>2 DEF DaemonStep, ContainerExits, AutoRemove, Halt, CallsOn
<1>3. ASSUME NEW m \in SUBSET Containers, FindContainers(m) PROVE TypeOK'
  BY <1>3 DEF FindContainers
<1>4. ASSUME NEW s \in StopCalls, NEW force \in BOOLEAN, StopContainer(s, force)
      PROVE  TypeOK'
  BY <1>4 DEF StopContainer
<1>5. ASSUME NEW s \in Stoppers, StopStep(s) PROVE TypeOK'
  <2>1. TargetOf(s) \in Containers
    BY DEF TargetOf
  <2>2. CASE StopChecks(s)
    BY <2>2 DEF StopChecks
  <2>3. CASE ContainerStop(s)
    BY <2>1, <2>3 DEF ContainerStop, Halt, CallsOn
  <2>4. CASE ContainerRemove(s)
    BY <2>1, <2>4 DEF ContainerRemove
  <2>5. CASE StopUnregisters(s)
    BY <2>1, <2>5 DEF StopUnregisters, unregisterContainer
  <2> QED BY <1>5, <2>2, <2>3, <2>4, <2>5 DEF StopStep
<1>6. ASSUME NEW e \in Calls, Execute(e) \/ ExecStep(e) PROVE TypeOK'
  BY <1>6 DEF Execute, setBusy, Return, ExecStep, ContainerExecCreate,
              unregisterContainer, ContainerExecAttach, GetZeroStats,
              StreamEnds, LimitExceeded, ContainerExecInspect
<1>7. ASSUME NEW e \in Calls, TeardownStep(e) PROVE TypeOK'
  BY <1>7 DEF TeardownStep, KillCreate, KillStart, KillWait, TeardownSetsIdle,
              setIdle
<1>8. ASSUME NEW e \in Calls, ProcessExits(e) \/ KillTakesEffect(e) PROVE TypeOK'
  BY <1>8 DEF ProcessExits, KillTakesEffect, Termed
<1>9. CASE Restart
  BY <1>9, ConstantsOK DEF Restart
<1>10. CASE UNCHANGED vars
  BY <1>10 DEF vars
<1> QED BY <1>1, <1>2, <1>3, <1>4, <1>5, <1>6, <1>7, <1>8, <1>9, <1>10 DEF Next

\* TypeOK is an invariant: whatever fails, and whoever races whom.
THEOREM TypeCorrect == Spec => []TypeOK
<1>1. Init => TypeOK
  BY ConstantsOK DEF Init, TypeOK
<1> QED BY <1>1, TypeStep, PTL DEF Spec

-----------------------------------------------------------------------------
\* The container a call is for never changes.
LEMMA TargetFixed == [Next]_vars => target' = target
  BY DEF Next, vars, CreateStep, ContainerCreate, ContainerStart,
         InspectUntilRunning, GrepLogs, Register, DaemonStep, ContainerExits,
         AutoRemove, FindContainers, StopContainer, StopStep, StopChecks,
         ContainerStop, ContainerRemove, StopUnregisters, Execute, ExecStep,
         ContainerExecCreate, ContainerExecAttach, GetZeroStats, StreamEnds,
         LimitExceeded, ContainerExecInspect, TeardownStep, KillCreate,
         KillStart, KillWait, TeardownSetsIdle, ProcessExits, KillTakesEffect,
         Restart

\* Each step keeps the exclusion invariant. What makes it work: an entry goes
\* away only when its container is removed, only the holder sets it idle, and
\* registerContainer meets no holder.
LEMMA ExclusionStep ==
    ASSUME ~UseDuringCreate
    PROVE  ExclusionInv /\ [Next]_vars => ExclusionInv'
<1> SUFFICES ASSUME ExclusionInv, [Next]_vars PROVE ExclusionInv'
  OBVIOUS
<1>0. TypeOK /\ TypeOK'
  BY TypeStep DEF ExclusionInv
<1>u. target' = target
  BY TargetFixed
<1>t. \A s \in Stoppers : TargetOf(s) \in Containers /\ TargetOf(s)' = TargetOf(s)
  BY <1>0, <1>u DEF TypeOK, TargetOf, Stoppers
<1>s. \A c \in Containers : c \in Stoppers /\ TargetOf(c) = c
  BY DEF TargetOf, Stoppers
<1>e. \A e \in Calls : e \in Stoppers /\ TargetOf(e) = target[e]
  BY ConstantsOK DEF TargetOf, Stoppers
<1> DEFINE Parts == /\ ExclusiveExec
                    /\ HeldIsBusy
                    /\ UnusedInCreation
                    /\ UnregistersRemoved
                    /\ AbsentUntilCreated
                    /\ TeardownIsLast
<1> SUFFICES Parts'
  BY <1>0 DEF ExclusionInv
<1> USE <1>0, <1>t, <1>s, <1>e DEF ExclusionInv, TypeOK, ExclusiveExec, HeldIsBusy, UnusedInCreation,
             UnregistersRemoved, AbsentUntilCreated, TeardownIsLast, Holds, Creating
<1>1. ASSUME NEW c \in Containers, CreateStep(c) PROVE Parts'
  <2>1. CASE ContainerCreate(c)
    <3>p1. ExclusiveExec'
      BY <2>1 DEF ContainerCreate
    <3>p2. HeldIsBusy'
      BY <2>1 DEF ContainerCreate
    <3>p3. UnusedInCreation'
      BY <2>1 DEF ContainerCreate
    <3>p4. UnregistersRemoved'
      BY <2>1 DEF ContainerCreate
    <3>p5. AbsentUntilCreated'
      BY <2>1 DEF ContainerCreate
    <3>p6. TeardownIsLast'
      BY <2>1 DEF ContainerCreate
    <3> QED BY <3>p1, <3>p2, <3>p3, <3>p4, <3>p5, <3>p6
  <2>2. CASE ContainerStart(c)
    <3>p1. ExclusiveExec'
      BY <2>2 DEF ContainerStart, CreateFails
    <3>p2. HeldIsBusy'
      BY <2>2 DEF ContainerStart, CreateFails
    <3>p3. UnusedInCreation'
      BY <2>2 DEF ContainerStart, CreateFails
    <3>p4. UnregistersRemoved'
      BY <2>2 DEF ContainerStart, CreateFails
    <3>p5. AbsentUntilCreated'
      BY <2>2 DEF ContainerStart, CreateFails
    <3>p6. TeardownIsLast'
      BY <2>2 DEF ContainerStart, CreateFails
    <3> QED BY <3>p1, <3>p2, <3>p3, <3>p4, <3>p5, <3>p6
  <2>3. CASE InspectUntilRunning(c)
    BY <2>3 DEF InspectUntilRunning, CreateFails
  <2>4. CASE GrepLogs(c)
    BY <2>4 DEF GrepLogs, CreateFails, Restart
  <2>5. CASE Register(c)
    BY <2>5 DEF Register, registerContainer
  <2> QED BY <1>1, <2>1, <2>2, <2>3, <2>4, <2>5 DEF CreateStep
<1>2. ASSUME NEW c \in Containers, DaemonStep(c) PROVE Parts'
  <2>p1. ExclusiveExec'
    BY <1>2 DEF DaemonStep, ContainerExits, AutoRemove, Halt
  <2>p2. HeldIsBusy'
    BY <1>2 DEF DaemonStep, ContainerExits, AutoRemove, Halt
  <2>p3. UnusedInCreation'
    BY <1>2 DEF DaemonStep, ContainerExits, AutoRemove, Halt
  <2>p4. UnregistersRemoved'
    BY <1>2 DEF DaemonStep, ContainerExits, AutoRemove, Halt
  <2>p5. AbsentUntilCreated'
    BY <1>2 DEF DaemonStep, ContainerExits, AutoRemove, Halt
  <2>p6. TeardownIsLast'
    BY <1>2 DEF DaemonStep, ContainerExits, AutoRemove, Halt
  <2> QED BY <2>p1, <2>p2, <2>p3, <2>p4, <2>p5, <2>p6
<1>3. ASSUME NEW m \in SUBSET Containers, FindContainers(m) PROVE Parts'
  BY <1>3 DEF FindContainers, Listed
<1>4. ASSUME NEW s \in StopCalls, NEW force \in BOOLEAN, StopContainer(s, force)
      PROVE  Parts'
  BY <1>4 DEF StopContainer, Stoppers
<1>5. ASSUME NEW s \in Stoppers, StopStep(s) PROVE Parts'
  <2>1. TargetOf(s) \in Containers
    BY <1>t
  <2>2. CASE StopChecks(s)
    BY <2>2 DEF StopChecks
  <2>3. CASE ContainerStop(s)
    <3>p1. ExclusiveExec'
      BY <2>1, <2>3 DEF ContainerStop, Halt
    <3>p2. HeldIsBusy'
      BY <2>1, <2>3 DEF ContainerStop, Halt
    <3>p3. UnusedInCreation'
      BY <2>1, <2>3 DEF ContainerStop, Halt
    <3>p4. UnregistersRemoved'
      BY <2>1, <2>3 DEF ContainerStop, Halt
    <3>p5. AbsentUntilCreated'
      BY <2>1, <2>3 DEF ContainerStop, Halt
    <3>p6. TeardownIsLast'
      BY <2>1, <2>3 DEF ContainerStop, Halt
    <3> QED BY <3>p1, <3>p2, <3>p3, <3>p4, <3>p5, <3>p6
  <2>4. CASE ContainerRemove(s)
    <3>p1. ExclusiveExec'
      BY <2>1, <2>4 DEF ContainerRemove
    <3>p2. HeldIsBusy'
      BY <2>1, <2>4 DEF ContainerRemove
    <3>p3. UnusedInCreation'
      BY <2>1, <2>4 DEF ContainerRemove
    <3>p4. UnregistersRemoved'
      BY <2>1, <2>4 DEF ContainerRemove
    <3>p5. AbsentUntilCreated'
      BY <2>1, <2>4 DEF ContainerRemove
    <3>p6. TeardownIsLast'
      BY <2>1, <2>4 DEF ContainerRemove
    <3> QED BY <3>p1, <3>p2, <3>p3, <3>p4, <3>p5, <3>p6
  <2>5. CASE StopUnregisters(s)
    BY <2>1, <2>5 DEF StopUnregisters, unregisterContainer
  <2> QED BY <1>5, <2>2, <2>3, <2>4, <2>5 DEF StopStep
<1>6. ASSUME NEW e \in Calls, Execute(e) PROVE Parts'
  <2>p1. ExclusiveExec'
    BY <1>6 DEF Execute, setBusy, Return, Known
  <2>p2. HeldIsBusy'
    BY <1>6 DEF Execute, setBusy, Return, Known
  <2>p3. UnusedInCreation'
    BY <1>6 DEF Execute, setBusy, Return, Known
  <2>p4. UnregistersRemoved'
    BY <1>6 DEF Execute, setBusy, Return, Known
  <2>p5. AbsentUntilCreated'
    BY <1>6 DEF Execute, setBusy, Return, Known
  <2>p6. TeardownIsLast'
    BY <1>6 DEF Execute, setBusy, Return, Known
  <2> QED BY <2>p1, <2>p2, <2>p3, <2>p4, <2>p5, <2>p6
<1>7. ASSUME NEW e \in Calls, ExecStep(e) PROVE Parts'
  <2>1. CASE ContainerExecCreate(e)
    BY <2>1 DEF ContainerExecCreate, unregisterContainer, Return
  <2>2. CASE ContainerExecAttach(e)
    BY <2>2 DEF ContainerExecAttach, Return
  <2>3. CASE GetZeroStats(e)
    BY <2>3 DEF GetZeroStats, Return
  <2>4. CASE StreamEnds(e)
    BY <2>4 DEF StreamEnds
  <2>5. CASE LimitExceeded(e)
    BY <2>5 DEF LimitExceeded, Return
  <2>6. CASE ContainerExecInspect(e)
    BY <2>6 DEF ContainerExecInspect, Return
  <2> QED BY <1>7, <2>1, <2>2, <2>3, <2>4, <2>5, <2>6 DEF ExecStep
<1>8. ASSUME NEW e \in Calls, TeardownStep(e) PROVE Parts'
  <2>1. CASE KillCreate(e) \/ KillStart(e) \/ KillWait(e)
    BY <2>1 DEF KillCreate, KillStart, KillWait
  <2>2. CASE TeardownSetsIdle(e)
    <3>1. \A f \in Calls : Holds(f)' => f # e /\ Holds(f)
      BY <2>2 DEF TeardownSetsIdle
    <3>2. \A f \in Calls : Holds(f)' /\ target[f] = target[e]
                           => docker[target[f]] = "removed"
      BY <2>2, <3>1 DEF TeardownSetsIdle
    <3>3. HeldIsBusy'
      BY <2>2, <3>1, <3>2 DEF TeardownSetsIdle, setIdle
    <3> QED BY <2>2, <3>1, <3>3 DEF TeardownSetsIdle
  <2> QED BY <1>8, <2>1, <2>2 DEF TeardownStep
<1>9. ASSUME NEW e \in Calls, ProcessExits(e) \/ KillTakesEffect(e) PROVE Parts'
  BY <1>9 DEF ProcessExits, KillTakesEffect
<1>10. CASE Restart
  BY <1>10 DEF Restart
<1>11. CASE UNCHANGED vars
  BY <1>11 DEF vars
<1> HIDE DEF Parts
<1> QED BY <1>1, <1>2, <1>3, <1>4, <1>5, <1>6, <1>7, <1>8, <1>9, <1>10, <1>11 DEF Next

\* No container is ever used by two calls at a time, as long as it exists: the
\* claim behind ErrContainerBusy, for clients that wait for the creation.
THEOREM Exclusion ==
    ASSUME ~UseDuringCreate
    PROVE  Spec => []ExclusiveExec
<1>1. Init => ExclusionInv
  BY ConstantsOK DEF Init, ExclusionInv, TypeOK, ExclusiveExec, HeldIsBusy,
     UnusedInCreation, UnregistersRemoved, AbsentUntilCreated, TeardownIsLast,
     Holds
<1>2. ExclusionInv => ExclusiveExec
  BY DEF ExclusionInv
<1> QED BY <1>1, <1>2, ExclusionStep, PTL DEF Spec

-----------------------------------------------------------------------------
\* Whoever leaves a running container marked busy hands it to a StopContainer.
LEMMA OwnerStep ==
    ASSUME ~UseDuringCreate,
           Faults \cap {"execCreate", "attach", "stats", "execInspect", "stop"} = {}
    PROVE  OwnerInv /\ [Next]_vars => OwnerInv'
<1> SUFFICES ASSUME OwnerInv, [Next]_vars PROVE OwnerInv'
  OBVIOUS
<1>0. ExclusionInv /\ ExclusionInv'
  BY ExclusionStep DEF OwnerInv
<1>1. TypeOK /\ TypeOK'
  BY <1>0 DEF ExclusionInv
<1>u. target' = target
  BY TargetFixed
<1>t. \A s \in Stoppers : TargetOf(s) \in Containers
  BY <1>1 DEF TypeOK, TargetOf, Stoppers
<1>e. \A e \in Calls : e \in Stoppers /\ TargetOf(e) = target[e] /\ target[e] \in Containers
  BY <1>1, ConstantsOK DEF TargetOf, Stoppers, TypeOK
<1>d. \A c \in Containers : c \in Stoppers /\ c \notin Calls
  BY ConstantsOK DEF Stoppers
<1> DEFINE Parts == BusyHasOwner /\ BusyIsCreated
<1> SUFFICES Parts'
  BY <1>0 DEF OwnerInv
<1> USE <1>1, <1>u, <1>e DEF OwnerInv, BusyHasOwner, BusyIsCreated, TypeOK, Holds, CallsOn
<1>2. ASSUME NEW c \in Containers, CreateStep(c) PROVE Parts'
  <2>1. CASE ContainerCreate(c)
    BY <2>1 DEF ContainerCreate
  <2>2. CASE ContainerStart(c)
    <3>1. /\ create[c] = "start" /\ UNCHANGED <<reg, pc, td>>
          /\ \A k \in Containers \ {c} : docker'[k] = docker[k] /\ create'[k] = create[k]
          /\ \A f \in Calls : stop'[f] = stop[f]
      BY <2>2, <1>d DEF ContainerStart, CreateFails
    <3>2. reg[c] # "busy"
      BY <3>1
    <3> QED BY <3>1, <3>2
  <2>3. CASE InspectUntilRunning(c)
    BY <2>3, <1>d DEF InspectUntilRunning, CreateFails
  <2>4. CASE GrepLogs(c)
    BY <2>4, <1>d DEF GrepLogs, CreateFails, Restart
  <2>5. CASE Register(c)
    BY <2>5 DEF Register, registerContainer
  <2> QED BY <1>2, <2>1, <2>2, <2>3, <2>4, <2>5 DEF CreateStep
<1>3. ASSUME NEW c \in Containers, DaemonStep(c) PROVE Parts'
  BY <1>3 DEF DaemonStep, ContainerExits, AutoRemove, Halt
<1>4. ASSUME NEW m \in SUBSET Containers, FindContainers(m) PROVE Parts'
  BY <1>4 DEF FindContainers
<1>5. ASSUME NEW s \in StopCalls, NEW force \in BOOLEAN, StopContainer(s, force)
      PROVE  Parts'
  BY <1>5, ConstantsOK DEF StopContainer
<1>6. ASSUME NEW s \in Stoppers, StopStep(s) PROVE Parts'
  <2>1. CASE StopChecks(s)
    BY <2>1 DEF StopChecks, Registered
  <2>2. CASE ContainerStop(s)
    BY <2>2, <1>t DEF ContainerStop, Halt
  <2>3. CASE ContainerRemove(s)
    BY <2>3, <1>t DEF ContainerRemove
  <2>4. CASE StopUnregisters(s)
    BY <2>4, <1>t DEF StopUnregisters, unregisterContainer
  <2> QED BY <1>6, <2>1, <2>2, <2>3, <2>4 DEF StopStep
<1>7. ASSUME NEW e \in Calls, Execute(e) PROVE Parts'
  <2>1. BusyIsCreated'
    BY <1>7, <1>0 DEF Execute, setBusy, Known, Creating, ExclusionInv, AbsentUntilCreated
  <2>2. BusyHasOwner'
    BY <1>7 DEF Execute, setBusy, Return
  <2> QED BY <2>1, <2>2
<1>8. ASSUME NEW e \in Calls, ExecStep(e) PROVE Parts'
  <2>1. CASE ContainerExecCreate(e)
    BY <2>1 DEF ContainerExecCreate, unregisterContainer, Return
  <2>2. CASE ContainerExecAttach(e)
    BY <2>2 DEF ContainerExecAttach, Return
  <2>3. CASE GetZeroStats(e)
    BY <2>3 DEF GetZeroStats, Return
  <2>4. CASE StreamEnds(e)
    BY <2>4 DEF StreamEnds
  <2>5. CASE LimitExceeded(e)
    BY <2>5 DEF LimitExceeded, Return
  <2>6. CASE ContainerExecInspect(e)
    BY <2>6 DEF ContainerExecInspect, Return
  <2> QED BY <1>8, <2>1, <2>2, <2>3, <2>4, <2>5, <2>6 DEF ExecStep
<1>9. ASSUME NEW e \in Calls, TeardownStep(e) PROVE Parts'
  <2>1. CASE KillCreate(e) \/ KillStart(e) \/ KillWait(e)
    BY <2>1 DEF KillCreate, KillStart, KillWait
  <2>2. CASE TeardownSetsIdle(e)
    BY <2>2 DEF TeardownSetsIdle, setIdle, Registered
  <2> QED BY <1>9, <2>1, <2>2 DEF TeardownStep
<1>10. ASSUME NEW e \in Calls, ProcessExits(e) \/ KillTakesEffect(e) PROVE Parts'
  BY <1>10 DEF ProcessExits, KillTakesEffect
<1>11. CASE Restart
  BY <1>11 DEF Restart
<1>12. CASE UNCHANGED vars
  BY <1>12 DEF vars
<1> HIDE DEF Parts
<1> QED BY <1>2, <1>3, <1>4, <1>5, <1>6, <1>7, <1>8, <1>9, <1>10, <1>11, <1>12 DEF Next

\* The busy mark is not leaked: a running container that Execute refuses is in
\* use, or is about to be stopped. What may not fail are the requests whose error
\* return in createExecutor, execAttach or StopContainer leaves the mark behind.
THEOREM BusyIsInUse ==
    ASSUME ~UseDuringCreate,
           Faults \cap {"execCreate", "attach", "stats", "execInspect", "stop"} = {}
    PROVE  Spec => []BusyHasOwner
<1>1. Init => OwnerInv
  BY ConstantsOK DEF Init, OwnerInv, ExclusionInv, TypeOK, ExclusiveExec, HeldIsBusy,
     UnusedInCreation, UnregistersRemoved, AbsentUntilCreated, TeardownIsLast,
     Holds, BusyHasOwner, BusyIsCreated
<1>2. OwnerInv => BusyHasOwner
  BY DEF OwnerInv
<1> QED BY <1>1, <1>2, OwnerStep, PTL DEF Spec

-----------------------------------------------------------------------------
\* What Docker and the kill do to processes: none comes to life but by
\* attaching to a container that runs.
LEMMA SweptStep ==
    ASSUME ~UseDuringCreate,
           Faults \cap {"killCreate", "killStart", "killInspect", "kill"} = {}
    PROVE  SweptInv /\ [Next]_vars => SweptInv'
<1> SUFFICES ASSUME SweptInv, [Next]_vars PROVE SweptInv'
  OBVIOUS
<1>0. ExclusionInv /\ ExclusionInv'
  BY ExclusionStep DEF SweptInv
<1>1. TypeOK /\ TypeOK'
  BY <1>0 DEF ExclusionInv
<1> DEFINE Parts == IdleIsSwept /\ KilledIsSwept
<1> SUFFICES Parts'
  BY <1>0 DEF SweptInv
<1> USE <1>1 DEF SweptInv, TypeOK, IdleIsSwept, KilledIsSwept, KillDone, Unsignalled, CallsOn
<1>2. ASSUME NEW c \in Containers, CreateStep(c) PROVE Parts'
  <2>1. \A e \in Calls : target[e] = c /\ Creating(c) =>
           proc[e] = "none" /\ td[e] \in {"none", "done"}
    BY <1>0 DEF ExclusionInv, UnusedInCreation
  <2>2. CASE ContainerCreate(c)
    BY <2>2 DEF ContainerCreate
  <2>3. CASE ContainerStart(c)
    BY <2>1, <2>3 DEF ContainerStart, CreateFails, Creating
  <2>4. CASE InspectUntilRunning(c)
    BY <2>4 DEF InspectUntilRunning, CreateFails
  <2>5. CASE GrepLogs(c)
    BY <2>5 DEF GrepLogs, CreateFails, Restart
  <2>6. CASE Register(c)
    BY <2>1, <2>6 DEF Register, registerContainer, Creating
  <2> QED BY <1>2, <2>2, <2>3, <2>4, <2>5, <2>6 DEF CreateStep
<1>3. ASSUME NEW c \in Containers, DaemonStep(c) PROVE Parts'
  BY <1>3 DEF DaemonStep, ContainerExits, AutoRemove, Halt
<1>4. ASSUME NEW m \in SUBSET Containers, FindContainers(m) PROVE Parts'
  BY <1>4 DEF FindContainers
<1>5. ASSUME NEW s \in StopCalls, NEW force \in BOOLEAN, StopContainer(s, force)
      PROVE  Parts'
  BY <1>5 DEF StopContainer
<1>6. ASSUME NEW s \in Stoppers, StopStep(s) PROVE Parts'
  <2>1. TargetOf(s) \in Containers
    BY DEF TargetOf, Stoppers
  <2> QED BY <1>6, <2>1 DEF StopStep, StopChecks, ContainerStop, Halt,
             ContainerRemove, StopUnregisters, unregisterContainer
<1>7. ASSUME NEW e \in Calls, Execute(e) PROVE Parts'
  BY <1>7 DEF Execute, setBusy, Return
<1>8. ASSUME NEW e \in Calls, ExecStep(e) PROVE Parts'
  <2>1. CASE ContainerExecAttach(e)
    <3>1. docker[target[e]] # "removed" => reg[target[e]] = "busy"
      BY <1>0, <2>1 DEF ExclusionInv, HeldIsBusy, Holds, ContainerExecAttach
    <3>2. Holds(e) /\ \A f \in Calls : KillDone(f) => Holds(f) /\ f # e
      BY <1>0, <2>1 DEF ExclusionInv, TeardownIsLast, Holds, ContainerExecAttach
    <3>3. \A f \in Calls : target[f] = target[e] /\ KillDone(f)
                           => docker[target[e]] = "removed"
      BY <1>0, <3>2 DEF ExclusionInv, ExclusiveExec
    <3> QED BY <2>1, <3>1, <3>3 DEF ContainerExecAttach, Return
  <2>2. CASE ~ContainerExecAttach(e)
    BY <1>8, <2>2 DEF ExecStep, ContainerExecCreate, unregisterContainer,
       GetZeroStats, StreamEnds, LimitExceeded, ContainerExecInspect, Return
  <2> QED BY <2>1, <2>2
<1>9. ASSUME NEW e \in Calls, TeardownStep(e) PROVE Parts'
  <2>1. CASE KillCreate(e) \/ KillStart(e) \/ KillWait(e)
    BY <2>1 DEF KillCreate, KillStart, KillWait
  <2>2. CASE TeardownSetsIdle(e)
    BY <2>2 DEF TeardownSetsIdle, setIdle
  <2> QED BY <1>9, <2>1, <2>2 DEF TeardownStep
<1>10. ASSUME NEW e \in Calls, ProcessExits(e) PROVE Parts'
  BY <1>10 DEF ProcessExits
<1>11. ASSUME NEW e \in Calls, KillTakesEffect(e) PROVE Parts'
  <2>1. \A f \in Calls : target[f] = target[e] => proc'[f] \notin Unsignalled
    BY <1>11 DEF KillTakesEffect, Termed
  <2>2. \A f \in Calls : target[f] # target[e] => proc'[f] = proc[f]
    BY <1>11 DEF KillTakesEffect
  <2> QED BY <1>11, <2>1, <2>2 DEF KillTakesEffect
<1>12. CASE Restart
  BY <1>12 DEF Restart
<1>13. CASE UNCHANGED vars
  BY <1>13 DEF vars
<1> HIDE DEF Parts
<1> QED BY <1>2, <1>3, <1>4, <1>5, <1>6, <1>7, <1>8, <1>9, <1>10, <1>11, <1>12,
        <1>13
        DEF Next

\* A container that the registry offers as idle has been swept: everything that
\* an earlier call started or left behind in it has ended or has been sent the
\* SIGTERM, provided no request of killAll fails for a reason of its own and
\* the kill process does what it is run for.
THEOREM IdleContainersAreSwept ==
    ASSUME ~UseDuringCreate,
           Faults \cap {"killCreate", "killStart", "killInspect", "kill"} = {}
    PROVE  Spec => []IdleIsSwept
<1>1. Init => SweptInv
  BY ConstantsOK DEF Init, SweptInv, ExclusionInv, TypeOK, ExclusiveExec,
     HeldIsBusy, UnusedInCreation, UnregistersRemoved, AbsentUntilCreated,
     TeardownIsLast, Holds, IdleIsSwept, KilledIsSwept, KillDone
<1>2. SweptInv => IdleIsSwept
  BY DEF SweptInv
<1> QED BY <1>1, <1>2, SweptStep, PTL DEF Spec

-----------------------------------------------------------------------------
\* A kill at large is awaited by the teardown that started it, in a container
\* that runs: killAll leaves its loop only when the kill has ended.
LEMMA KillStep ==
    ASSUME ~UseDuringCreate, Faults \cap {"killStart", "killInspect", "kill"} = {}
    PROVE  ExclusionInv /\ KillIsAwaited /\ [Next]_vars => KillIsAwaited'
<1> SUFFICES ASSUME ExclusionInv, KillIsAwaited, [Next]_vars
             PROVE  KillIsAwaited'
  OBVIOUS
<1>1. TypeOK
  BY DEF ExclusionInv
<1>2. Restart => KillIsAwaited'
  BY <1>1 DEF TypeOK, Restart, KillIsAwaited
<1> USE <1>1 DEF TypeOK, KillIsAwaited
<1>3. ASSUME NEW c \in Containers, CreateStep(c) PROVE KillIsAwaited'
  <2>1. create[c] = "none" => docker[c] = "absent"
    BY DEF ExclusionInv, AbsentUntilCreated
  <2>2. CASE ContainerCreate(c) \/ ContainerStart(c)
    BY <2>1, <2>2 DEF ContainerCreate, ContainerStart
  <2>3. CASE InspectUntilRunning(c) \/ GrepLogs(c) \/ Register(c)
    BY <1>2, <2>3 DEF InspectUntilRunning, GrepLogs, Register
  <2> QED BY <1>3, <2>2, <2>3 DEF CreateStep
<1>4. ASSUME NEW c \in Containers, DaemonStep(c) PROVE KillIsAwaited'
  BY <1>4 DEF DaemonStep, ContainerExits, AutoRemove, Halt, CallsOn
<1>5. ASSUME NEW s \in Stoppers, StopStep(s) PROVE KillIsAwaited'
  BY <1>5 DEF StopStep, StopChecks, ContainerStop, Halt, CallsOn,
              ContainerRemove, StopUnregisters
<1>6. ASSUME NEW e \in Calls, ExecStep(e) PROVE KillIsAwaited'
  <2>1. td[e] # "none" => pc[e] = "returned"
    BY DEF ExclusionInv, TeardownIsLast
  <2> QED BY <1>6, <2>1 DEF ExecStep, ContainerExecCreate, ContainerExecAttach,
             GetZeroStats, StreamEnds, LimitExceeded, ContainerExecInspect
<1>7. ASSUME NEW e \in Calls, TeardownStep(e) PROVE KillIsAwaited'
  BY <1>7 DEF TeardownStep, KillCreate, KillStart, KillWait, TeardownSetsIdle
<1>8. ASSUME NEW e \in Calls, ProcessExits(e) \/ KillTakesEffect(e)
      PROVE  KillIsAwaited'
  BY <1>8 DEF ProcessExits, KillTakesEffect
<1>9. ASSUME NEW m \in SUBSET Containers, FindContainers(m) PROVE KillIsAwaited'
  BY <1>9 DEF FindContainers
<1>10. ASSUME NEW s \in StopCalls, NEW force \in BOOLEAN, StopContainer(s, force)
       PROVE  KillIsAwaited'
  BY <1>10 DEF StopContainer
<1>11. ASSUME NEW e \in Calls, Execute(e) PROVE KillIsAwaited'
  BY <1>11 DEF Execute
<1>12. CASE UNCHANGED vars
  BY <1>12 DEF vars
<1> QED BY <1>2, <1>3, <1>4, <1>5, <1>6, <1>7, <1>8, <1>9, <1>10, <1>11, <1>12
        DEF Next

\* `kill -- -1` never hits a later call, as long as killAll is told truly whether
\* it has started and when it has ended, and the program does not die in between.
THEOREM KillsOnlyItsOwn ==
    ASSUME ~UseDuringCreate, Faults \cap {"killStart", "killInspect", "kill"} = {}
    PROVE  Spec => []KillIsolation
<1>1. Init => ExclusionInv /\ KillIsAwaited
  BY ConstantsOK DEF Init, ExclusionInv, TypeOK, ExclusiveExec, HeldIsBusy,
     UnusedInCreation, UnregistersRemoved, AbsentUntilCreated, TeardownIsLast,
     Holds, KillIsAwaited
<1>2. ExclusionInv /\ KillIsAwaited => KillIsolation
  BY DEF ExclusionInv, TypeOK, ExclusiveExec, KillIsAwaited, KillIsolation, Holds
<1> QED BY <1>1, <1>2, ExclusionStep, KillStep, PTL DEF Spec

-----------------------------------------------------------------------------
\* Only a container that Docker has removed loses its registry entry, unless
\* the program dies.
THEOREM ForgetsOnlyWhatIsGone ==
    ASSUME ~UseDuringCreate
    PROVE  Spec => ForgetsOnlyRemoved
<1> DEFINE Keeps == \A c \in Containers :
                       Registered(c) /\ ~Registered(c)'
                       => docker[c] = "removed" \/ crashes' # crashes
<1>1. Init => ExclusionInv
  BY ConstantsOK DEF Init, ExclusionInv, TypeOK, ExclusiveExec, HeldIsBusy,
     UnusedInCreation, UnregistersRemoved, AbsentUntilCreated, TeardownIsLast,
     Holds
<1>2. ASSUME ExclusionInv, [Next]_vars PROVE [Keeps]_vars
  <2> SUFFICES Keeps
    OBVIOUS
  <2>0. TypeOK /\ UnregistersRemoved
    BY <1>2 DEF ExclusionInv
  <2> USE <2>0 DEF TypeOK, UnregistersRemoved, Registered
  <2>1. CASE Restart
    BY <2>1 DEF Restart
  <2>2. ASSUME NEW c \in Containers, CreateStep(c) PROVE Keeps
    BY <2>2 DEF CreateStep, ContainerCreate, ContainerStart, InspectUntilRunning,
                GrepLogs, Restart, Register, registerContainer
  <2>3. ASSUME NEW s \in Stoppers, StopStep(s) PROVE Keeps
    BY <2>3 DEF StopStep, StopChecks, ContainerStop, ContainerRemove,
                StopUnregisters, unregisterContainer
  <2>4. ASSUME NEW e \in Calls, Execute(e) \/ ExecStep(e) \/ TeardownStep(e)
        PROVE  Keeps
    BY <2>4 DEF Execute, setBusy, ExecStep, ContainerExecCreate,
                unregisterContainer, ContainerExecAttach, GetZeroStats,
                StreamEnds, LimitExceeded, ContainerExecInspect, TeardownStep,
                KillCreate, KillStart, KillWait, TeardownSetsIdle, setIdle
  <2>5. CASE UNCHANGED reg
    BY <2>5
  <2>6. ASSUME NEW c \in Containers, DaemonStep(c) PROVE UNCHANGED reg
    BY <2>6 DEF DaemonStep, ContainerExits, AutoRemove
  <2>7. ASSUME NEW e \in Calls, ProcessExits(e) \/ KillTakesEffect(e)
        PROVE  UNCHANGED reg
    BY <2>7 DEF ProcessExits, KillTakesEffect
  <2> HIDE DEF Keeps
  <2> QED BY <1>2, <2>1, <2>2, <2>3, <2>4, <2>5, <2>6, <2>7
          DEF Next, vars, FindContainers, StopContainer
<1>3. Keeps => \A c \in DOMAIN Stats \ DOMAIN Stats' :
                  docker[c] = "removed" \/ crashes' # crashes
  BY DEF Stats
<1>4. [Keeps]_vars => [\A c \in DOMAIN Stats \ DOMAIN Stats' :
                         docker[c] = "removed" \/ crashes' # crashes]_vars
  BY <1>3
<1> QED BY <1>1, <1>2, <1>4, ExclusionStep, PTL DEF Spec, ForgetsOnlyRemoved

-----------------------------------------------------------------------------
\* What a step does to the pool. A call changes its place in the pool alone,
\* takes its container only when nobody has it, and a container that is gone
\* stays so.
LEMMA PoolStep ==
    ASSUME ~UseDuringCreate
    PROVE  ExclusionInv /\ [Next]_vars => [Pool!Next]_(Pool!vars)
<1> SUFFICES ASSUME ExclusionInv, [Next]_vars PROVE [Pool!Next]_(Pool!vars)
  OBVIOUS
<1> DEFINE Removed == {c \in Containers : docker[c] = "removed"}
           wants == [e \in Calls |-> target[e]]
           use == [e \in Calls |-> UseOf(e)]
           Moves(e, from, to) ==
               /\ use[e] = from
               /\ use' = [use EXCEPT ![e] = to]
               /\ Removed' = Removed
           Quiet == use' = use /\ Removed' = Removed
           Simulated ==
               \/ Quiet
               \/ \E e \in Calls :
                     \/ Moves(e, "waiting", "finished")
                     \/ Moves(e, "holding", "finished")
                     \/ /\ Moves(e, "waiting", "holding")
                        /\ docker[target[e]] # "removed"
                           => \A f \in Calls : target[f] = target[e] => ~Holds(f)
               \/ \E c \in Containers : use' = use /\ Removed' = Removed \cup {c}
               \/ /\ use' = [e \in Calls |->
                               IF use[e] = "holding" THEN "finished" ELSE use[e]]
                  /\ Removed' = Removed
<1>0. TypeOK /\ TypeOK' /\ wants' = wants
  BY TypeStep, TargetFixed DEF ExclusionInv
<1>m. ASSUME NEW e \in Calls, NEW from, NEW to,
             use[e] = from, use'[e] = to, Removed' = Removed,
             \A f \in Calls \ {e} : use'[f] = use[f]
      PROVE  Moves(e, from, to)
  <2>1. use = [x \in Calls |-> use[x]] /\ use' = [x \in Calls |-> use'[x]]
    OBVIOUS
  <2> HIDE DEF use
  <2> QED BY <1>m, <2>1
<1>1. ASSUME Simulated PROVE [Pool!Next]_(Pool!vars)
  <2>1. CASE Quiet
    BY <1>0, <2>1 DEF Pool!vars
  <2>2. ASSUME NEW e \in Calls, Moves(e, "waiting", "finished") PROVE Pool!Next
    BY <1>0, <2>2 DEF Pool!Next, Pool!Refuse
  <2>3. ASSUME NEW e \in Calls, Moves(e, "holding", "finished") PROVE Pool!Next
    BY <1>0, <2>3 DEF Pool!Next, Pool!Release
  <2>4. ASSUME NEW e \in Calls, Moves(e, "waiting", "holding"),
               docker[target[e]] # "removed"
               => \A f \in Calls : target[f] = target[e] => ~Holds(f)
        PROVE  Pool!Next
    <3>1. wants[e] \notin Removed => Pool!Users(wants[e]) = {}
      BY <1>0, <2>4 DEF Pool!Users, UseOf, TypeOK
    <3> QED BY <1>0, <2>4, <3>1 DEF Pool!Next, Pool!Acquire
  <2>5. ASSUME NEW c \in Containers, use' = use, Removed' = Removed \cup {c}
        PROVE  Pool!Next
    BY <1>0, <2>5 DEF Pool!Next, Pool!Remove
  <2>6. ASSUME use' = [e \in Calls |->
                         IF use[e] = "holding" THEN "finished" ELSE use[e]],
               Removed' = Removed
        PROVE  Pool!Next
    BY <1>0, <2>6 DEF Pool!Next, Pool!Reset
  <2> QED BY <1>1, <2>1, <2>2, <2>3, <2>4, <2>5, <2>6
<1> SUFFICES Simulated
  BY <1>1
<1> USE <1>0 DEF TypeOK
<1>2. Restart => Simulated
  <2> SUFFICES ASSUME Restart PROVE Simulated
    OBVIOUS
  <2>1. \A e \in Calls :
           UseOf(e)' = IF UseOf(e) = "holding" THEN "finished" ELSE UseOf(e)
    BY DEF Restart, UseOf, Holds, ExclusionInv, TeardownIsLast
  <2>2. Removed' = Removed
    BY DEF Restart
  <2> QED BY <2>1, <2>2
<1>3. ASSUME NEW c \in Containers, CreateStep(c) PROVE Simulated
  <2>1. create[c] = "none" => docker[c] = "absent"
    BY DEF ExclusionInv, AbsentUntilCreated
  <2>2. CASE ContainerCreate(c) \/ ContainerStart(c)
    <3>1. use' = use
      BY <2>2 DEF ContainerCreate, ContainerStart, UseOf, Holds
    <3>2. Removed' = Removed
      BY <2>1, <2>2 DEF ContainerCreate, ContainerStart
    <3> QED BY <3>1, <3>2
  <2>3. CASE InspectUntilRunning(c) \/ Register(c)
    BY <2>3 DEF InspectUntilRunning, Register, UseOf, Holds
  <2>4. CASE GrepLogs(c)
    <3>1. CASE Restart
      BY <1>2, <3>1
    <3>2. CASE UNCHANGED <<pc, td, docker>>
      BY <3>2 DEF UseOf, Holds
    <3> QED BY <2>4, <3>1, <3>2 DEF GrepLogs
  <2> QED BY <1>3, <2>2, <2>3, <2>4 DEF CreateStep
<1>4. ASSUME NEW c \in Containers, DaemonStep(c) PROVE Simulated
  <2>1. use' = use
    BY <1>4 DEF DaemonStep, ContainerExits, AutoRemove, UseOf, Holds
  <2>2. Removed' = Removed \/ Removed' = Removed \cup {c}
    BY <1>4 DEF DaemonStep, ContainerExits, AutoRemove, Halt
  <2> QED BY <2>1, <2>2
<1>5. ASSUME NEW s \in Stoppers, StopStep(s) PROVE Simulated
  <2>1. use' = use
    BY <1>5 DEF StopStep, StopChecks, ContainerStop, ContainerRemove,
                StopUnregisters, UseOf, Holds
  <2>2. TargetOf(s) \in Containers
    BY DEF TargetOf, Stoppers
  <2>3. Removed' = Removed \/ Removed' = Removed \cup {TargetOf(s)}
    BY <1>5, <2>2 DEF StopStep, StopChecks, ContainerStop, Halt, ContainerRemove,
                      StopUnregisters
  <2> QED BY <2>1, <2>2, <2>3
<1>6. ASSUME NEW e \in Calls, Execute(e) PROVE Simulated
  <2>1. td[e] = "none"
    BY <1>6 DEF Execute, ExclusionInv, TeardownIsLast
  <2>2. Removed' = Removed
    BY <1>6 DEF Execute
  <2>3. use[e] = "waiting" /\ \A f \in Calls \ {e} : use'[f] = use[f]
    BY <1>6 DEF Execute, Return, UseOf, Holds
  <2>4. CASE setBusy(target[e]) /\ pc' = [pc EXCEPT ![e] = "execCreate"]
    <3>1. use'[e] = "holding"
      BY <2>4 DEF UseOf, Holds
    <3>2. docker[target[e]] # "removed"
          => \A f \in Calls : target[f] = target[e] => ~Holds(f)
      BY <2>4 DEF setBusy, ExclusionInv, HeldIsBusy
    <3> HIDE DEF Moves, use, Removed
    <3>3. Moves(e, "waiting", "holding")
      BY <1>m, <2>2, <2>3, <3>1
    <3> USE DEF use, Removed
    <3> QED BY <3>2, <3>3
  <2>5. CASE Return(e)
    <3>1. use'[e] = "finished"
      BY <1>6, <2>1, <2>5 DEF Execute, Return, UseOf, Holds
    <3> HIDE DEF Moves, use, Removed
    <3>2. Moves(e, "waiting", "finished")
      BY <1>m, <2>2, <2>3, <3>1
    <3> USE DEF use, Removed
    <3> QED BY <3>2
  <2> QED BY <1>6, <2>4, <2>5 DEF Execute
<1>7. ASSUME NEW e \in Calls, ExecStep(e) \/ TeardownStep(e) PROVE Simulated
  <2>1. Removed' = Removed
    BY <1>7 DEF ExecStep, ContainerExecCreate, ContainerExecAttach, GetZeroStats,
                StreamEnds, LimitExceeded, ContainerExecInspect, TeardownStep,
                KillCreate, KillStart, KillWait, TeardownSetsIdle
  <2>2. use[e] = "holding" /\ use'[e] \in {"holding", "finished"}
    <3>1. TeardownIsLast
      BY DEF ExclusionInv
    <3> QED BY <1>7, <3>1
        DEF TeardownIsLast, ExecStep, ContainerExecCreate, ContainerExecAttach,
            GetZeroStats, StreamEnds, LimitExceeded, ContainerExecInspect, Return,
            TeardownStep, KillCreate, KillStart, KillWait, TeardownSetsIdle,
            UseOf, Holds
  <2>3. \A f \in Calls \ {e} : use'[f] = use[f]
    BY <1>7 DEF ExecStep, ContainerExecCreate, ContainerExecAttach, GetZeroStats,
                StreamEnds, LimitExceeded, ContainerExecInspect, Return,
                TeardownStep, KillCreate, KillStart, KillWait, TeardownSetsIdle,
                UseOf, Holds
  <2>4. CASE use'[e] = "finished"
    <3> HIDE DEF Moves, use, Removed
    <3>1. Moves(e, "holding", "finished")
      BY <1>m, <2>1, <2>2, <2>3, <2>4
    <3> USE DEF use, Removed
    <3> QED BY <3>1
  <2>5. CASE use'[e] = "holding"
    BY <2>1, <2>2, <2>3, <2>5
  <2> QED BY <2>2, <2>4, <2>5
<1>8. ASSUME NEW e \in Calls, ProcessExits(e) \/ KillTakesEffect(e)
      PROVE  Simulated
  BY <1>8 DEF ProcessExits, KillTakesEffect, UseOf, Holds
<1>9. ASSUME NEW m \in SUBSET Containers, FindContainers(m) PROVE Simulated
  BY <1>9 DEF FindContainers, UseOf, Holds
<1>10. ASSUME NEW s \in StopCalls, NEW force \in BOOLEAN, StopContainer(s, force)
       PROVE  Simulated
  BY <1>10 DEF StopContainer, UseOf, Holds
<1>11. CASE UNCHANGED vars
  BY <1>11 DEF vars, UseOf, Holds
<1> HIDE DEF Simulated
<1> QED BY <1>2, <1>3, <1>4, <1>5, <1>6, <1>7, <1>8, <1>9, <1>10, <1>11 DEF Next

\* The manager implements the pool of locks, whatever fails and however often
\* the program dies, for clients that wait for the creation of a container.
THEOREM Refinement ==
    ASSUME ~UseDuringCreate
    PROVE  Spec => ImplementsPool
<1>1. Init => ExclusionInv
  BY ConstantsOK DEF Init, ExclusionInv, TypeOK, ExclusiveExec, HeldIsBusy,
     UnusedInCreation, UnregistersRemoved, AbsentUntilCreated, TeardownIsLast,
     Holds
<1>2. Init => Pool!Init
  BY DEF Init, Pool!Init, UseOf
<1> QED BY <1>1, <1>2, ExclusionStep, PoolStep, PTL
        DEF Spec, ImplementsPool, Pool!Spec

=============================================================================
