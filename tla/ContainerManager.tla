-------------------------- MODULE ContainerManager --------------------------
(***************************************************************************)
(* containermanager/containers.go: the registry that says which containers *)
(* are idle or busy, the goroutines that create, use, tear down and stop   *)
(* containers, and the Docker daemon as the code uses it.                  *)
(*                                                                         *)
(* The registry map is guarded by one RWMutex that is released between any *)
(* two Docker calls, so every critical section and every Docker call is a  *)
(* step of its own and all goroutines interleave between them.             *)
(***************************************************************************)
EXTENDS Naturals, FiniteSets

CONSTANTS
    Containers,      \* container IDs; Docker never uses one twice
    Calls,           \* calls of Execute, each made once
    StopCalls,       \* calls of StopContainer made by clients
    Faults,          \* the Docker requests that may fail for no visible reason
    UseDuringCreate, \* may a client use an ID whose creation is in flight?
    MaxCrashes       \* bound: how often the program dies and is restarted

Requests ==
    {"create", "start", "inspect", "logs", "ready", "stop", "remove",
     "execCreate", "attach", "stats", "stream", "execInspect",
     "killCreate", "killStart", "killInspect", "kill"}

ASSUME ConstantsOK ==
    /\ Faults \subseteq Requests
    /\ UseDuringCreate \in BOOLEAN
    /\ MaxCrashes \in Nat
    /\ Containers \cap Calls = {}
    /\ Containers \cap StopCalls = {}
    /\ Calls \cap StopCalls = {}

VARIABLES
    reg,      \* cm.containers: "none" where the map has no entry
    docker,   \* the daemon's state of each container
    create,   \* where CreateAndRunContainer stands for each container
    found,    \* IDs that FindContainers has returned to clients
    target,   \* the containerID argument of each call
    pc,       \* where Execute stands, for each call
    proc,     \* the processes a call runs in its container
    td,       \* where the teardown goroutine of each call stands
    kill,     \* the calls whose teardown has a `kill -- -1` at large
    stop,     \* where each StopContainer stands
    crashes   \* restarts so far

vars == <<reg, docker, create, found, target, pc, proc, td, kill, stop, crashes>>

\* StopContainer is run by clients and, with `go`, by a failed creation and by
\* a call that has exceeded its limits; each has at most one.
Stoppers == Containers \cup Calls \cup StopCalls

TargetOf(s) == IF s \in Containers THEN s ELSE target[s]

CallsOn(c) == {e \in Calls : target[e] = c}

Creating(c) == create[c] \in {"start", "inspect", "ready", "register"}

\* Processes of a call run in the container, with or without the process that
\* the call started, and have not been sent a SIGTERM; or they have been sent
\* one and run on, because they trap it or take their time over it.
Unsignalled == {"main", "spawned"}

Termed(p) ==
    CASE p = "main" -> "termedMain"
      [] p = "spawned" -> "termed"
      [] OTHER -> p

MainRuns(e) == proc[e] \in {"main", "termedMain"}

TypeOK ==
    /\ reg \in [Containers -> {"none", "idle", "busy"}]
    /\ docker \in [Containers ->
                     {"absent", "created", "running", "exited", "removed"}]
    /\ create \in [Containers ->
                     {"none", "start", "inspect", "ready", "register",
                      "done", "failed"}]
    /\ found \in SUBSET Containers
    /\ target \in [Calls \cup StopCalls -> Containers]
    /\ pc \in [Calls -> {"new", "execCreate", "attach", "zeroStats",
                         "streaming", "final", "returned"}]
    /\ proc \in [Calls -> {"none", "main", "spawned", "termedMain", "termed",
                           "dead"}]
    /\ td \in [Calls -> {"none", "create", "start", "wait", "idle", "done"}]
    /\ kill \in SUBSET Calls
    /\ stop \in [Stoppers -> {"none", "check", "stop", "remove",
                              "unregister", "done"}]
    /\ crashes \in 0 .. MaxCrashes

Init ==
    /\ reg = [c \in Containers |-> "none"]
    /\ docker = [c \in Containers |-> "absent"]
    /\ create = [c \in Containers |-> "none"]
    /\ found = {}
    /\ target \in [Calls \cup StopCalls -> Containers]
    /\ pc = [e \in Calls |-> "new"]
    /\ proc = [e \in Calls |-> "none"]
    /\ td = [e \in Calls |-> "none"]
    /\ kill = {}
    /\ stop = [s \in Stoppers |-> "none"]
    /\ crashes = 0

(***************************************************************************)
(* Docker.                                                                 *)
(***************************************************************************)
\* The container reaches state s, in which nothing runs in it any more.
Halt(c, s) ==
    /\ docker' = [docker EXCEPT ![c] = s]
    /\ proc' = [e \in Calls |->
                  IF target[e] = c /\ proc[e] # "none" THEN "dead" ELSE proc[e]]
    /\ kill' = kill \ CallsOn(c)

\* The container's main process ends by itself.
ContainerExits(c) ==
    /\ docker[c] = "running"
    /\ Halt(c, "exited")
    /\ UNCHANGED <<reg, create, found, target, pc, td, stop, crashes>>

\* HostConfig.AutoRemove: the daemon removes a container that has exited.
AutoRemove(c) ==
    /\ docker[c] = "exited"
    /\ docker' = [docker EXCEPT ![c] = "removed"]
    /\ UNCHANGED <<reg, create, found, target, pc, proc, td, kill, stop, crashes>>

\* The process of a call ends, alone or leaving processes it has spawned, or
\* the last of those ends.
ProcessExits(e) ==
    /\ \/ /\ proc[e] = "main"
          /\ proc' = [proc EXCEPT ![e] = "spawned"]
       \/ /\ proc[e] = "termedMain"
          /\ proc' = [proc EXCEPT ![e] = "termed"]
       \/ /\ proc[e] \notin {"none", "dead"}
          /\ proc' = [proc EXCEPT ![e] = "dead"]
    /\ UNCHANGED <<reg, docker, create, found, target, pc, td, kill, stop, crashes>>

\* `kill -- -1`, run as root, sends SIGTERM to every process in the container
\* but its first one: to those of all calls, not only of the call it was run
\* for. Each ends at once or runs on. When the kill process itself fails
\* nobody is told: its exit code is not looked at.
KillTakesEffect(e) ==
    /\ e \in kill
    /\ \/ \E survivors \in SUBSET CallsOn(target[e]) :
             proc' = [f \in Calls |->
                        IF target[f] # target[e] \/ proc[f] = "none" THEN proc[f]
                        ELSE IF f \in survivors THEN Termed(proc[f])
                        ELSE "dead"]
       \/ "kill" \in Faults /\ UNCHANGED proc
    /\ kill' = kill \ {e}
    /\ UNCHANGED <<reg, docker, create, found, target, pc, td, stop, crashes>>

(***************************************************************************)
(* The registry.                                                           *)
(***************************************************************************)
Registered(c) == reg[c] # "none"          \* ContainerExist

Stats == [c \in {d \in Containers : Registered(d)} |-> reg[c]]

registerContainer(c) == reg' = [reg EXCEPT ![c] = "idle"]

unregisterContainer(c) == reg' = [reg EXCEPT ![c] = "none"]

\* Mutant: the busy check is missing.
setBusyUnchecked(c) == reg' = [reg EXCEPT ![c] = "busy"]

\* A missing key reads as containerStateIdle and is created by the assignment.
setBusy(c) == reg[c] # "busy" /\ reg' = [reg EXCEPT ![c] = "busy"]

setIdle(c) == reg' = IF Registered(c) THEN [reg EXCEPT ![c] = "idle"] ELSE reg

(***************************************************************************)
(* CreateAndRunContainer.                                                  *)
(***************************************************************************)
ContainerCreate(c) ==
    /\ create[c] = "none"
    /\ \/ /\ create' = [create EXCEPT ![c] = "start"]
          /\ docker' = [docker EXCEPT ![c] = "created"]
       \/ /\ "create" \in Faults
          /\ create' = [create EXCEPT ![c] = "failed"]
          /\ UNCHANGED docker
    /\ UNCHANGED <<reg, found, target, pc, proc, td, kill, stop, crashes>>

\* The error return: go cm.StopContainer(resp.ID, false).
CreateFails(c) ==
    /\ create' = [create EXCEPT ![c] = "failed"]
    /\ stop' = [stop EXCEPT ![c] = "check"]

\* A start that is reported as failed may have got any distance.
ContainerStart(c) ==
    /\ create[c] = "start"
    /\ \/ /\ docker[c] = "created"
          /\ docker' = [docker EXCEPT ![c] = "running"]
          /\ create' = [create EXCEPT ![c] = "inspect"]
          /\ UNCHANGED stop
       \/ /\ docker[c] = "created" /\ "start" \in Faults
          /\ \E s \in {"created", "running", "exited"} :
                docker' = [docker EXCEPT ![c] = s]
          /\ CreateFails(c)
       \/ /\ docker[c] = "removed"
          /\ CreateFails(c)
          /\ UNCHANGED docker
    /\ UNCHANGED <<reg, found, target, pc, proc, td, kill, crashes>>

\* The wait-ready loop; an iteration that sees another status changes nothing.
InspectUntilRunning(c) ==
    /\ create[c] = "inspect"
    /\ \/ /\ docker[c] = "running"
          /\ \E readyString \in BOOLEAN :
                create' = [create EXCEPT
                             ![c] = IF readyString THEN "ready" ELSE "register"]
          /\ UNCHANGED stop
       \/ /\ docker[c] = "removed" \/ "inspect" \in Faults
          /\ CreateFails(c)
    /\ UNCHANGED <<reg, docker, found, target, pc, proc, td, kill, crashes>>

\* The program dies: the registry and every goroutine are gone, Docker's
\* containers and the processes in them are not.
Restart ==
    /\ crashes < MaxCrashes
    /\ crashes' = crashes + 1
    /\ reg' = [c \in Containers |-> "none"]
    /\ create' = [c \in Containers |->
                    IF Creating(c) THEN "failed" ELSE create[c]]
    /\ found' = {}
    /\ pc' = [e \in Calls |-> IF pc[e] = "new" THEN "new" ELSE "returned"]
    /\ td' = [e \in Calls |-> IF td[e] = "none" THEN "none" ELSE "done"]
    /\ stop' = [s \in Stoppers |-> IF stop[s] = "none" THEN "none" ELSE "done"]
    /\ UNCHANGED <<docker, target, proc, kill>>

\* The ready string is found or not within the timeout; a log request that
\* fails panics and takes the program down.
GrepLogs(c) ==
    /\ create[c] = "ready"
    /\ \/ /\ docker[c] = "running"
          /\ create' = [create EXCEPT ![c] = "register"]
          /\ UNCHANGED <<reg, found, pc, td, stop, crashes>>
       \/ /\ docker[c] # "running" \/ "ready" \in Faults
          /\ CreateFails(c)
          /\ UNCHANGED <<reg, found, pc, td, crashes>>
       \/ /\ docker[c] = "removed" \/ "logs" \in Faults
          /\ Restart
    /\ UNCHANGED <<docker, target, proc, kill>>

Register(c) ==
    /\ create[c] = "register"
    /\ registerContainer(c)
    /\ create' = [create EXCEPT ![c] = "done"]
    /\ UNCHANGED <<docker, found, target, pc, proc, td, kill, stop, crashes>>

(***************************************************************************)
(* What clients can name.                                                  *)
(***************************************************************************)
\* ListOptions{All: true}: containers that do not run are listed as well.
Listed(c) == docker[c] \in {"created", "running", "exited"}

FindContainers(matching) ==
    /\ found' = found \cup {c \in matching : Listed(c)}
    /\ UNCHANGED <<reg, docker, create, target, pc, proc, td, kill, stop, crashes>>

Known(c) ==
    /\ create[c] = "done" \/ c \in found
    /\ Creating(c) => UseDuringCreate

(***************************************************************************)
(* StopContainer(containerID, force).                                      *)
(***************************************************************************)
StopContainer(s, force) ==
    /\ stop[s] = "none"
    /\ Known(target[s])
    /\ stop' = [stop EXCEPT ![s] = IF force THEN "stop" ELSE "check"]
    /\ UNCHANGED <<reg, docker, create, found, target, pc, proc, td, kill, crashes>>

\* if !cm.ContainerExist(containerID) && !force { return }
StopChecks(s) ==
    /\ stop[s] = "check"
    /\ stop' = [stop EXCEPT
                  ![s] = IF Registered(TargetOf(s)) THEN "stop" ELSE "done"]
    /\ UNCHANGED <<reg, docker, create, found, target, pc, proc, td, kill, crashes>>

\* Stopping a container that does not run is not an error for Docker.
ContainerStop(s) ==
    LET c == TargetOf(s) IN
    /\ stop[s] = "stop"
    /\ \/ /\ docker[c] = "running"
          /\ Halt(c, "exited")
          /\ stop' = [stop EXCEPT ![s] = "remove"]
       \/ /\ docker[c] \in {"created", "exited"}
          /\ stop' = [stop EXCEPT ![s] = "remove"]
          /\ UNCHANGED <<docker, proc, kill>>
       \/ /\ docker[c] = "removed" \/ "stop" \in Faults
          /\ stop' = [stop EXCEPT ![s] = "done"]
          /\ UNCHANGED <<docker, proc, kill>>
       \/ /\ docker[c] = "running" /\ "stop" \in Faults
          /\ Halt(c, "exited")
          /\ stop' = [stop EXCEPT ![s] = "done"]
    /\ UNCHANGED <<reg, create, found, target, pc, td, crashes>>

\* Mutant: an error of ContainerRemove does not end StopContainer.
ContainerRemoveIgnoringErrors(s) ==
    LET c == TargetOf(s) IN
    /\ stop[s] = "remove"
    /\ \/ /\ docker[c] \in {"created", "exited"}
          /\ docker' = [docker EXCEPT ![c] = "removed"]
       \/ /\ docker[c] \in {"running", "removed"} \/ "remove" \in Faults
          /\ UNCHANGED docker
    /\ stop' = [stop EXCEPT ![s] = "unregister"]
    /\ UNCHANGED <<reg, create, found, target, pc, proc, td, kill, crashes>>

\* Docker refuses to remove a container that runs or that AutoRemove has taken.
ContainerRemove(s) ==
    LET c == TargetOf(s) IN
    /\ stop[s] = "remove"
    /\ \/ /\ docker[c] \in {"created", "exited"}
          /\ docker' = [docker EXCEPT ![c] = "removed"]
          /\ stop' = [stop EXCEPT ![s] = "unregister"]
       \/ /\ docker[c] \in {"running", "removed"} \/ "remove" \in Faults
          /\ stop' = [stop EXCEPT ![s] = "done"]
          /\ UNCHANGED docker
       \/ /\ docker[c] \in {"created", "exited"} /\ "remove" \in Faults
          /\ docker' = [docker EXCEPT ![c] = "removed"]
          /\ stop' = [stop EXCEPT ![s] = "done"]
    /\ UNCHANGED <<reg, create, found, target, pc, proc, td, kill, crashes>>

StopUnregisters(s) ==
    /\ stop[s] = "unregister"
    /\ unregisterContainer(TargetOf(s))
    /\ stop' = [stop EXCEPT ![s] = "done"]
    /\ UNCHANGED <<docker, create, found, target, pc, proc, td, kill, crashes>>

(***************************************************************************)
(* Execute: createExecutor, execAttach, teardown.                          *)
(***************************************************************************)
Return(e) == pc' = [pc EXCEPT ![e] = "returned"]

\* Up to setBusy; a call without a stdout channel, or on a busy container,
\* returns at once.
Execute(e) ==
    /\ pc[e] = "new"
    /\ Known(target[e])
    /\ \/ /\ setBusy(target[e])
          /\ pc' = [pc EXCEPT ![e] = "execCreate"]
       \/ Return(e) /\ UNCHANGED reg
    /\ UNCHANGED <<docker, create, found, target, proc, td, kill, stop, crashes>>

\* Mutant: every error of ContainerExecCreate unregisters the container.
ContainerExecCreateUnregisters(e) ==
    LET c == target[e] IN
    /\ pc[e] = "execCreate"
    /\ \/ /\ docker[c] = "running"
          /\ pc' = [pc EXCEPT ![e] = "attach"]
          /\ UNCHANGED reg
       \/ /\ docker[c] # "running" \/ "execCreate" \in Faults
          /\ unregisterContainer(c)
          /\ Return(e)
    /\ UNCHANGED <<docker, create, found, target, proc, td, kill, stop, crashes>>

\* Only "No such container" unregisters; any other error leaves the entry busy.
ContainerExecCreate(e) ==
    LET c == target[e] IN
    /\ pc[e] = "execCreate"
    /\ \/ /\ docker[c] = "running"
          /\ pc' = [pc EXCEPT ![e] = "attach"]
          /\ UNCHANGED reg
       \/ /\ docker[c] = "removed"
          /\ unregisterContainer(c)
          /\ Return(e)
       \/ /\ docker[c] \in {"created", "exited"} \/ "execCreate" \in Faults
          /\ Return(e)
          /\ UNCHANGED reg
    /\ UNCHANGED <<docker, create, found, target, proc, td, kill, stop, crashes>>

\* Attaching starts the process; on an error it may have been started or not.
ContainerExecAttach(e) ==
    LET c == target[e] IN
    /\ pc[e] = "attach"
    /\ \/ /\ docker[c] = "running"
          /\ proc' = [proc EXCEPT ![e] = "main"]
          /\ pc' = [pc EXCEPT ![e] = "zeroStats"]
       \/ /\ docker[c] # "running" \/ "attach" \in Faults
          /\ Return(e)
          /\ UNCHANGED proc
       \/ /\ docker[c] = "running" /\ "attach" \in Faults
          /\ proc' = [proc EXCEPT ![e] = "main"]
          /\ Return(e)
    /\ UNCHANGED <<reg, docker, create, found, target, td, kill, stop, crashes>>

\* The statistics before the run; without them the call gives up.
GetZeroStats(e) ==
    /\ pc[e] = "zeroStats"
    /\ \/ /\ docker[target[e]] # "removed"
          /\ pc' = [pc EXCEPT ![e] = "streaming"]
       \/ /\ docker[target[e]] = "removed" \/ "stats" \in Faults
          /\ Return(e)
    /\ UNCHANGED <<reg, docker, create, found, target, proc, td, kill, stop, crashes>>

\* doneStreaming: the stream ends with the process, or because it breaks.
StreamEnds(e) ==
    /\ pc[e] = "streaming"
    /\ ~MainRuns(e) \/ "stream" \in Faults
    /\ pc' = [pc EXCEPT ![e] = "final"]
    /\ UNCHANGED <<reg, docker, create, found, target, proc, td, kill, stop, crashes>>

\* Mutant: limits are only looked at once the process has ended.
LimitSeenTooLate(e) ==
    /\ pc[e] = "streaming"
    /\ docker[target[e]] # "removed"
    /\ ~MainRuns(e)
    /\ stop' = [stop EXCEPT ![e] = "check"]
    /\ Return(e)
    /\ UNCHANGED <<reg, docker, create, found, target, proc, td, kill, crashes>>

\* Mutant: the entry is dropped before StopContainer looks for it.
LimitUnregisters(e) ==
    /\ pc[e] = "streaming"
    /\ docker[target[e]] # "removed"
    /\ unregisterContainer(target[e])
    /\ stop' = [stop EXCEPT ![e] = "check"]
    /\ Return(e)
    /\ UNCHANGED <<docker, create, found, target, proc, td, kill, crashes>>

\* checkLimits reports a limit before the stream ends: the container is
\* stopped in the background and the entry stays busy until it is.
LimitExceeded(e) ==
    /\ pc[e] = "streaming"
    /\ docker[target[e]] # "removed"
    /\ stop' = [stop EXCEPT ![e] = "check"]
    /\ Return(e)
    /\ UNCHANGED <<reg, docker, create, found, target, proc, td, kill, crashes>>

\* Mutant: no teardown is started.
NoTeardown(e) ==
    /\ pc[e] = "final"
    /\ Return(e)
    /\ UNCHANGED <<reg, docker, create, found, target, proc, td, kill, stop, crashes>>

\* The exit code; without it there is no teardown.
ContainerExecInspect(e) ==
    /\ pc[e] = "final"
    /\ \/ /\ docker[target[e]] # "removed"
          /\ td' = [td EXCEPT ![e] = "create"]
       \/ /\ docker[target[e]] # "running" \/ "execInspect" \in Faults
          /\ UNCHANGED td
    /\ Return(e)
    /\ UNCHANGED <<reg, docker, create, found, target, proc, kill, stop, crashes>>

\* Mutant: teardown sets idle without killing.
KillSkipped(e) ==
    /\ td[e] = "create"
    /\ td' = [td EXCEPT ![e] = "idle"]
    /\ UNCHANGED <<reg, docker, create, found, target, pc, proc, kill, stop, crashes>>

\* killAll: create the kill process, start it, wait until it has ended. An
\* error ends killAll early, and teardown goes on to setIdle all the same.
KillCreate(e) ==
    /\ td[e] = "create"
    /\ \/ /\ docker[target[e]] = "running"
          /\ td' = [td EXCEPT ![e] = "start"]
       \/ /\ docker[target[e]] # "running" \/ "killCreate" \in Faults
          /\ td' = [td EXCEPT ![e] = "idle"]
    /\ UNCHANGED <<reg, docker, create, found, target, pc, proc, kill, stop, crashes>>

KillStart(e) ==
    /\ td[e] = "start"
    /\ \/ /\ docker[target[e]] = "running"
          /\ kill' = kill \cup {e}
          /\ td' = [td EXCEPT ![e] = "wait"]
       \/ /\ docker[target[e]] # "running" \/ "killStart" \in Faults
          /\ td' = [td EXCEPT ![e] = "idle"]
          /\ UNCHANGED kill
       \/ /\ docker[target[e]] = "running" /\ "killStart" \in Faults
          /\ td' = [td EXCEPT ![e] = "idle"]
          /\ kill' = kill \cup {e}
    /\ UNCHANGED <<reg, docker, create, found, target, pc, proc, stop, crashes>>

\* Mutant: killAll does not wait for the kill process to end.
KillNotAwaited(e) ==
    /\ td[e] = "wait"
    /\ td' = [td EXCEPT ![e] = "idle"]
    /\ UNCHANGED <<reg, docker, create, found, target, pc, proc, kill, stop, crashes>>

KillWait(e) ==
    /\ td[e] = "wait"
    /\ e \notin kill \/ docker[target[e]] # "running" \/ "killInspect" \in Faults
    /\ td' = [td EXCEPT ![e] = "idle"]
    /\ UNCHANGED <<reg, docker, create, found, target, pc, proc, kill, stop, crashes>>

TeardownSetsIdle(e) ==
    /\ td[e] = "idle"
    /\ setIdle(target[e])
    /\ td' = [td EXCEPT ![e] = "done"]
    /\ UNCHANGED <<docker, create, found, target, pc, proc, kill, stop, crashes>>

(***************************************************************************)
(* The specification.                                                      *)
(***************************************************************************)
CreateStep(c) ==
    \/ ContainerCreate(c)
    \/ ContainerStart(c)
    \/ InspectUntilRunning(c)
    \/ GrepLogs(c)
    \/ Register(c)

StopStep(s) ==
    \/ StopChecks(s)
    \/ ContainerStop(s)
    \/ ContainerRemove(s)
    \/ StopUnregisters(s)

ExecStep(e) ==
    \/ ContainerExecCreate(e)
    \/ ContainerExecAttach(e)
    \/ GetZeroStats(e)
    \/ StreamEnds(e)
    \/ LimitExceeded(e)
    \/ ContainerExecInspect(e)

TeardownStep(e) ==
    \/ KillCreate(e)
    \/ KillStart(e)
    \/ KillWait(e)
    \/ TeardownSetsIdle(e)

DaemonStep(c) == ContainerExits(c) \/ AutoRemove(c)

Next ==
    \/ \E c \in Containers : CreateStep(c) \/ DaemonStep(c)
    \/ \E m \in SUBSET Containers : FindContainers(m)
    \/ \E s \in StopCalls, force \in BOOLEAN : StopContainer(s, force)
    \/ \E s \in Stoppers : StopStep(s)
    \/ \E e \in Calls : Execute(e) \/ ExecStep(e) \/ TeardownStep(e)
    \/ \E e \in Calls : ProcessExits(e) \/ KillTakesEffect(e)
    \/ Restart

Spec == Init /\ [][Next]_vars

\* Goroutines are scheduled, Docker answers and carries out what it accepted,
\* and a run past its RunTime is seen by the ticker. Nothing makes a client
\* call, a process end by itself, or the program die.
Fairness ==
    /\ \A c \in Containers : /\ WF_vars(create[c] # "none" /\ CreateStep(c))
                             /\ WF_vars(AutoRemove(c))
    /\ \A s \in Stoppers : WF_vars(StopStep(s))
    /\ \A e \in Calls : /\ WF_vars(ExecStep(e))
                        /\ WF_vars(TeardownStep(e))
                        /\ WF_vars(KillTakesEffect(e))

FairSpec == Spec /\ Fairness

(***************************************************************************)
(* Properties.                                                             *)
(***************************************************************************)
\* A call uses its container from setBusy to its last access: up to its
\* return, or, when it returned normally, up to the setIdle of its teardown.
Holds(e) ==
    \/ pc[e] \notin {"new", "returned"}
    \/ td[e] \notin {"none", "done"}

\* What setBusy is for: two calls of Execute never use one container at the
\* same time, teardowns in the background included. Once Docker has removed
\* the container a second call may get in, and then fails.
ExclusiveExec ==
    \A e, f \in Calls :
        /\ e # f /\ target[e] = target[f]
        /\ Holds(e) /\ Holds(f)
        => docker[target[e]] = "removed"

\* teardown kills before it sets idle: in a container that the registry offers
\* as idle, every process that an earlier call started or left behind has been
\* sent SIGTERM. It may be running still, or have children that are: killAll
\* waits for `kill` to end, and for nothing that it has signalled.
IdleIsSwept ==
    \A c \in Containers :
        reg[c] = "idle" /\ docker[c] = "running"
        => \A e \in CallsOn(c) : proc[e] \notin Unsignalled

\* killAll waits for `kill -- -1` to end: until the program dies, it never
\* hits the process of a call that has got hold of the container after the
\* call it was run for.
KillIsolation ==
    crashes = 0 =>
        \A e, f \in Calls :
            e \in kill /\ e # f /\ target[e] = target[f] => ~Holds(f)

\* Only a container that Docker has removed goes from the map of Stats, unless
\* the program dies: no race of StopContainer, Execute and creation makes the
\* manager forget a container that still exists.
ForgetsOnlyRemoved ==
    [][\A c \in DOMAIN Stats \ DOMAIN Stats' :
          docker[c] = "removed" \/ crashes' # crashes]_vars

(***************************************************************************)
(* The manager as an implementation of ContainerPool: a call waits until   *)
(* setBusy, holds its container as long as Holds says, and is then done.   *)
(***************************************************************************)
UseOf(e) ==
    IF pc[e] = "new" THEN "waiting" ELSE IF Holds(e) THEN "holding" ELSE "finished"

Pool ==
    INSTANCE ContainerPool WITH
        wants <- [e \in Calls |-> target[e]],
        use <- [e \in Calls |-> UseOf(e)],
        gone <- {c \in Containers : docker[c] = "removed"}

\* Clients may think of a container as a lock that Execute takes and gives back
\* once, whatever requests to Docker fail, whoever stops containers, and
\* however often the program dies.
ImplementsPool == Pool!Spec

\* Who has got hold of a container gives it back, teardown included.
ImplementsFairPool == Pool!FairSpec

\* A container that is busy becomes usable again, or stops running.
BusyIsReleased ==
    \A c \in Containers :
        reg[c] = "busy" ~> (reg[c] # "busy" \/ docker[c] # "running")

\* A StopContainer that gets past its check has the container removed, by
\* itself or by AutoRemove; the one a call starts when it exceeds a limit
\* always gets past it, because the entry of the container is still there.
StopRemoves ==
    /\ \A s \in Stoppers : stop[s] = "stop" ~> docker[TargetOf(s)] = "removed"
    /\ \A e \in Calls : stop[e] = "check" ~> docker[target[e]] = "removed"

(***************************************************************************)
(* The inductive invariant behind ExclusiveExec and IdleIsSwept.           *)
(***************************************************************************)
\* A held container is busy, until Docker has removed it.
HeldIsBusy ==
    \A e \in Calls :
        Holds(e) => reg[target[e]] = "busy" \/ docker[target[e]] = "removed"

\* A container is not used before its creation has ended.
UnusedInCreation ==
    \A e \in Calls :
        create[target[e]] = "none" \/ Creating(target[e])
        => /\ pc[e] \in {"new", "returned"}
           /\ td[e] \in {"none", "done"}
           /\ proc[e] = "none"

\* A StopContainer about to unregister has seen its container removed.
UnregistersRemoved ==
    \A s \in Stoppers :
        stop[s] = "unregister" => docker[TargetOf(s)] = "removed"

\* Before it is created Docker has no container, and no client its ID.
AbsentUntilCreated ==
    \A c \in Containers :
        create[c] = "none" => docker[c] = "absent" /\ c \notin found

\* A call tears down only after it has returned.
TeardownIsLast == \A e \in Calls : td[e] # "none" => pc[e] = "returned"

ExclusionInv ==
    /\ TypeOK
    /\ ExclusiveExec
    /\ HeldIsBusy
    /\ UnusedInCreation
    /\ UnregistersRemoved
    /\ AbsentUntilCreated
    /\ TeardownIsLast

\* The kill process of e has done its work.
KillDone(e) == td[e] = "idle" \/ (td[e] = "wait" /\ e \notin kill)

\* A teardown whose kill has ended has left no process out.
KilledIsSwept ==
    \A e \in Calls :
        KillDone(e) /\ docker[target[e]] = "running"
        => \A f \in CallsOn(target[e]) : proc[f] \notin Unsignalled

SweptInv ==
    /\ ExclusionInv
    /\ IdleIsSwept
    /\ KilledIsSwept

\* Before the program dies, a kill process at large is one that its teardown
\* waits for.
KillIsAwaited ==
    crashes = 0 =>
        \A e \in Calls :
            e \in kill => td[e] = "wait" /\ docker[target[e]] = "running"

\* A running container that is marked busy has somebody who will release it, or
\* who is about to stop it: a call that uses it, or has exceeded its limits.
BusyHasOwner ==
    \A c \in Containers :
        reg[c] = "busy" /\ docker[c] = "running"
        => \E e \in CallsOn(c) : Holds(e) \/ stop[e] \in {"check", "stop"}

\* Nothing is marked busy that Docker has still to start.
BusyIsCreated ==
    \A c \in Containers : reg[c] = "busy" => create[c] \in {"done", "failed"}

OwnerInv == ExclusionInv /\ BusyHasOwner /\ BusyIsCreated
=============================================================================
