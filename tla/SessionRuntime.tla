--------------------------- MODULE SessionRuntime ---------------------------
(***************************************************************************)
(* The supervisor of weld-session (lib.rs): listeners that accept          *)
(* connections, tasks that services spawn, and one operation of            *)
(* SessionOperation, all submitted through a bounded command queue to a    *)
(* worker thread that starts them within the budget of their protocol, and *)
(* ends them when the application drops the runtime.                       *)
(*                                                                         *)
(* A job is a connection or a spawned task. The worker is one thread: a    *)
(* step of its loop is atomic, and its tasks run between two steps.        *)
(***************************************************************************)
EXTENDS SessionOperation, Naturals, Sequences, FiniteSets

CONSTANTS
  Listeners,
  Connections, Spawned,   \* the jobs: of the listeners, and of SessionTasks::spawn
  Operation,              \* the task of start_operation
  Protocol, Limit,        \* of every job and of the operation: its service and budget
  Handoffs,               \* the protocols registered with Registry::handoff
  CommandRoom,            \* capacity of the command queue (64)
  HandoffRoom,            \* capacity of a handoff
  MaxProtocols,           \* protocols the worker keeps budgets for (64)
  MaxListeners,           \* Owner.listeners (16)
  Applications,           \* what an application may do: see application
  None

Jobs == Connections \union Spawned
Protocols == {Protocol[j] : j \in Jobs \union {Operation}}

ASSUME RuntimeAssumption ==
  /\ Protocol \in [Jobs \union {Operation} -> Protocols]
  /\ Limit \in [Jobs \union {Operation} -> Nat \ {0}]
  /\ {CommandRoom, HandoffRoom, MaxProtocols, MaxListeners} \subseteq Nat \ {0}
  /\ Operation \notin Jobs \union Listeners /\ Jobs \intersect Listeners = {}
  /\ Connections \intersect Spawned = {}

VARIABLES
  application,   \* [operation: it calls start_operation, listeners, jobs: those it meets]
  commands,   \* Owner.commands
  closed,     \* the command channel is closed
  owner,      \* the last SessionRuntime: "held", "joining", "gone"
  worker,     \* the worker thread: its loop, or the part of its shutdown
  listener,   \* what each listener's task is doing
  place,      \* where each job is
  via,        \* the listener that accepted a connection
  active      \* per protocol the limit of its semaphore, 0 without an entry

supervisorVars == <<application, commands, closed, owner, worker>>
taskVars == <<listener, place, via, active>>
runtimeVars == <<vars, supervisorVars, taskVars>>

RuntimeInit ==
  /\ Init
  /\ application \in Applications
  /\ commands \in IF application.operation
                    THEN {<<Operation>>} \union {<<j, Operation>> : j \in Spawned \intersect application.jobs}
                    ELSE {<<>>}
  /\ closed = FALSE /\ owner = "held" /\ worker = "loop"
  /\ listener = [l \in Listeners |-> "idle"]
  /\ place = [j \in Jobs |-> IF commands # <<>> /\ j = Head(commands) THEN "queued" ELSE "outside"]
  /\ via = [c \in Connections |-> None]
  /\ active = [p \in Protocols |-> 0]

OperationRuns == task \notin {"queued", "ended"}
Running(p) ==
  {j \in Jobs : place[j] = "running" /\ Protocol[j] = p}
    \union {o \in {Operation} : OperationRuns /\ Protocol[o] = p}

\* Mutant: a dropped handoff is closed and not emptied.
SettledOpen(at, state) == at

\* Queue::drop: with the listener, which owns the registry, and the last job that
\* uses its handler, the connections that nobody claimed are dropped.
Settled(at, state) ==
  [j \in Jobs |->
    IF /\ at[j] = "handoff" /\ state[via[j]] = "ended"
       /\ \A c \in Connections : via[c] = via[j] => at[c] \notin {"queued", "running"}
      THEN "dropped" ELSE at[j]]

Become(at, state) == place' = Settled(at, state) /\ listener' = state

-----------------------------------------------------------------------------
(* What is submitted: try_send by the application, send by a listener.     *)

Room == ~closed /\ Len(commands) < CommandRoom
Permits == Cardinality({l \in Listeners : listener[l] \notin {"idle", "ended"}})

Listen(l) ==
  /\ l \in application.listeners /\ owner = "held" /\ listener[l] = "idle" /\ Permits < MaxListeners /\ Room
  /\ commands' = Append(commands, l) /\ listener' = [listener EXCEPT ![l] = "queued"]
  /\ UNCHANGED <<vars, application, closed, owner, worker, place, via, active>>

Spawn(j) ==
  /\ j \in application.jobs /\ place[j] = "outside"
  /\ IF Room THEN commands' = Append(commands, j) /\ place' = [place EXCEPT ![j] = "queued"]
             ELSE place' = [place EXCEPT ![j] = "dropped"] /\ UNCHANGED commands
  /\ UNCHANGED <<vars, application, closed, owner, worker, listener, via, active>>

\* A connection of an unregistered protocol, or a failed acceptance, is dropped.
Accept(l, c) ==
  /\ worker = "loop" /\ listener[l] = "accepting"
  /\ c \in application.jobs /\ place[c] = "outside"
  /\ \/ /\ place' = [place EXCEPT ![c] = "carried"] /\ via' = [via EXCEPT ![c] = l]
        /\ listener' = [listener EXCEPT ![l] = "sending"]
     \/ place' = [place EXCEPT ![c] = "dropped"] /\ UNCHANGED <<via, listener>>
  /\ UNCHANGED <<vars, supervisorVars, active>>

Send(l, c) ==
  /\ worker = "loop" /\ listener[l] = "sending" /\ place[c] = "carried" /\ via[c] = l
  /\ \/ /\ Room /\ commands' = Append(commands, c)
        /\ place' = [place EXCEPT ![c] = "queued"] /\ listener' = [listener EXCEPT ![l] = "accepting"]
     \/ /\ closed /\ UNCHANGED commands
        /\ Become([place EXCEPT ![c] = "dropped"], [listener EXCEPT ![l] = "ended"])
  /\ UNCHANGED <<vars, application, closed, owner, worker, via, active>>

AcceptEnds(l) ==
  /\ worker = "loop" /\ listener[l] = "accepting"
  /\ Become(place, [listener EXCEPT ![l] = "ended"])
  /\ UNCHANGED <<vars, supervisorVars, via, active>>

-----------------------------------------------------------------------------
(* The worker's loop.                                                      *)

Received(x) == worker = "loop" /\ commands # <<>> /\ x = Head(commands) /\ commands' = Tail(commands)

Known(j) == active[Protocol[j]] # 0 \/ Cardinality({p \in Protocols : active[p] # 0}) < MaxProtocols
Entry(j) == IF active[Protocol[j]] = 0 THEN Limit[j] ELSE active[Protocol[j]]

\* Mutant: every binding brings a budget of its own.
StartsAlone(j) ==
  Known(j) /\ Cardinality({k \in Running(Protocol[j]) : Limit[k] = Limit[j]}) < Limit[j]

\* Every binding of one service uses the same aggregate budget.
Starts(j) == Known(j) /\ Entry(j) = Limit[j] /\ Cardinality(Running(Protocol[j])) < Entry(j)

Registers(j) == active' = IF Known(j) THEN [active EXCEPT ![Protocol[j]] = Entry(j)] ELSE active

ReceiveListener(l) ==
  /\ Received(l) /\ listener' = [listener EXCEPT ![l] = "accepting"]
  /\ UNCHANGED <<vars, application, closed, owner, worker, place, via, active>>

ReceiveJob(j) ==
  /\ Received(j) /\ Registers(j)
  /\ Become([place EXCEPT ![j] = IF Starts(j) THEN "running" ELSE "dropped"], listener)
  /\ UNCHANGED <<vars, application, closed, owner, worker, via>>

ReceiveOperation ==
  /\ Received(Operation) /\ Registers(Operation)
  /\ \/ Starts(Operation) /\ TaskStart
     \/ ~Starts(Operation) /\ TaskRefused
  /\ UNCHANGED <<application, closed, owner, worker, listener, place, via>>

-----------------------------------------------------------------------------
(* The tasks.                                                              *)

Handed(l) == {c \in Connections : place[c] = "handoff" /\ via[c] = l}

\* A handoff's handler: try_send into the queue, and the job is over.
HandOff(c) ==
  /\ worker # "jobs" /\ place[c] = "running" /\ Protocol[c] \in Handoffs
  /\ Become([place EXCEPT ![c] = IF Cardinality(Handed(via[c])) < HandoffRoom
                                   THEN "handoff" ELSE "dropped"], listener)
  /\ UNCHANGED <<vars, supervisorVars, via, active>>

JobEnds(j) ==
  /\ worker # "jobs" /\ place[j] = "running" /\ Protocol[j] \notin Handoffs
  /\ Become([place EXCEPT ![j] = "dropped"], listener)
  /\ UNCHANGED <<vars, supervisorVars, via, active>>

\* The service that owns the receiver takes a connection.
ClaimConnection(c) ==
  /\ place[c] = "handoff" /\ place' = [place EXCEPT ![c] = "claimed"]
  /\ UNCHANGED <<vars, supervisorVars, listener, via, active>>

\* The operation's task is a task of the worker; the producers and the owner of
\* the Operation are other threads.
OperationTask ==
  /\ worker # "jobs" /\ (TaskCancelled \/ TaskFinish)
  /\ UNCHANGED <<supervisorVars, taskVars>>

OperationStep ==
  /\ application.operation
  /\ \/ \E p \in Producers : Produce(p) \/ ReleaseClone(p)
     \/ DropClose \/ DropWake \/ FailSwap \/ FailPush \/ FailWake
     \/ Poll \/ CancelSend \/ CancelClose \/ CancelDrain
  /\ UNCHANGED <<supervisorVars, taskVars>>

-----------------------------------------------------------------------------
(* Shutdown: Owner::drop, and the end of the worker. A task may hold the   *)
(* last SessionRuntime: its drop does not join its own thread.             *)

DropOwner ==
  /\ owner = "held" /\ closed' = TRUE
  /\ \/ owner' = "joining"
     \/ owner' = "gone" /\ \E p \in Protocols : Running(p) # {}
  /\ UNCHANGED <<vars, application, commands, worker, taskVars>>

Joined ==
  /\ owner = "joining" /\ worker = "gone" /\ owner' = "gone"
  /\ UNCHANGED <<vars, application, commands, closed, worker, taskVars>>

\* Mutant: the loop goes on as long as tasks run.
LoopEndsIdle ==
  /\ worker = "loop" /\ commands = <<>> /\ closed /\ worker' = "listeners"
  /\ \A p \in Protocols : Running(p) = {}
  /\ UNCHANGED <<vars, application, commands, closed, owner, taskVars>>

\* recv fails on a closed channel once it is empty.
LoopEnds ==
  /\ worker = "loop" /\ commands = <<>> /\ closed /\ worker' = "listeners"
  /\ UNCHANGED <<vars, application, commands, closed, owner, taskVars>>

\* listeners.shutdown
AbortListener(l) ==
  /\ worker = "listeners" /\ listener[l] \in {"accepting", "sending"}
  /\ Become([j \in Jobs |-> IF j \in Connections /\ via[j] = l /\ place[j] = "carried"
                              THEN "dropped" ELSE place[j]],
            [listener EXCEPT ![l] = "ended"])
  /\ UNCHANGED <<vars, supervisorVars, via, active>>

ListenersEnded ==
  /\ worker = "listeners" /\ \A l \in Listeners : listener[l] \in {"idle", "ended"}
  /\ worker' = "jobs"
  /\ UNCHANGED <<vars, application, commands, closed, owner, taskVars>>

\* jobs.shutdown
AbortJob(j) ==
  /\ worker = "jobs" /\ place[j] = "running"
  /\ Become([place EXCEPT ![j] = "dropped"], listener)
  /\ UNCHANGED <<vars, supervisorVars, via, active>>

AbortOperation ==
  /\ worker = "jobs" /\ TaskAborted
  /\ UNCHANGED <<supervisorVars, taskVars>>

WorkerEnds ==
  /\ worker = "jobs" /\ \A p \in Protocols : Running(p) = {}
  /\ worker' = "gone" /\ commands' = <<>>
  /\ UNCHANGED <<vars, application, closed, owner, taskVars>>

-----------------------------------------------------------------------------
Receive ==
  \/ \E l \in Listeners : ReceiveListener(l)
  \/ \E j \in Jobs : ReceiveJob(j)
  \/ ReceiveOperation

Shutdown ==
  \/ LoopEnds \/ ListenersEnded \/ AbortOperation \/ WorkerEnds \/ Joined
  \/ \E l \in Listeners : AbortListener(l)
  \/ \E j \in Jobs : AbortJob(j)

\* The runtime is over for good.
RuntimeOver == worker = "gone" /\ owner = "gone" /\ UNCHANGED runtimeVars

RuntimeNext ==
  \/ \E l \in Listeners : Listen(l) \/ AcceptEnds(l) \/ \E c \in Connections : Accept(l, c) \/ Send(l, c)
  \/ \E j \in Spawned : Spawn(j)
  \/ \E c \in Connections : HandOff(c) \/ ClaimConnection(c)
  \/ \E j \in Jobs : JobEnds(j)
  \/ Receive \/ OperationTask \/ OperationStep \/ DropOwner \/ Shutdown \/ RuntimeOver

\* The worker thread goes on and polls what can proceed; the rest is that of
\* SessionOperation. Nothing makes a job end, or the application let go.
RuntimeFairness ==
  /\ \A p \in Producers : /\ WF_runtimeVars(SendSwap(p) /\ OperationStep)
                          /\ WF_runtimeVars(SendPush(p) /\ OperationStep)
                          /\ WF_runtimeVars(SendWake(p) /\ OperationStep)
                          /\ WF_runtimeVars(task = "ended" /\ ReleaseClone(p) /\ OperationStep)
  /\ WF_runtimeVars((DropClose \/ DropWake) /\ OperationStep)
  /\ WF_runtimeVars((FailSwap \/ FailPush \/ FailWake) /\ OperationStep)
  /\ WF_runtimeVars(woken /\ Poll /\ OperationStep)
  /\ WF_runtimeVars((CancelClose \/ CancelDrain) /\ OperationStep)
  /\ WF_runtimeVars(TaskCancelled /\ OperationTask)
  /\ WF_runtimeVars(Receive) /\ WF_runtimeVars(Shutdown)
  /\ \A c \in Connections : WF_runtimeVars(HandOff(c))
  /\ \A l \in Listeners : \A c \in Connections : WF_runtimeVars(Send(l, c))

RuntimeSpec == RuntimeInit /\ [][RuntimeNext]_runtimeVars /\ RuntimeFairness

-----------------------------------------------------------------------------
\* However many listeners and services bind a protocol, no more of its tasks run
\* than the budget it was first used with, and a binding with another idea of
\* that budget runs none (the comment at lib.rs:202).
BudgetIsShared ==
  \A p \in Protocols :
    /\ Cardinality(Running(p)) <= active[p]
    /\ \A j \in Running(p) : Limit[j] = active[p]

\* A worker that has ended leaves no listener, task or accepted connection behind,
\* "even when a caller retains a receiver" (lib.rs:99): what was not claimed is
\* dropped, which retires its transport.
NothingOutlivesTheWorker ==
  worker = "gone" =>
    /\ \A l \in Listeners : listener[l] \in {"idle", "ended"}
    /\ \A j \in Jobs : place[j] \in {"outside", "claimed", "dropped"}
    /\ application.operation => task = "ended"

\* Dropping the runtime ends: the worker stops whatever is queued, accepted,
\* handed over or running, the drop returns, and the owner of an operation learns
\* that it is over.
ShutdownCompletes ==
  closed ~> (worker = "gone" /\ owner = "gone" /\ (application.operation => outcome # "pending"))
=============================================================================
