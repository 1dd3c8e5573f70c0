----------------------------- MODULE DecodePool -----------------------------
(***************************************************************************)
(* weld-media decode.rs: DecodePool, its worker threads and what they      *)
(* share: a bounded command channel and a retirement mailbox per worker,   *)
(* and one event channel back to the owner.                                *)
(*                                                                         *)
(* A step makes at most one access to what is shared. An event is sent and *)
(* notify called in one step: a drain between the two would only make the  *)
(* call of notify redundant. `contexts' are the native decoders that the   *)
(* backend keeps, created by submit and released by retire. A native call  *)
(* may fail its worker (the factory's error, or a panic).                  *)
(***************************************************************************)
EXTENDS Integers, SequencesExt

CONSTANTS
  Streams,
  Limits,           \* DecodePoolLimits: workers, jobs, generations, depth; with two
                    \* bounds, the keys its jobs have and the tokens they get
  MaxFailures       \* bound: workers that fail

\* DecodePoolLimits::try_new
ASSUME PoolAssumption ==
  /\ \A l \in Limits :
       /\ {l.workers, l.jobs, l.generations} \subseteq Nat \ {0} /\ l.depth \in 1 .. 2
       /\ l.jobs <= l.workers * l.depth /\ l.workers <= l.generations
       /\ l.keys \subseteq Streams \X Nat /\ l.tokens \in Nat
  /\ \E l \in Limits : \A m \in Limits : m.workers <= l.workers
  /\ MaxFailures \in Nat

VARIABLES
  owner,      \* the pool's owner: where its call is, and the keys it has to publish
  pool,       \* its limits, workers spawned, their jobs, generations, failure
  channel,    \* per worker: commands, whether its ends live, mailbox keys and flag
  worker,     \* per worker: its thread
  events,     \* the event channel
  notified,   \* notify was called since the owner last drained
  history     \* not in the code: tokens used, failures, last token answered per stream

vars == <<owner, pool, channel, worker, events, notified, history>>

Keys == UNION {l.keys : l \in Limits}
Workers == 1 .. Max({l.workers : l \in Limits})
Wake == [kind |-> "wake"]
Decode(token, key) == [kind |-> "decode", token |-> token, key |-> key]
Empty == [x \in {} |-> x]

NoThread == [pc |-> "absent", then |-> "fill", pending |-> <<>>, command |-> Wake, received |-> <<>>,
             acks |-> {}, contexts |-> {}]

Init ==
  /\ owner = [pc |-> "idle", todo |-> {}, key |-> <<>>]
  /\ \E limits \in Limits :
       pool = [limits |-> limits, spawned |-> 0, jobs |-> [w \in Workers |-> <<>>],
               generations |-> Empty, failure |-> "none"]
  /\ channel = [w \in Workers |-> [commands |-> <<>>, sender |-> TRUE, receiver |-> TRUE,
                                   keys |-> {}, wake |-> FALSE]]
  /\ worker = [w \in Workers |-> NoThread]
  /\ events = <<>> /\ notified = FALSE
  /\ history = [tokens |-> 0, failures |-> 0, last |-> [s \in Streams |-> 0]]

-----------------------------------------------------------------------------
(* The owner: try_decode.                                                  *)

JobPlaces(jobs) == UNION {{w} \X DOMAIN jobs[w] : w \in Workers}
JobCount == Cardinality(JobPlaces(pool.jobs))
Owned(w) == {k \in DOMAIN pool.generations : pool.generations[k].worker = w}

Reserves(key) ==
  \/ key \in DOMAIN pool.generations
  \/ Cardinality(DOMAIN pool.generations) < pool.limits.generations
Admits(key) ==
  /\ key \in DOMAIN pool.generations => ~pool.generations[key].retiring
  /\ JobCount < pool.limits.jobs /\ Reserves(key)
HasSlot(w) == Len(pool.jobs[w]) < pool.limits.depth

\* assign_worker: an idle worker, a new one, or the least loaded with room.
Assignable ==
  LET spare == {w \in 1 .. pool.spawned : Owned(w) = {}}
      open == {w \in 1 .. pool.spawned : HasSlot(w)}
      load(w) == Cardinality(Owned(w))
  IN CASE spare # {} -> {w \in spare : \A v \in spare : w <= v}
       [] spare = {} /\ pool.spawned < pool.limits.workers -> {pool.spawned + 1}
       [] OTHER -> {w \in open : \A v \in open : load(w) < load(v) \/ (load(w) = load(v) /\ w <= v)}

\* A stream stays with its worker while any of its generations is reserved.
HomeOfGeneration(key) ==
  {pool.generations[k].worker : k \in {x \in DOMAIN pool.generations : x = key}}
Home(key) ==
  {pool.generations[k].worker : k \in {x \in DOMAIN pool.generations : x[1] = key[1]}}

\* The generation of a job, which is new or has its reservation already.
Charged(g, key, w) ==
  [k \in DOMAIN g \union {key} |->
     IF k = key THEN [worker |-> w, retiring |-> FALSE, sent |-> FALSE] ELSE g[k]]

\* A request that is not admitted comes back as Busy and changes nothing. The
\* owner assigns the tokens in order.
TryDecode(key) ==
  LET token == history.tokens + 1
      homes == Home(key)
  IN /\ owner.pc = "idle" /\ pool.failure = "none" /\ Admits(key) /\ token <= pool.limits.tokens
     /\ \E w \in IF homes = {} THEN Assignable ELSE homes :
          /\ HasSlot(w) /\ channel[w].receiver /\ Len(channel[w].commands) <= pool.limits.depth
          /\ channel' = [channel EXCEPT ![w].commands = Append(@, Decode(token, key))]
          /\ pool' = [pool EXCEPT
               !.spawned = IF w > @ THEN w ELSE @,
               !.jobs[w] = Append(@, [token |-> token, key |-> key]),
               !.generations = Charged(@, key, w)]
          /\ worker' = IF w > pool.spawned THEN [worker EXCEPT ![w].pc = "init"] ELSE worker
     /\ history' = [history EXCEPT !.tokens = token]
     /\ UNCHANGED <<owner, events, notified>>

-----------------------------------------------------------------------------
(* The owner: retire and send_retirements.                                 *)

\* What send_retirements has to publish: it reads the owner's state alone.
PublishableAtOnce(g, jobs) ==
  {k \in DOMAIN g : g[k].retiring /\ ~g[k].sent}
PublishableAgain(g, jobs) ==
  {k \in DOMAIN g : /\ g[k].retiring
                    /\ \A i \in DOMAIN jobs[g[k].worker] : jobs[g[k].worker][i].key # k}
Publishable(g, jobs) ==
  {k \in DOMAIN g : /\ g[k].retiring /\ ~g[k].sent
                    /\ \A i \in DOMAIN jobs[g[k].worker] : jobs[g[k].worker][i].key # k}

Retire(key) ==
  LET g == [pool.generations EXCEPT ![key].retiring = TRUE]
  IN /\ owner.pc = "idle" /\ pool.failure = "none" /\ key \in DOMAIN pool.generations
     /\ pool' = [pool EXCEPT !.generations = g]
     /\ owner' = [owner EXCEPT !.pc = "send", !.todo = Publishable(g, pool.jobs)]
     /\ UNCHANGED <<channel, worker, events, notified, history>>

\* The key enters the mailbox under its lock,
PublishKey ==
  /\ owner.pc = "send"
  /\ \E k \in owner.todo :
       /\ owner' = [pc |-> "swap", todo |-> owner.todo \ {k}, key |-> k]
       /\ pool' = [pool EXCEPT !.generations[k].sent = TRUE]
       /\ channel' = [channel EXCEPT ![pool.generations[k].worker].keys = @ \union {k}]
  /\ UNCHANGED <<worker, events, notified, history>>

\* then the flag is swapped,
MustSignalAlways(w) == TRUE
MustSignal(w) == ~channel[w].wake
SwapWake ==
  LET w == pool.generations[owner.key].worker
  IN /\ owner.pc = "swap"
     /\ channel' = [channel EXCEPT ![w].wake = TRUE]
     /\ owner' = [owner EXCEPT !.pc = IF MustSignal(w) THEN "signal" ELSE "send"]
     /\ UNCHANGED <<pool, worker, events, notified, history>>

\* and a Wake sent; a full channel resets the flag, a closed one reports later.
Full(w) == channel[w].receiver /\ Len(channel[w].commands) > pool.limits.depth
SignalWake ==
  LET w == pool.generations[owner.key].worker
  IN /\ owner.pc = "signal"
     /\ owner' = [owner EXCEPT !.pc = "send"]
     /\ channel' = [channel EXCEPT
          ![w].wake = IF Full(w) THEN FALSE ELSE @,
          ![w].commands = IF channel[w].receiver /\ ~Full(w) THEN Append(@, Wake) ELSE @]
     /\ UNCHANGED <<pool, worker, events, notified, history>>

AllPublished ==
  /\ owner.pc = "send" /\ owner.todo = {}
  /\ owner' = [owner EXCEPT !.pc = "idle", !.key = <<>>]
  /\ UNCHANGED <<pool, channel, worker, events, notified, history>>

-----------------------------------------------------------------------------
(* The owner: drain, and drop.                                             *)

Drain ==
  /\ owner.pc = "idle"
  /\ owner' = [owner EXCEPT !.pc = "drain"]
  /\ notified' = FALSE
  /\ UNCHANGED <<pool, channel, worker, events, history>>

Failed(p, why) == [p EXCEPT !.failure = IF @ = "none" THEN why ELSE @]

\* Event::Failed answers every job of its worker.
JobsKept(jobs) == jobs
JobsAfterFailure(jobs) == <<>>

Answer(jobs) ==
  [s \in Streams |-> LET own == {i \in DOMAIN jobs : jobs[i].key[1] = s}
                     IN IF own = {} THEN history.last[s] ELSE jobs[Max(own)].token]

DrainEvent ==
  LET e == Head(events) w == e.worker jobs == pool.jobs[w]
  IN /\ owner.pc = "drain" /\ events # <<>>
     /\ events' = Tail(events)
     /\ CASE e.kind = "decoded" ->
               IF jobs # <<>> /\ Head(jobs).token = e.token
                 THEN /\ pool' = [pool EXCEPT !.jobs[w] = Tail(@)]
                      /\ history' = [history EXCEPT !.last = Answer(<<Head(jobs)>>)]
                 ELSE pool' = Failed(pool, "token") /\ UNCHANGED history
          [] e.kind = "retired" ->
               /\ pool' = IF /\ e.key \in DOMAIN pool.generations /\ pool.generations[e.key].worker = w
                             /\ pool.generations[e.key].retiring /\ pool.generations[e.key].sent
                            THEN [pool EXCEPT !.generations =
                                    [k \in DOMAIN @ \ {e.key} |-> @[k]]]
                            ELSE Failed(pool, "acknowledgement")
               /\ UNCHANGED history
          [] e.kind = "failed" ->
               /\ pool' = [Failed(pool, "worker") EXCEPT !.jobs[w] = JobsAfterFailure(@)]
               /\ history' = [history EXCEPT !.last = Answer(jobs)]
     /\ UNCHANGED <<owner, channel, worker, notified>>

DrainEnds ==
  /\ owner.pc = "drain" /\ events = <<>>
  /\ owner' = IF pool.failure = "none"
                THEN [owner EXCEPT !.pc = "send", !.todo = Publishable(pool.generations, pool.jobs)]
                ELSE [owner EXCEPT !.pc = "idle"]
  /\ UNCHANGED <<pool, channel, worker, events, notified, history>>

\* Drop closes every command channel and then joins every thread.
DropClosesIdle(w) == pool.jobs[w] = <<>>
DropCloses(w) == w <= pool.spawned
DropPool ==
  /\ owner.pc = "idle"
  /\ owner' = [owner EXCEPT !.pc = "join"]
  /\ channel' = [w \in Workers |-> [channel[w] EXCEPT !.sender = ~DropCloses(w)]]
  /\ UNCHANGED <<pool, worker, events, notified, history>>

Joined ==
  /\ owner.pc = "join" /\ \A w \in 1 .. pool.spawned : worker[w].pc = "exited"
  /\ owner' = [owner EXCEPT !.pc = "gone"]
  /\ UNCHANGED <<pool, channel, worker, events, notified, history>>

-----------------------------------------------------------------------------
(* worker_loop.                                                            *)

\* Sending an event, with its notification.
Emit(e) == events' = Append(events, e) /\ notified' = TRUE

Quiet == UNCHANGED <<owner, pool, history>>
Exit(w) ==
  /\ worker' = [worker EXCEPT ![w] = [NoThread EXCEPT !.pc = "exited"]]
  /\ channel' = [channel EXCEPT ![w].receiver = FALSE, ![w].commands = <<>>]

\* The factory and every processor call may end the worker.
WorkerFails(w) ==
  /\ \/ worker[w].pc \in {"init", "poll"}
     \/ worker[w].pc = "ack" /\ worker[w].acks # {}
     \/ worker[w].pc = "handle" /\ worker[w].command # Wake
  /\ history.failures < MaxFailures
  /\ Exit(w) /\ Emit([kind |-> "failed", worker |-> w])
  /\ history' = [history EXCEPT !.failures = @ + 1]
  /\ UNCHANGED <<owner, pool>>

\* A worker spawned by try_decode may fail before the command is sent to it: the
\* request comes back as Busy, and the worker stays without a generation.
SpawnFails(key) ==
  /\ owner.pc = "idle" /\ pool.failure = "none" /\ Admits(key) /\ Home(key) = {}
  /\ history.failures < MaxFailures
  /\ \E w \in Assignable :
       /\ w > pool.spawned /\ pool' = [pool EXCEPT !.spawned = w]
       /\ Exit(w) /\ Emit([kind |-> "failed", worker |-> w])
  /\ history' = [history EXCEPT !.failures = @ + 1]
  /\ UNCHANGED owner

Starts(w) ==
  /\ worker[w].pc = "init"
  /\ worker' = [worker EXCEPT ![w].pc = "apply"]
  /\ UNCHANGED <<owner, pool, channel, events, notified, history>>

\* apply_retirements takes the keys under the lock, then retires each.
ApplyTakes(w) ==
  /\ worker[w].pc = "apply"
  /\ worker' = [worker EXCEPT ![w].pc = "ack", ![w].acks = channel[w].keys]
  /\ channel' = [channel EXCEPT ![w].keys = {}]
  /\ UNCHANGED <<owner, pool, events, notified, history>>

ApplyRetires(w) ==
  /\ worker[w].pc = "ack"
  /\ \E k \in worker[w].acks :
       /\ worker' = [worker EXCEPT ![w].acks = @ \ {k}, ![w].contexts = @ \ {k}]
       /\ Emit([kind |-> "retired", worker |-> w, key |-> k])
  /\ Quiet /\ UNCHANGED channel

Applied(w) ==
  /\ worker[w].pc = "ack" /\ worker[w].acks = {}
  /\ worker' = [worker EXCEPT ![w].pc = worker[w].then]
  /\ Quiet /\ UNCHANGED <<channel, events, notified>>

\* The worker has taken a command, which returns to `then' when it is a Wake.
TakenUncleared(w, command, then) ==
  worker' = [worker EXCEPT ![w].pc = "apply", ![w].command = command, ![w].then = then]
Taken(w, command, then) ==
  worker' = [worker EXCEPT ![w].pc = IF command = Wake THEN "clear" ELSE "apply",
                           ![w].command = command, ![w].then = then]

\* Filling the pipeline: a command set aside, one from the channel, or none.
TakeReceived(w) ==
  /\ worker[w].pc = "fill" /\ Len(worker[w].pending) < pool.limits.depth /\ worker[w].received # <<>>
  /\ worker' = [worker EXCEPT ![w].pc = "apply", ![w].then = "handle",
                              ![w].command = Head(worker[w].received), ![w].received = <<>>]
  /\ Quiet /\ UNCHANGED <<channel, events, notified>>

Recv(w) ==
  /\ worker[w].pc = "fill" /\ Len(worker[w].pending) < pool.limits.depth /\ worker[w].received = <<>>
  /\ channel[w].commands # <<>>
  /\ Taken(w, Head(channel[w].commands), "handle")
  /\ channel' = [channel EXCEPT ![w].commands = Tail(@)]
  /\ Quiet /\ UNCHANGED <<events, notified>>

Closed(w) ==
  /\ worker[w].pc = "fill" /\ Len(worker[w].pending) < pool.limits.depth /\ worker[w].received = <<>>
  /\ channel[w].commands = <<>> /\ ~channel[w].sender
  /\ Exit(w) /\ Quiet /\ UNCHANGED <<events, notified>>

Filled(w) ==
  /\ worker[w].pc = "fill"
  /\ \/ Len(worker[w].pending) = pool.limits.depth
     \/ worker[w].pending # <<>> /\ worker[w].received = <<>> /\ channel[w].commands = <<>> /\ channel[w].sender
  /\ worker' = [worker EXCEPT ![w].pc = "poll"]
  /\ Quiet /\ UNCHANGED <<channel, events, notified>>

\* The flag is cleared before the mailbox is read.
ClearWake(w) ==
  /\ worker[w].pc = "clear"
  /\ worker' = [worker EXCEPT ![w].pc = "apply"]
  /\ channel' = [channel EXCEPT ![w].wake = FALSE]
  /\ Quiet /\ UNCHANGED <<events, notified>>

Handle(w) ==
  LET c == worker[w].command
  IN /\ worker[w].pc = "handle"
     /\ IF c = Wake THEN worker' = [worker EXCEPT ![w].pc = "fill"] /\ notified' = TRUE
        ELSE /\ worker' = [worker EXCEPT ![w].pc = "fill", ![w].pending = Append(@, c.token),
                                         ![w].contexts = @ \union {c.key}]
             /\ UNCHANGED notified
     /\ Quiet /\ UNCHANGED <<channel, events>>

\* poll is Ready (or an error): the front slot is answered.
PollReady(w) ==
  /\ worker[w].pc = "poll"
  /\ Emit([kind |-> "decoded", worker |-> w, token |-> Head(worker[w].pending)])
  /\ worker' = [worker EXCEPT ![w].pc = "apply", ![w].then = "fill", ![w].pending = Tail(@)]
  /\ Quiet /\ UNCHANGED channel

\* poll is Pending: recv_timeout takes a Wake, sets a Decode aside, runs out, or
\* finds the channel closed.
PollPending(w) ==
  LET commands == channel[w].commands
  IN /\ worker[w].pc = "poll"
     /\ \/ /\ commands # <<>> /\ Head(commands) = Wake
           /\ Taken(w, Wake, "renotify")
           /\ channel' = [channel EXCEPT ![w].commands = Tail(@)]
           /\ UNCHANGED <<events, notified>>
        \/ /\ commands # <<>> /\ Head(commands) # Wake
           /\ IF Len(worker[w].pending) < pool.limits.depth
                THEN /\ worker' = [worker EXCEPT ![w].pc = "apply", ![w].then = "fill",
                                                 ![w].received = <<Head(commands)>>]
                     /\ channel' = [channel EXCEPT ![w].commands = Tail(@)]
                     /\ UNCHANGED <<events, notified>>
                ELSE Exit(w) /\ Emit([kind |-> "failed", worker |-> w])
        \/ /\ commands = <<>> /\ channel[w].sender
           /\ worker' = [worker EXCEPT ![w].pc = "apply", ![w].then = "fill"]
           /\ UNCHANGED <<channel, events, notified>>
        \/ /\ commands = <<>> /\ ~channel[w].sender
           /\ Exit(w) /\ UNCHANGED <<events, notified>>
     /\ Quiet

Renotify(w) ==
  /\ worker[w].pc = "renotify"
  /\ worker' = [worker EXCEPT ![w].pc = "apply", ![w].then = "fill"]
  /\ notified' = TRUE
  /\ Quiet /\ UNCHANGED <<channel, events>>

-----------------------------------------------------------------------------
WorkerStep(w) ==
  \/ Starts(w) \/ ApplyTakes(w) \/ ApplyRetires(w) \/ Applied(w) \/ TakeReceived(w) \/ Recv(w)
  \/ Closed(w) \/ Filled(w) \/ ClearWake(w) \/ Handle(w) \/ PollReady(w) \/ PollPending(w) \/ Renotify(w)

OwnerStep ==
  \/ PublishKey \/ SwapWake \/ SignalWake \/ AllPublished \/ DrainEvent \/ DrainEnds \/ Joined

Next ==
  \/ \E key \in pool.limits.keys : TryDecode(key) \/ SpawnFails(key) \/ Retire(key)
  \/ Drain \/ DropPool \/ OwnerStep
  \/ \E w \in Workers : WorkerStep(w) \/ WorkerFails(w)

\* A call of the owner runs to its end, and a notification makes it drain in the
\* end, whatever it calls before (EncodedDestinationPort::poll drains). A worker
\* that can run does, and a submitted slot is not Pending for ever
\* (DecodeProcessor::poll: no future input may be required to finish a job).
Fairness ==
  /\ WF_vars(OwnerStep) /\ SF_vars(notified /\ Drain)
  /\ \A w \in Workers : WF_vars(WorkerStep(w)) /\ SF_vars(PollReady(w))

Spec == Init /\ [][Next]_vars /\ Fairness

-----------------------------------------------------------------------------
Alive == pool.failure = "none" /\ owner.pc \notin {"join", "gone"}

\* The owner and its workers never disagree: no completion has another token
\* than the oldest job, no acknowledgement another generation than the one
\* retired, and no worker is given more than it takes. Only a worker fails.
OnlyWorkersFail == pool.failure # "none" => pool.failure = "worker" /\ history.failures > 0

\* A native decoder exists only where a reservation is charged for it: retiring
\* a generation never lets a job of it start, or still run, after its
\* acknowledgement.
ContextsReserved == Alive => \A w \in Workers : worker[w].contexts \subseteq Owned(w)

\* Every queue between the owner and its workers keeps the bound its comment
\* gives: the jobs stay within DecodePoolLimits, a Wake always finds room behind
\* the commands (`Defensive only' in send_retirements), and the event channel,
\* which has no limit of its own, holds no more than the jobs' results, the
\* generations' acknowledgements and one failure per worker.
ChannelsBounded ==
  LET count(kind) == Cardinality({i \in DOMAIN events : events[i].kind = kind})
  IN /\ JobCount <= pool.limits.jobs
     /\ \A w \in Workers : Len(pool.jobs[w]) <= pool.limits.depth /\ Len(worker[w].pending) <= pool.limits.depth
     /\ owner.pc = "signal" => ~Full(pool.generations[owner.key].worker)
     /\ count("decoded") <= pool.limits.jobs /\ count("retired") <= pool.limits.generations
     /\ count("failed") <= pool.limits.workers

\* The pool uses no more than it was given, in decoders and in queues.
PoolWithinLimits == ContextsReserved /\ ChannelsBounded

\* The jobs of a stream are answered in the order of their submission, across
\* its generations and whatever workers serve it.
StreamOrder == [][\A s \in Streams : history'.last[s] >= history.last[s]]_vars

\* Every admitted job is answered, by its result or by its worker's failure.
EveryJobAnswered ==
  \A t \in 1 .. Max({l.tokens : l \in Limits}) :
    LET outstanding == \E w \in Workers : \E i \in DOMAIN pool.jobs[w] : pool.jobs[w][i].token = t
    IN outstanding ~> (~outstanding \/ owner.pc = "gone")

\* A retired generation gives up its reservation: no wake of the worker is lost
\* between the mailbox, the flag and the full or closing channel.
RetirementCompletes ==
  \A k \in Keys :
    LET retiring == k \in DOMAIN pool.generations /\ pool.generations[k].retiring
    IN retiring ~> (~retiring \/ ~Alive)

\* Dropping the pool ends every thread, whatever it waits for.
DropCompletes == (owner.pc = "join") ~> (owner.pc = "gone")

\* What is given up ends: generations with their decoders, the pool with its
\* threads.
TeardownCompletes == RetirementCompletes /\ DropCompletes
=============================================================================
