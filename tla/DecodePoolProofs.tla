-------------------------- MODULE DecodePoolProofs --------------------------
(***************************************************************************)
(* Proofs about the decode pool, for any streams, any limits and any       *)
(* number of failures. The argument follows a job's token from the owner's *)
(* list through the command channel, the command a worker holds, its       *)
(* pipeline and the event channel back to the owner, and a generation's    *)
(* key from the owner through the mailbox to its acknowledgement. What     *)
(* these know of the queues bounds them, in the last part.                 *)
(***************************************************************************)
EXTENDS DecodePool, FiniteSetTheorems, TLAPS

Commands == [kind : {"decode"}, token : Nat, key : Keys] \union {Wake}
Reports ==
  [kind : {"decoded"}, worker : Workers, token : Nat]
    \union [kind : {"retired"}, worker : Workers, key : Keys]
    \union [kind : {"failed"}, worker : Workers]
Jobs == [token : Nat, key : Keys]
Reservation == [worker : Workers, retiring : BOOLEAN, sent : BOOLEAN]
Threads ==
  [pc : {"absent", "init", "clear", "apply", "ack", "fill", "handle", "poll", "renotify", "exited"},
   then : {"fill", "handle", "renotify"}, pending : Seq(Nat), command : Commands,
   received : Seq(Commands), acks : SUBSET Keys, contexts : SUBSET Keys]
Lanes ==
  [commands : Seq(Commands), sender : BOOLEAN, receiver : BOOLEAN, keys : SUBSET Keys, wake : BOOLEAN]

Types ==
  /\ owner \in [pc : {"idle", "send", "swap", "signal", "drain", "join", "gone"},
                todo : SUBSET Keys, key : Keys \union {<<>>}]
  /\ pool \in [limits : Limits, spawned : Nat, jobs : [Workers -> Seq(Jobs)],
               generations : UNION {[K -> Reservation] : K \in SUBSET Keys},
               failure : {"none", "token", "acknowledgement", "worker"}]
  /\ channel \in [Workers -> Lanes]
  /\ worker \in [Workers -> Threads]
  /\ events \in Seq(Reports)
  /\ history \in [tokens : Nat, failures : Nat, last : [Streams -> Nat]]
  /\ notified \in BOOLEAN

-----------------------------------------------------------------------------
(* The invariant, worker by worker. The threads:                           *)

\* Between taking a command and handling it.
Busy(w) == worker[w].then = "handle" /\ worker[w].pc \in {"clear", "apply", "ack", "handle"}

\* A thread that does not run has nothing, and neither has one not yet spawned.
RestingAt(w) ==
  /\ w > pool.spawned => /\ worker[w].pc = "absent" /\ channel[w].commands = <<>>
                         /\ pool.jobs[w] = <<>>
  /\ worker[w].pc \in {"absent", "init", "exited"} =>
       /\ worker[w].pending = <<>> /\ worker[w].received = <<>> /\ worker[w].then = "fill"
       /\ worker[w].acks = {} /\ worker[w].contexts = {}
  /\ worker[w].pc = "exited" => ~channel[w].receiver /\ channel[w].commands = <<>>

\* Where a thread has a free slot, a command set aside or a slot to poll.
StagesAt(w) ==
  /\ Len(worker[w].pending) <= pool.limits.depth
  /\ Len(pool.jobs[w]) <= pool.limits.depth
  /\ worker[w].pc = "poll" => worker[w].pending # <<>> /\ worker[w].received = <<>>
  /\ worker[w].received # <<>> =>
       /\ Len(worker[w].received) = 1 /\ worker[w].received[1] # Wake
       /\ Len(worker[w].pending) < pool.limits.depth
       /\ worker[w].pc \in {"apply", "ack", "fill"}
       /\ worker[w].pc # "fill" => worker[w].then = "fill"
  /\ Busy(w) => Len(worker[w].pending) < pool.limits.depth /\ worker[w].received = <<>>
  /\ worker[w].pc = "handle" => worker[w].then = "handle"
  /\ worker[w].pc = "clear" => worker[w].command = Wake /\ worker[w].received = <<>>

-----------------------------------------------------------------------------
(* The tokens of a worker, from the owner's list to the event channel.     *)

Outstanding(w) == {pool.jobs[w][i].token : i \in DOMAIN pool.jobs[w]}
Sent(w) ==
  {channel[w].commands[i].token : i \in {j \in DOMAIN channel[w].commands : channel[w].commands[j] # Wake}}
Holds(w) == Busy(w) /\ worker[w].command # Wake
Aside(w) ==
  {worker[w].received[i].token : i \in DOMAIN worker[w].received}
    \union (IF Holds(w) THEN {worker[w].command.token} ELSE {})
Pipeline(w) == {worker[w].pending[i] : i \in DOMAIN worker[w].pending}
From(e, w, kind) == e.kind = kind /\ e.worker = w
Decoded(w) == {events[i].token : i \in {j \in DOMAIN events : From(events[j], w, "decoded")}}

\* Each queue holds its tokens in the order of submission.
SortedAt(w) ==
  /\ \A i, j \in DOMAIN pool.jobs[w] : i < j => pool.jobs[w][i].token < pool.jobs[w][j].token
  /\ \A i, j \in DOMAIN channel[w].commands :
       i < j /\ channel[w].commands[i] # Wake /\ channel[w].commands[j] # Wake =>
         channel[w].commands[i].token < channel[w].commands[j].token
  /\ \A i, j \in DOMAIN worker[w].pending : i < j => worker[w].pending[i] < worker[w].pending[j]
ReportsSortedAt(w) ==
  \A i, j \in DOMAIN events :
    i < j /\ From(events[i], w, "decoded") /\ From(events[j], w, "decoded") =>
      events[i].token < events[j].token

\* What is further on its way was submitted earlier.
Before(A, B) == \A a \in A, b \in B : a < b
Staged(decoded, pipeline, aside, sent) ==
  /\ Before(decoded, pipeline \union aside \union sent)
  /\ Before(pipeline, aside \union sent)
  /\ Before(aside, sent)
StagedAt(w) == Staged(Decoded(w), Pipeline(w), Aside(w), Sent(w))

\* The owner's list has the tokens under way, and those of a thread that ended;
\* the results are the oldest of them.
UnderWay(w) == Decoded(w) \union Pipeline(w) \union Aside(w) \union Sent(w)
ListedAt(w) ==
  /\ UnderWay(w) \subseteq Outstanding(w)
  /\ worker[w].pc # "exited" => Outstanding(w) \subseteq UnderWay(w)
  /\ Before(Decoded(w), Outstanding(w) \ Decoded(w))

\* A command has the key of its job.
Matches(c, jobs) == \A i \in DOMAIN jobs : jobs[i].token = c.token => jobs[i].key = c.key
KeyedAt(w) ==
  /\ \A i \in DOMAIN channel[w].commands :
       channel[w].commands[i] # Wake => Matches(channel[w].commands[i], pool.jobs[w])
  /\ \A i \in DOMAIN worker[w].received : Matches(worker[w].received[i], pool.jobs[w])
  /\ Holds(w) => Matches(worker[w].command, pool.jobs[w])

TokensAt(w) == StagesAt(w) /\ SortedAt(w) /\ ReportsSortedAt(w) /\ StagedAt(w) /\ ListedAt(w) /\ KeyedAt(w)

-----------------------------------------------------------------------------
(* The keys of a worker, from the reservation to the acknowledgement.      *)

\* A retirement that may be published: none of its jobs is left.
Retiring(k) ==
  /\ k \in DOMAIN pool.generations /\ pool.generations[k].retiring
  /\ \A i \in DOMAIN pool.jobs[pool.generations[k].worker] :
       pool.jobs[pool.generations[k].worker][i].key # k
Published(k) == Retiring(k) /\ pool.generations[k].sent

\* A published key is in one place: the mailbox, the worker's hands or an event.
Acknowledged(w) == {events[i].key : i \in {j \in DOMAIN events : From(events[j], w, "retired")}}
ReceiptsDistinct(w) ==
  \A i, j \in DOMAIN events :
    i # j /\ From(events[i], w, "retired") /\ From(events[j], w, "retired") => events[i].key # events[j].key
MailAt(w) ==
  /\ \A k \in channel[w].keys \union worker[w].acks \union Acknowledged(w) : k \in Owned(w) /\ Published(k)
  /\ \A k \in Acknowledged(w) : k \notin channel[w].keys \union worker[w].acks \union worker[w].contexts
  /\ channel[w].keys \intersect worker[w].acks = {}
  /\ worker[w].contexts \subseteq Owned(w)
  /\ ReceiptsDistinct(w)

\* A failure is the last report of its worker's jobs, and some call failed.
FailureAt(w) ==
  \A i \in DOMAIN events : From(events[i], w, "failed") =>
    /\ worker[w].pc = "exited" /\ history.failures > 0
    /\ \A j \in DOMAIN events : j > i => ~From(events[j], w, "decoded")

WorkerInv(w) == RestingAt(w) /\ TokensAt(w) /\ MailAt(w) /\ FailureAt(w)

-----------------------------------------------------------------------------
(* The owner.                                                              *)

\* A stream is at one worker, and each of its jobs is in a reserved generation.
Homes ==
  /\ \A k, m \in DOMAIN pool.generations :
       k[1] = m[1] => pool.generations[k].worker = pool.generations[m].worker
  /\ \A k \in DOMAIN pool.generations :
       /\ pool.generations[k].worker \in 1 .. pool.spawned
       /\ pool.generations[k].sent => Published(k)
  /\ \A w \in Workers : \A i \in DOMAIN pool.jobs[w] : pool.jobs[w][i].key \in Owned(w)

\* What the owner is about to publish.
Publishing ==
  /\ \A k \in owner.todo : Retiring(k) /\ ~pool.generations[k].sent
  /\ owner.pc \notin {"send", "swap", "signal"} => owner.todo = {}
  /\ owner.pc \in {"swap", "signal"} => owner.key \in DOMAIN pool.generations

\* A job is newer than every answer its stream has had.
Newer ==
  /\ \A s \in Streams : history.last[s] <= history.tokens
  /\ \A w \in Workers : \A i \in DOMAIN pool.jobs[w] :
       /\ history.last[pool.jobs[w][i].key[1]] < pool.jobs[w][i].token
       /\ pool.jobs[w][i].token <= history.tokens

OwnerInv == pool.spawned <= pool.limits.workers /\ Homes /\ Publishing /\ Newer /\ OnlyWorkersFail

\* The inductive invariant.
PoolInv == Types /\ OwnerInv /\ \A w \in Workers : WorkerInv(w)

-----------------------------------------------------------------------------
(* Facts about the limits, the event channel and the stages.               *)

LEMMA LimitFacts ==
  /\ Workers \subseteq Nat \ {0}
  /\ \A l \in Limits : /\ 1 .. l.workers \subseteq Workers /\ l.workers \in Nat /\ l.depth \in 1 .. 2
                       /\ l.keys \subseteq Keys
  /\ Keys \subseteq Streams \X Nat
<1>1. PICK l \in Limits : \A m \in Limits : m.workers <= l.workers
  BY PoolAssumption
<1>2. \A m \in Limits : m.workers \in Nat /\ m.depth \in 1 .. 2 /\ m.keys \subseteq Streams \X Nat
  BY PoolAssumption
<1>3. PICK n \in Nat : Workers = 1 .. n /\ \A m \in Limits : m.workers <= n
  <2> DEFINE S == {m.workers : m \in Limits}
  <2>1. l.workers \in S /\ \A y \in S : l.workers >= y
    BY <1>1, <1>2
  <2>2. Max(S) \in S /\ \A y \in S : Max(S) >= y
    BY <2>1 DEF Max
  <2> QED BY <1>2, <2>2 DEF Workers
<1>4. \A m \in Limits : 1 .. m.workers \subseteq Workers
  BY <1>2, <1>3
<1> QED BY <1>2, <1>3, <1>4 DEF Keys

LEMMA AppendFacts ==
  ASSUME NEW S, NEW s \in Seq(S), NEW x \in S
  PROVE  /\ Append(s, x) \in Seq(S) /\ Len(Append(s, x)) = Len(s) + 1 /\ Len(s) \in Nat
         /\ DOMAIN Append(s, x) = DOMAIN s \union {Len(s) + 1} /\ Append(s, x)[Len(s) + 1] = x
         /\ \A i \in DOMAIN s : i \in Nat \ {0} /\ i < Len(s) + 1 /\ Append(s, x)[i] = s[i]
OBVIOUS

LEMMA TailFacts ==
  ASSUME NEW S, NEW s \in Seq(S), s # <<>>
  PROVE  /\ Tail(s) \in Seq(S) /\ Len(s) \in Nat \ {0} /\ Len(Tail(s)) = Len(s) - 1
         /\ Head(s) \in S /\ 1 \in DOMAIN s /\ s[1] = Head(s)
         /\ \A i \in DOMAIN Tail(s) : i \in Nat \ {0} /\ i + 1 \in DOMAIN s /\ Tail(s)[i] = s[i + 1]
         /\ \A i \in DOMAIN s : i \in Nat \ {0} /\ (i = 1 \/ (i - 1 \in DOMAIN Tail(s) /\ Tail(s)[i - 1] = s[i]))
OBVIOUS

\* A report is the last of its kind.
LEMMA DecodedGrows ==
  ASSUME events \in Seq(Reports), NEW e \in Reports, events' = Append(events, e), NEW w \in Workers
  PROVE  Decoded(w)' = Decoded(w) \union (IF From(e, w, "decoded") THEN {e.token} ELSE {})
<1>1. DOMAIN events' = DOMAIN events \union {Len(events) + 1} /\ Len(events) \in Nat
  OBVIOUS
<1>2. events'[Len(events) + 1] = e /\ \A i \in DOMAIN events : events'[i] = events[i]
  OBVIOUS
<1> QED BY <1>1, <1>2 DEF Decoded, From

LEMMA AcknowledgedGrows ==
  ASSUME events \in Seq(Reports), NEW e \in Reports, events' = Append(events, e), NEW w \in Workers
  PROVE  Acknowledged(w)' = Acknowledged(w) \union (IF From(e, w, "retired") THEN {e.key} ELSE {})
<1>1. DOMAIN events' = DOMAIN events \union {Len(events) + 1} /\ Len(events) \in Nat
  OBVIOUS
<1>2. events'[Len(events) + 1] = e /\ \A i \in DOMAIN events : events'[i] = events[i]
  OBVIOUS
<1> QED BY <1>1, <1>2 DEF Acknowledged, From

-----------------------------------------------------------------------------
(* A step of the worker w changes what is its own.                         *)

Local(w) ==
  /\ UNCHANGED <<owner, pool>> /\ notified' \in BOOLEAN
  /\ worker' \in [Workers -> Threads] /\ channel' \in [Workers -> Lanes]
  /\ \A v \in Workers \ {w} : worker'[v] = worker[v] /\ channel'[v] = channel[v]
  /\ history' = history \/ history' = [history EXCEPT !.failures = @ + 1]
  /\ events' = events \/ \E e \in Reports : e.worker = w /\ events' = Append(events, e)

\* The events a worker has sent are still there, in their order.
LEMMA ReportsKept ==
  ASSUME events \in Seq(Reports), NEW w \in Workers,
         events' = events \/ \E e \in Reports : e.worker = w /\ events' = Append(events, e)
  PROVE  /\ events' \in Seq(Reports)
         /\ DOMAIN events \subseteq DOMAIN events'
         /\ \A i \in DOMAIN events : events'[i] = events[i]
         /\ \A i \in DOMAIN events' : i \in DOMAIN events \/ (i = Len(events) + 1 /\ events'[i].worker = w)
         /\ \A i \in DOMAIN events : i < Len(events) + 1
<1>1. CASE events' = events BY <1>1
<1>2. CASE \E e \in Reports : e.worker = w /\ events' = Append(events, e) BY <1>2
<1> QED BY <1>1, <1>2

LEMMA TokensUntouched ==
  ASSUME PoolInv, NEW v \in Workers, worker'[v] = worker[v], channel'[v].commands = channel[v].commands,
         pool'.jobs[v] = pool.jobs[v], pool'.limits = pool.limits,
         \A i \in DOMAIN events : events'[i] = events[i],
         \A i \in DOMAIN events' : i \in DOMAIN events \/ events'[i].worker # v,
         DOMAIN events \subseteq DOMAIN events'
  PROVE  TokensAt(v)'
<1>1. StagesAt(v)' /\ SortedAt(v)' /\ KeyedAt(v)'
  BY DEF PoolInv, WorkerInv, TokensAt, StagesAt, SortedAt, KeyedAt, Holds, Busy
<1>2. ReportsSortedAt(v)'
  BY DEF PoolInv, WorkerInv, TokensAt, ReportsSortedAt, From
<1>3. /\ Outstanding(v)' = Outstanding(v) /\ Pipeline(v)' = Pipeline(v)
      /\ Aside(v)' = Aside(v) /\ Sent(v)' = Sent(v)
  BY DEF Outstanding, Pipeline, Aside, Sent, Holds, Busy
<1>4. Decoded(v)' = Decoded(v) BY DEF Decoded, From
<1>5. StagedAt(v)' /\ ListedAt(v)'
  BY <1>3, <1>4 DEF PoolInv, WorkerInv, TokensAt, StagedAt, ListedAt, UnderWay
<1> QED BY <1>1, <1>2, <1>5 DEF TokensAt

LEMMA WorkerUntouched ==
  ASSUME PoolInv, NEW v \in Workers, worker'[v] = worker[v], channel'[v].commands = channel[v].commands,
         channel'[v].keys = channel[v].keys, channel'[v].receiver = channel[v].receiver,
         pool'.jobs[v] = pool.jobs[v], pool'.limits = pool.limits,
         v > pool'.spawned => v > pool.spawned, history.failures > 0 => history'.failures > 0,
         Owned(v) \subseteq Owned(v)', \A k \in Owned(v) : Published(k) => Published(k)',
         \A i \in DOMAIN events : events'[i] = events[i],
         \A i \in DOMAIN events' : i \in DOMAIN events \/ events'[i].worker # v,
         DOMAIN events \subseteq DOMAIN events'
  PROVE  WorkerInv(v)'
<1>1. Acknowledged(v)' = Acknowledged(v)
  BY DEF Acknowledged, From
<1>2. RestingAt(v)' BY DEF PoolInv, WorkerInv, RestingAt
<1>3. TokensAt(v)' BY TokensUntouched
<1>4. MailAt(v)'
  <2>1. ReceiptsDistinct(v)'
    BY DEF PoolInv, WorkerInv, MailAt, ReceiptsDistinct, From
  <2> QED BY <1>1, <2>1 DEF PoolInv, WorkerInv, MailAt
<1>5. FailureAt(v)'
  BY DEF PoolInv, WorkerInv, FailureAt, From
<1> QED BY <1>2, <1>3, <1>4, <1>5 DEF WorkerInv

LEMMA OthersKept ==
  ASSUME PoolInv, NEW w \in Workers, Local(w), NEW v \in Workers \ {w}
  PROVE  WorkerInv(v)'
<1>1. /\ worker'[v] = worker[v] /\ channel'[v] = channel[v] /\ pool' = pool
      /\ history.failures > 0 => history'.failures > 0
  BY DEF Local, PoolInv, Types
<1>2. /\ \A i \in DOMAIN events : events'[i] = events[i]
      /\ \A i \in DOMAIN events' : i \in DOMAIN events \/ events'[i].worker = w
      /\ DOMAIN events \subseteq DOMAIN events'
  BY ReportsKept DEF Local, PoolInv, Types
<1>3. Owned(v)' = Owned(v) /\ \A k : Published(k)' <=> Published(k)
  BY <1>1 DEF Owned, Published, Retiring
<1> QED BY <1>1, <1>2, <1>3, WorkerUntouched

LEMMA LocalKeeps ==
  ASSUME PoolInv, NEW w \in Workers, Local(w), WorkerInv(w)'
  PROVE  PoolInv'
<1>1. Types'
  <2>1. events' \in Seq(Reports) BY ReportsKept DEF Local, PoolInv, Types
  <2>2. history' \in [tokens : Nat, failures : Nat, last : [Streams -> Nat]]
    <3>1. history \in [tokens : Nat, failures : Nat, last : [Streams -> Nat]] BY DEF PoolInv, Types
    <3>2. CASE history' = history BY <3>1, <3>2
    <3>3. CASE history' = [history EXCEPT !.failures = @ + 1] BY <3>1, <3>3
    <3> QED BY <3>2, <3>3 DEF Local
  <2> QED BY <2>1, <2>2 DEF Local, PoolInv, Types
<1>2. OwnerInv'
  <2>1. pool' = pool /\ owner' = owner /\ history'.last = history.last /\ history'.tokens = history.tokens
        /\ history'.failures >= history.failures
    BY DEF Local, PoolInv, Types
  <2>2. Homes' /\ Publishing'
    BY <2>1 DEF PoolInv, OwnerInv, Homes, Publishing, Retiring, Published, Owned
  <2>3. Newer' /\ OnlyWorkersFail'
    BY <2>1, <1>1 DEF PoolInv, OwnerInv, Newer, OnlyWorkersFail, Types
  <2> QED BY <2>1, <2>2, <2>3 DEF PoolInv, OwnerInv
<1>3. \A v \in Workers : WorkerInv(v)'
  BY OthersKept
<1> QED BY <1>1, <1>2, <1>3 DEF PoolInv

\* What the worker reports, at most one event that is none of these kinds.
Reporting(w, kinds) ==
  events' = events \/ \E e \in Reports : e.worker = w /\ e.kind \notin kinds /\ events' = Append(events, e)

LEMMA DecodedStays ==
  ASSUME PoolInv, NEW w \in Workers, Reporting(w, {"decoded"})
  PROVE  Decoded(w)' = Decoded(w) /\ ReportsSortedAt(w)'
<1>1. CASE events' = events
  BY <1>1 DEF PoolInv, WorkerInv, TokensAt, Decoded, ReportsSortedAt
<1>2. ASSUME NEW e \in Reports, e.kind # "decoded", events' = Append(events, e)
      PROVE  Decoded(w)' = Decoded(w) /\ ReportsSortedAt(w)'
  <2>1. events \in Seq(Reports) BY DEF PoolInv, Types
  <2>2. Decoded(w)' = Decoded(w) BY <1>2, <2>1, DecodedGrows DEF From
  <2>3. ReportsSortedAt(w)'
    BY <1>2, <2>1 DEF PoolInv, WorkerInv, TokensAt, ReportsSortedAt, From
  <2> QED BY <2>2, <2>3
<1> QED BY <1>1, <1>2 DEF Reporting

\* A step that moves no token.
LEMMA TokensStay ==
  ASSUME PoolInv, NEW w \in Workers, Reporting(w, {"decoded"}), pool' = pool, worker[w].pc # "exited",
         worker'[w].pending = worker[w].pending, channel'[w].commands = channel[w].commands,
         Aside(w)' = Aside(w), StagesAt(w)', KeyedAt(w)'
  PROVE  TokensAt(w)'
<1>1. Decoded(w)' = Decoded(w) /\ ReportsSortedAt(w)' BY DecodedStays
<1>2. SortedAt(w)' BY DEF PoolInv, WorkerInv, TokensAt, SortedAt
<1>3. Outstanding(w)' = Outstanding(w) /\ Pipeline(w)' = Pipeline(w) /\ Sent(w)' = Sent(w)
  BY DEF Outstanding, Pipeline, Sent
<1>4. StagedAt(w)' /\ ListedAt(w)'
  BY <1>1, <1>3 DEF PoolInv, WorkerInv, TokensAt, StagedAt, ListedAt, UnderWay
<1> QED BY <1>1, <1>2, <1>4 DEF TokensAt

\* A step that publishes, takes and acknowledges no key.
LEMMA MailStays ==
  ASSUME PoolInv, NEW w \in Workers, Reporting(w, {"retired"}),
         pool'.jobs = pool.jobs, pool'.generations = pool.generations,
         channel'[w].keys = channel[w].keys, worker'[w].acks \subseteq worker[w].acks,
         worker'[w].contexts \subseteq worker[w].contexts
  PROVE  MailAt(w)'
<1>1. Owned(w)' = Owned(w) /\ \A k : Published(k)' <=> Published(k)
  BY DEF Owned, Published, Retiring
<1>2. MailAt(w) /\ events \in Seq(Reports) BY DEF PoolInv, WorkerInv, Types
<1>3. Acknowledged(w)' = Acknowledged(w)
  BY <1>2, AcknowledgedGrows DEF Reporting, From, Acknowledged
<1>4. ReceiptsDistinct(w)'
  BY <1>2 DEF MailAt, ReceiptsDistinct, Reporting, From
<1> QED BY <1>1, <1>2, <1>3, <1>4 DEF MailAt

\* A thread that runs has not failed.
LEMMA NotFailed ==
  ASSUME PoolInv, NEW w \in Workers, Reporting(w, {"failed"}), worker[w].pc # "exited"
  PROVE  FailureAt(w)'
<1>1. FailureAt(w) /\ events \in Seq(Reports) BY DEF PoolInv, WorkerInv, Types
<1>2. \A i \in DOMAIN events' : ~From(events'[i], w, "failed")
  BY <1>1 DEF FailureAt, From, Reporting
<1> QED BY <1>2 DEF FailureAt

\* What a thread keeps in its slots, and of its retirements.
SlotsKept(w) ==
  /\ worker'[w].pending = worker[w].pending /\ worker'[w].received = worker[w].received
  /\ worker'[w].command = worker[w].command /\ channel'[w].commands = channel[w].commands
KeysKept(w) ==
  /\ channel'[w].keys = channel[w].keys /\ worker'[w].acks = worker[w].acks
  /\ worker'[w].contexts = worker[w].contexts

LEMMA SlotsStay ==
  ASSUME PoolInv, NEW w \in Workers, Reporting(w, {"decoded"}), pool' = pool, worker[w].pc # "exited",
         SlotsKept(w), Holds(w)' <=> Holds(w), StagesAt(w)', KeyedAt(w)'
  PROVE  TokensAt(w)'
<1>1. Aside(w)' = Aside(w) BY DEF Aside, SlotsKept
<1> QED BY <1>1, TokensStay DEF SlotsKept

-----------------------------------------------------------------------------
(* The steps of a worker that move no token.                               *)

LEMMA StartsKeeps ==
  ASSUME PoolInv, NEW w \in Workers, Starts(w)
  PROVE  PoolInv'
<1>1. /\ worker[w] \in Threads /\ worker'[w] = [worker[w] EXCEPT !.pc = "apply"]
      /\ channel' = channel
  BY DEF PoolInv, Types, Starts, Quiet
<1>2. Local(w) BY <1>1 DEF Local, PoolInv, Types, Threads, Starts, Quiet
<1>3. /\ worker'[w].pc = "apply" /\ worker'[w].then = worker[w].then /\ SlotsKept(w) /\ KeysKept(w)
      /\ channel'[w].receiver = channel[w].receiver /\ worker[w].then \in {"fill", "handle", "renotify"}
  BY <1>1 DEF SlotsKept, KeysKept, Threads
<1>4. RestingAt(w)' /\ (Holds(w)' <=> Holds(w))
  BY <1>3 DEF PoolInv, WorkerInv, TokensAt, RestingAt, StagesAt, Holds, Busy, SlotsKept, KeysKept,
     Starts, Quiet
<1>5. StagesAt(w)' /\ KeyedAt(w)'
  BY <1>3, <1>4 DEF PoolInv, WorkerInv, TokensAt, RestingAt, StagesAt, KeyedAt, Busy, SlotsKept,
     Starts, Quiet
<1>6. TokensAt(w)' BY <1>3, <1>4, <1>5, SlotsStay DEF Reporting, Starts, Quiet
<1>7. MailAt(w)' /\ FailureAt(w)' BY <1>3, MailStays, NotFailed DEF Reporting, KeysKept, Starts, Quiet
<1> QED BY <1>2, <1>4, <1>6, <1>7, LocalKeeps DEF WorkerInv

LEMMA AppliedKeeps ==
  ASSUME PoolInv, NEW w \in Workers, Applied(w)
  PROVE  PoolInv'
<1>1. /\ worker[w] \in Threads /\ worker'[w] = [worker[w] EXCEPT !.pc = worker[w].then]
      /\ channel' = channel
  BY DEF PoolInv, Types, Applied, Quiet
<1>2. Local(w)
  <2>1. worker'[w] \in Threads BY <1>1 DEF Threads
  <2> QED BY <1>1, <2>1 DEF Local, PoolInv, Types, Applied, Quiet
<1>3. /\ worker'[w].pc = worker[w].then /\ worker'[w].then = worker[w].then /\ SlotsKept(w) /\ KeysKept(w)
      /\ channel'[w].receiver = channel[w].receiver /\ worker[w].then \in {"fill", "handle", "renotify"}
  BY <1>1 DEF SlotsKept, KeysKept, Threads
<1>4. RestingAt(w)' /\ (Holds(w)' <=> Holds(w))
  BY <1>3 DEF PoolInv, WorkerInv, TokensAt, RestingAt, StagesAt, Holds, Busy, SlotsKept, KeysKept,
     Applied, Quiet
<1>5. StagesAt(w)' /\ KeyedAt(w)'
  BY <1>3, <1>4 DEF PoolInv, WorkerInv, TokensAt, RestingAt, StagesAt, KeyedAt, Busy, SlotsKept,
     Applied, Quiet
<1>6. TokensAt(w)' BY <1>3, <1>4, <1>5, SlotsStay DEF Reporting, Applied, Quiet
<1>7. MailAt(w)' /\ FailureAt(w)' BY <1>3, MailStays, NotFailed DEF Reporting, KeysKept, Applied, Quiet
<1> QED BY <1>2, <1>4, <1>6, <1>7, LocalKeeps DEF WorkerInv

LEMMA FilledKeeps ==
  ASSUME PoolInv, NEW w \in Workers, Filled(w)
  PROVE  PoolInv'
<1>1. /\ worker[w] \in Threads /\ worker'[w] = [worker[w] EXCEPT !.pc = "poll"]
      /\ channel' = channel
  BY DEF PoolInv, Types, Filled, Quiet
<1>2. Local(w)
  <2>1. worker'[w] \in Threads BY <1>1 DEF Threads
  <2> QED BY <1>1, <2>1 DEF Local, PoolInv, Types, Filled, Quiet
<1>3. /\ worker'[w].pc = "poll" /\ worker'[w].then = worker[w].then /\ SlotsKept(w) /\ KeysKept(w)
      /\ channel'[w].receiver = channel[w].receiver /\ worker[w].then \in {"fill", "handle", "renotify"}
  BY <1>1 DEF SlotsKept, KeysKept, Threads
<1>4. worker[w].pending # <<>> /\ worker[w].received = <<>>
  <2>1. pool.limits.depth \in 1 .. 2 BY LimitFacts DEF PoolInv, Types
  <2> QED BY <2>1 DEF PoolInv, WorkerInv, TokensAt, StagesAt, Filled
<1>5. RestingAt(w)' /\ (Holds(w)' <=> Holds(w))
  BY <1>3, <1>4 DEF PoolInv, WorkerInv, TokensAt, RestingAt, StagesAt, Holds, Busy, SlotsKept, KeysKept,
     Filled, Quiet
<1>6. StagesAt(w)' /\ KeyedAt(w)'
  BY <1>3, <1>4, <1>5 DEF PoolInv, WorkerInv, TokensAt, RestingAt, StagesAt, KeyedAt, Busy, SlotsKept,
     Filled, Quiet
<1>7. TokensAt(w)' BY <1>3, <1>5, <1>6, SlotsStay DEF Reporting, Filled, Quiet
<1>8. MailAt(w)' /\ FailureAt(w)' BY <1>3, MailStays, NotFailed DEF Reporting, KeysKept, Filled, Quiet
<1> QED BY <1>2, <1>5, <1>7, <1>8, LocalKeeps DEF WorkerInv

LEMMA ClearWakeKeeps ==
  ASSUME PoolInv, NEW w \in Workers, ClearWake(w)
  PROVE  PoolInv'
<1>1. /\ worker[w] \in Threads /\ worker'[w] = [worker[w] EXCEPT !.pc = "apply"]
      /\ channel[w] \in Lanes /\ channel'[w] = [channel[w] EXCEPT !.wake = FALSE]
  BY DEF PoolInv, Types, ClearWake, Quiet
<1>2. Local(w)
  <2>1. worker'[w] \in Threads BY <1>1 DEF Threads, Lanes
  <2>2. channel'[w] \in Lanes BY <1>1 DEF Lanes
  <2> QED BY <1>1, <2>1, <2>2 DEF Local, PoolInv, Types, ClearWake, Quiet
<1>3. /\ worker'[w].pc = "apply" /\ worker'[w].then = worker[w].then /\ SlotsKept(w) /\ KeysKept(w)
      /\ channel'[w].receiver = channel[w].receiver /\ worker[w].then \in {"fill", "handle", "renotify"}
  BY <1>1 DEF SlotsKept, KeysKept, Threads, Lanes
<1>4. RestingAt(w)' /\ (Holds(w)' <=> Holds(w))
  BY <1>3 DEF PoolInv, WorkerInv, TokensAt, RestingAt, StagesAt, Holds, Busy, SlotsKept, KeysKept,
     ClearWake, Quiet
<1>5. StagesAt(w)' /\ KeyedAt(w)'
  BY <1>3, <1>4 DEF PoolInv, WorkerInv, TokensAt, RestingAt, StagesAt, KeyedAt, Busy, SlotsKept,
     ClearWake, Quiet
<1>6. TokensAt(w)' BY <1>3, <1>4, <1>5, SlotsStay DEF Reporting, ClearWake, Quiet
<1>7. MailAt(w)' /\ FailureAt(w)' BY <1>3, MailStays, NotFailed DEF Reporting, KeysKept, ClearWake, Quiet
<1> QED BY <1>2, <1>4, <1>6, <1>7, LocalKeeps DEF WorkerInv

LEMMA RenotifyKeeps ==
  ASSUME PoolInv, NEW w \in Workers, Renotify(w)
  PROVE  PoolInv'
<1>1. /\ worker[w] \in Threads /\ worker'[w] = [worker[w] EXCEPT !.pc = "apply", !.then = "fill"]
      /\ channel' = channel
  BY DEF PoolInv, Types, Renotify, Quiet
<1>2. Local(w)
  <2>1. worker'[w] \in Threads BY <1>1 DEF Threads
  <2> QED BY <1>1, <2>1 DEF Local, PoolInv, Types, Renotify, Quiet
<1>3. /\ worker'[w].pc = "apply" /\ worker'[w].then = "fill" /\ SlotsKept(w) /\ KeysKept(w)
      /\ channel'[w].receiver = channel[w].receiver /\ worker[w].then \in {"fill", "handle", "renotify"}
  BY <1>1 DEF SlotsKept, KeysKept, Threads
<1>4. RestingAt(w)' /\ (Holds(w)' <=> Holds(w))
  BY <1>3 DEF PoolInv, WorkerInv, TokensAt, RestingAt, StagesAt, Holds, Busy, SlotsKept, KeysKept,
     Renotify, Quiet
<1>5. StagesAt(w)' /\ KeyedAt(w)'
  BY <1>3, <1>4 DEF PoolInv, WorkerInv, TokensAt, RestingAt, StagesAt, KeyedAt, Busy, SlotsKept,
     Renotify, Quiet
<1>6. TokensAt(w)' BY <1>3, <1>4, <1>5, SlotsStay DEF Reporting, Renotify, Quiet
<1>7. MailAt(w)' /\ FailureAt(w)' BY <1>3, MailStays, NotFailed DEF Reporting, KeysKept, Renotify, Quiet
<1> QED BY <1>2, <1>4, <1>6, <1>7, LocalKeeps DEF WorkerInv

\* The keys go from the mailbox to the worker's hands,
LEMMA ApplyTakesKeeps ==
  ASSUME PoolInv, NEW w \in Workers, ApplyTakes(w)
  PROVE  PoolInv'
<1>1. /\ worker[w] \in Threads /\ worker'[w] = [worker[w] EXCEPT !.pc = "ack", !.acks = channel[w].keys]
      /\ channel[w] \in Lanes /\ channel'[w] = [channel[w] EXCEPT !.keys = {}]
  BY DEF PoolInv, Types, ApplyTakes
<1>2. Local(w)
  <2>1. worker'[w] \in Threads BY <1>1 DEF Threads, Lanes
  <2>2. channel'[w] \in Lanes BY <1>1 DEF Lanes
  <2> QED BY <1>1, <2>1, <2>2 DEF Local, PoolInv, Types, ApplyTakes
<1>3. /\ worker'[w].pc = "ack" /\ worker'[w].then = worker[w].then /\ SlotsKept(w)
      /\ channel'[w].receiver = channel[w].receiver
      /\ channel'[w].keys = {} /\ worker'[w].acks = channel[w].keys
      /\ worker'[w].contexts = worker[w].contexts
  BY <1>1 DEF SlotsKept, Threads, Lanes
<1>4. worker[w].pc = "apply" /\ pool' = pool /\ events' = events BY DEF ApplyTakes
<1>5. RestingAt(w)' /\ (Holds(w)' <=> Holds(w))
  BY <1>3, <1>4 DEF PoolInv, WorkerInv, TokensAt, RestingAt, StagesAt, Holds, Busy, SlotsKept
<1>6. StagesAt(w)' /\ KeyedAt(w)'
  BY <1>3, <1>4, <1>5 DEF PoolInv, WorkerInv, TokensAt, RestingAt, StagesAt, KeyedAt, Busy, SlotsKept
<1>7. TokensAt(w)' BY <1>3, <1>4, <1>5, <1>6, SlotsStay DEF Reporting
<1>8. FailureAt(w)' BY <1>4, NotFailed DEF Reporting
<1>9. MailAt(w)'
  <2>1. Owned(w)' = Owned(w) /\ Acknowledged(w)' = Acknowledged(w) /\ \A k : Published(k)' <=> Published(k)
    BY <1>4 DEF Owned, Acknowledged, Published, Retiring
  <2>2. MailAt(w) BY DEF PoolInv, WorkerInv
  <2>3. ReceiptsDistinct(w)' BY <1>4, <2>2 DEF MailAt, ReceiptsDistinct
  <2> QED BY <1>3, <2>1, <2>2, <2>3 DEF MailAt
<1> QED BY <1>2, <1>5, <1>7, <1>8, <1>9, LocalKeeps DEF WorkerInv

\* and from there, with the context they name, to an acknowledgement.
LEMMA ApplyRetiresKeeps ==
  ASSUME PoolInv, NEW w \in Workers, ApplyRetires(w)
  PROVE  PoolInv'
<1>1. PICK k \in worker[w].acks :
        /\ worker' = [worker EXCEPT ![w].acks = @ \ {k}, ![w].contexts = @ \ {k}]
        /\ events' = Append(events, [kind |-> "retired", worker |-> w, key |-> k]) /\ notified' = TRUE
  BY DEF ApplyRetires, Emit
<1>2. /\ worker[w].pc = "ack" /\ pool' = pool /\ channel' = channel
      /\ owner' = owner /\ history' = history
  BY DEF ApplyRetires, Quiet
<1> DEFINE e == [kind |-> "retired", worker |-> w, key |-> k]
<1>3. worker[w] \in Threads /\ worker'[w] = [worker[w] EXCEPT !.acks = @ \ {k}, !.contexts = @ \ {k}]
  BY <1>1 DEF PoolInv, Types
<1>4. e \in Reports /\ e.kind = "retired" /\ e.worker = w /\ e.key = k
  BY <1>3 DEF Reports, Threads
<1> HIDE DEF e
<1>5. events \in Seq(Reports) /\ events' = Append(events, e) BY <1>1 DEF PoolInv, Types, e
<1>6. Local(w)
  <2>1. worker'[w] \in Threads BY <1>3 DEF Threads
  <2> QED BY <1>1, <1>2, <1>4, <1>5, <2>1 DEF Local, PoolInv, Types
<1>7. /\ worker'[w].pc = worker[w].pc /\ worker'[w].then = worker[w].then /\ SlotsKept(w)
      /\ worker'[w].acks = worker[w].acks \ {k} /\ worker'[w].contexts = worker[w].contexts \ {k}
  BY <1>2, <1>3 DEF SlotsKept, Threads
<1>8. RestingAt(w)' /\ (Holds(w)' <=> Holds(w))
  BY <1>2, <1>7 DEF PoolInv, WorkerInv, TokensAt, RestingAt, StagesAt, Holds, Busy, SlotsKept
<1>9. StagesAt(w)' /\ KeyedAt(w)'
  BY <1>2, <1>7, <1>8 DEF PoolInv, WorkerInv, TokensAt, RestingAt, StagesAt, KeyedAt, Busy, SlotsKept
<1>10. Reporting(w, {"decoded"}) /\ Reporting(w, {"failed"}) BY <1>4, <1>5 DEF Reporting
<1>11. TokensAt(w)' BY <1>2, <1>7, <1>8, <1>9, <1>10, SlotsStay
<1>12. FailureAt(w)' BY <1>2, <1>10, NotFailed
<1>13. MailAt(w)'
  <2>1. Owned(w)' = Owned(w) /\ \A m : Published(m)' <=> Published(m)
    BY <1>2 DEF Owned, Published, Retiring
  <2>2. MailAt(w) BY DEF PoolInv, WorkerInv
  <2>3. Acknowledged(w)' = Acknowledged(w) \union {k} BY <1>4, <1>5, AcknowledgedGrows DEF From
  <2>4. ReceiptsDistinct(w)'
    <3>1. \A i \in DOMAIN events' : \/ i \in DOMAIN events /\ events'[i] = events[i]
                                    \/ i = Len(events) + 1 /\ i \notin DOMAIN events /\ events'[i] = e
      BY <1>5
    <3>2. k \notin Acknowledged(w) /\ ReceiptsDistinct(w) BY <1>1, <2>2 DEF MailAt
    <3>3. \A i \in DOMAIN events : From(events[i], w, "retired") => events[i].key # k
      BY <3>2 DEF Acknowledged
    <3> QED BY <1>4, <3>1, <3>2, <3>3 DEF ReceiptsDistinct, From
  <2>5. /\ worker'[w].acks = worker[w].acks \ {k} /\ worker'[w].contexts = worker[w].contexts \ {k}
        /\ channel'[w].keys = channel[w].keys /\ k \in worker[w].acks
    BY <1>1, <1>2, <1>7
  <2>6. \A m \in channel'[w].keys \union worker'[w].acks \union Acknowledged(w)' : m \in Owned(w) /\ Published(m)
    BY <2>2, <2>3, <2>5 DEF MailAt
  <2>7. \A m \in Acknowledged(w)' : m \notin channel'[w].keys \union worker'[w].acks \union worker'[w].contexts
    BY <2>2, <2>3, <2>5 DEF MailAt
  <2>8. channel'[w].keys \intersect worker'[w].acks = {} /\ worker'[w].contexts \subseteq Owned(w)
    BY <2>2, <2>5 DEF MailAt
  <2> QED BY <2>1, <2>4, <2>6, <2>7, <2>8 DEF MailAt
<1> QED BY <1>6, <1>8, <1>11, <1>12, <1>13, LocalKeeps DEF WorkerInv

-----------------------------------------------------------------------------
(* The steps of a worker that move a token.                                *)

\* The first command leaves the channel.
LEMMA CommandLeaves ==
  ASSUME PoolInv, NEW w \in Workers, channel[w].commands # <<>>,
         channel'[w].commands = Tail(channel[w].commands)
  PROVE  /\ Head(channel[w].commands) \in Commands
         /\ \A i \in DOMAIN channel'[w].commands :
              i + 1 \in DOMAIN channel[w].commands /\ channel'[w].commands[i] = channel[w].commands[i + 1]
         /\ \A i \in DOMAIN channel[w].commands : i > 1 =>
              i - 1 \in DOMAIN channel'[w].commands /\ channel'[w].commands[i - 1] = channel[w].commands[i]
         /\ 1 \in DOMAIN channel[w].commands /\ channel[w].commands[1] = Head(channel[w].commands)
         /\ DOMAIN channel[w].commands \subseteq Nat \ {0} /\ DOMAIN channel'[w].commands \subseteq Nat \ {0}
<1>1. channel[w].commands \in Seq(Commands) BY DEF PoolInv, Types, Lanes
<1> QED BY <1>1

LEMMA SentShrinks ==
  ASSUME PoolInv, NEW w \in Workers, channel[w].commands # <<>>,
         channel'[w].commands = Tail(channel[w].commands)
  PROVE  Sent(w) = Sent(w)' \union
           (IF Head(channel[w].commands) = Wake THEN {} ELSE {Head(channel[w].commands).token})
<1>1. /\ \A i \in DOMAIN channel'[w].commands :
            i + 1 \in DOMAIN channel[w].commands /\ channel'[w].commands[i] = channel[w].commands[i + 1]
      /\ \A i \in DOMAIN channel[w].commands : i > 1 =>
            i - 1 \in DOMAIN channel'[w].commands /\ channel'[w].commands[i - 1] = channel[w].commands[i]
      /\ 1 \in DOMAIN channel[w].commands /\ channel[w].commands[1] = Head(channel[w].commands)
      /\ DOMAIN channel[w].commands \subseteq Nat \ {0}
  BY CommandLeaves
<1>2. \A i \in DOMAIN channel[w].commands : i = 1 \/ i > 1 BY <1>1
<1>3. ASSUME NEW t \in Sent(w)
      PROVE  t \in Sent(w)' \/ (Head(channel[w].commands) # Wake /\ t = Head(channel[w].commands).token)
  <2>1. PICK i \in DOMAIN channel[w].commands : channel[w].commands[i] # Wake /\ t = channel[w].commands[i].token
    BY <1>3 DEF Sent
  <2>2. CASE i = 1 BY <1>1, <2>1, <2>2
  <2>3. CASE i > 1 BY <1>1, <2>1, <2>3 DEF Sent
  <2> QED BY <1>2, <2>2, <2>3
<1>4. Sent(w)' \subseteq Sent(w) BY <1>1 DEF Sent
<1>5. Head(channel[w].commands) # Wake => Head(channel[w].commands).token \in Sent(w) BY <1>1 DEF Sent
<1> QED BY <1>3, <1>4, <1>5

LEMMA TokensAreNaturals ==
  ASSUME PoolInv, NEW w \in Workers
  PROVE  /\ Outstanding(w) \subseteq Nat /\ Decoded(w) \subseteq Nat /\ Pipeline(w) \subseteq Nat
         /\ Aside(w) \subseteq Nat /\ Sent(w) \subseteq Nat
<1>1. pool.jobs[w] \in Seq(Jobs) BY DEF PoolInv, Types
<1>2. \A i \in DOMAIN pool.jobs[w] : pool.jobs[w][i].token \in Nat
  <2>1. \A i \in DOMAIN pool.jobs[w] : pool.jobs[w][i] \in Jobs BY <1>1
  <2> QED BY <2>1 DEF Jobs
<1>3. UnderWay(w) \subseteq Outstanding(w) BY DEF PoolInv, WorkerInv, TokensAt, ListedAt
<1> QED BY <1>2, <1>3 DEF UnderWay, Outstanding

\* It is the oldest of those sent, and younger than all before it.
LEMMA CommandTaken ==
  ASSUME PoolInv, NEW w \in Workers, pool' = pool, events' = events, worker[w].pc # "exited",
         worker'[w].pending = worker[w].pending, channel[w].commands # <<>>,
         channel'[w].commands = Tail(channel[w].commands), Aside(w) = {},
         Aside(w)' = IF Head(channel[w].commands) = Wake THEN {} ELSE {Head(channel[w].commands).token},
         StagesAt(w)', KeyedAt(w)'
  PROVE  TokensAt(w)'
<1> DEFINE h == Head(channel[w].commands)
<1>1. SortedAt(w) /\ StagedAt(w) /\ ListedAt(w) /\ ReportsSortedAt(w)
  BY DEF PoolInv, WorkerInv, TokensAt
<1>2. /\ \A i \in DOMAIN channel'[w].commands :
            /\ i \in Nat \ {0} /\ i + 1 \in DOMAIN channel[w].commands
            /\ channel'[w].commands[i] = channel[w].commands[i + 1]
      /\ 1 \in DOMAIN channel[w].commands /\ channel[w].commands[1] = h
  BY CommandLeaves
<1>3. Decoded(w)' = Decoded(w) /\ Pipeline(w)' = Pipeline(w) /\ Outstanding(w)' = Outstanding(w)
  BY DEF Decoded, Pipeline, Outstanding
<1>4. ReportsSortedAt(w)' BY <1>1 DEF ReportsSortedAt
<1>5. Sent(w) = Sent(w)' \union Aside(w)' BY SentShrinks
<1>6. Before(Aside(w)', Sent(w)')
  <2> SUFFICES ASSUME NEW t \in Sent(w)', h # Wake PROVE h.token < t
    BY DEF Before
  <2>1. PICK i \in DOMAIN channel'[w].commands : channel'[w].commands[i] # Wake /\ t = channel'[w].commands[i].token
    BY DEF Sent
  <2>2. 1 < i + 1 BY <1>2
  <2> QED BY <1>1, <1>2, <2>1, <2>2 DEF SortedAt
<1>7. StagedAt(w)'
  BY <1>1, <1>3, <1>5, <1>6 DEF StagedAt, Staged, Before
<1>8. ListedAt(w)'
  BY <1>1, <1>3, <1>5 DEF ListedAt, UnderWay
<1>9. SortedAt(w)'
  <2>1. ASSUME NEW i \in DOMAIN channel'[w].commands, NEW j \in DOMAIN channel'[w].commands, i < j
        PROVE  i + 1 < j + 1
    BY <1>2, <2>1
  <2> QED BY <1>1, <1>2, <2>1 DEF SortedAt
<1> QED BY <1>4, <1>7, <1>8, <1>9 DEF TokensAt

LEMMA TakeReceivedKeeps ==
  ASSUME PoolInv, NEW w \in Workers, TakeReceived(w)
  PROVE  PoolInv'
<1> DEFINE c == Head(worker[w].received)
<1>1. /\ worker[w] \in Threads /\ channel' = channel /\ pool' = pool /\ events' = events
      /\ worker'[w] = [worker[w] EXCEPT !.pc = "apply", !.then = "handle", !.command = c, !.received = <<>>]
  BY DEF PoolInv, Types, TakeReceived, Quiet
<1>2. /\ worker[w].pc = "fill" /\ Len(worker[w].pending) < pool.limits.depth
      /\ c = worker[w].received[1] /\ DOMAIN worker[w].received = {1} /\ c \in Commands /\ c # Wake
  <2>1. worker[w].received # <<>> /\ worker[w].received \in Seq(Commands)
    BY <1>1 DEF TakeReceived, Threads
  <2>2. Len(worker[w].received) = 1 /\ worker[w].received[1] # Wake
    BY <2>1 DEF PoolInv, WorkerInv, TokensAt, StagesAt
  <2> QED BY <2>1, <2>2 DEF TakeReceived
<1> HIDE DEF c
<1>3. Local(w) BY <1>1, <1>2 DEF Local, PoolInv, Types, Threads, TakeReceived, Quiet
<1>4. /\ worker'[w].pc = "apply" /\ worker'[w].then = "handle" /\ worker'[w].pending = worker[w].pending
      /\ worker'[w].command = c /\ worker'[w].received = <<>>
      /\ worker'[w].acks = worker[w].acks /\ worker'[w].contexts = worker[w].contexts
  BY <1>1 DEF Threads
<1>5. Holds(w)' /\ ~Holds(w) BY <1>2, <1>4 DEF Holds, Busy
<1>6. RestingAt(w)' /\ StagesAt(w)'
  BY <1>1, <1>2, <1>4 DEF PoolInv, WorkerInv, TokensAt, RestingAt, StagesAt, Busy
<1>7. KeyedAt(w)'
  BY <1>1, <1>2, <1>4, <1>5 DEF PoolInv, WorkerInv, TokensAt, KeyedAt
<1>8. Aside(w)' = Aside(w) BY <1>2, <1>4, <1>5 DEF Aside
<1>9. TokensAt(w)' BY <1>1, <1>2, <1>4, <1>6, <1>7, <1>8, TokensStay DEF Reporting
<1>10. MailAt(w)' /\ FailureAt(w)' BY <1>1, <1>2, <1>4, MailStays, NotFailed DEF Reporting
<1> QED BY <1>3, <1>6, <1>9, <1>10, LocalKeeps DEF WorkerInv

LEMMA RecvKeeps ==
  ASSUME PoolInv, NEW w \in Workers, Recv(w)
  PROVE  PoolInv'
<1> DEFINE c == Head(channel[w].commands)
<1>1. /\ worker[w] \in Threads /\ pool' = pool /\ events' = events /\ channel[w] \in Lanes
      /\ channel'[w] = [channel[w] EXCEPT !.commands = Tail(@)] /\ c \in Commands
      /\ worker'[w] = [worker[w] EXCEPT !.pc = IF c = Wake THEN "clear" ELSE "apply",
                                        !.command = c, !.then = "handle"]
  BY DEF PoolInv, Types, Recv, Quiet, Taken, Lanes
<1>2. /\ worker[w].pc = "fill" /\ Len(worker[w].pending) < pool.limits.depth
      /\ channel[w].commands # <<>> /\ worker[w].received = <<>>
  BY DEF Recv
<1>3. Local(w)
  <2>1. channel' \in [Workers -> Lanes]
    <3>1. Tail(channel[w].commands) \in Seq(Commands) BY <1>1, <1>2 DEF Lanes
    <3>2. channel'[w] \in Lanes BY <1>1, <3>1 DEF Lanes
    <3> QED BY <3>2 DEF PoolInv, Types, Recv
  <2>2. worker' \in [Workers -> Threads]
    <3> HIDE DEF c
    <3>1. worker'[w] \in Threads BY <1>1 DEF Threads
    <3> QED BY <3>1 DEF PoolInv, Types, Recv, Taken
  <2> QED BY <2>1, <2>2 DEF Local, PoolInv, Types, Recv, Taken, Quiet
<1> HIDE DEF c
<1>4. /\ worker'[w].pc = (IF c = Wake THEN "clear" ELSE "apply") /\ worker'[w].then = "handle"
      /\ worker'[w].pending = worker[w].pending /\ worker'[w].received = worker[w].received
      /\ worker'[w].command = c
      /\ worker'[w].acks = worker[w].acks /\ worker'[w].contexts = worker[w].contexts
  BY <1>1 DEF Threads
<1>5. /\ channel'[w].commands = Tail(channel[w].commands) /\ channel'[w].keys = channel[w].keys
      /\ channel'[w].receiver = channel[w].receiver
  BY <1>1 DEF Lanes
<1>6. (Holds(w)' <=> c # Wake) /\ ~Holds(w) BY <1>2, <1>4 DEF Holds, Busy
<1>7. RestingAt(w)' /\ StagesAt(w)'
  BY <1>1, <1>2, <1>4, <1>5 DEF PoolInv, WorkerInv, TokensAt, RestingAt, StagesAt, Busy
<1>8. KeyedAt(w)'
  <2>1. KeyedAt(w) BY DEF PoolInv, WorkerInv, TokensAt
  <2>2. c # Wake => Matches(c, pool.jobs[w]) BY <1>2, <1>5, <2>1, CommandLeaves DEF KeyedAt, c
  <2>3. \A i \in DOMAIN channel'[w].commands :
          channel'[w].commands[i] # Wake => Matches(channel'[w].commands[i], pool.jobs[w])
    <3>1. \A i \in DOMAIN channel'[w].commands :
            i + 1 \in DOMAIN channel[w].commands /\ channel'[w].commands[i] = channel[w].commands[i + 1]
      BY <1>2, <1>5, CommandLeaves
    <3> QED BY <2>1, <3>1 DEF KeyedAt
  <2> QED BY <1>1, <1>2, <1>4, <1>6, <2>2, <2>3 DEF KeyedAt
<1>9. Aside(w) = {} /\ Aside(w)' = (IF c = Wake THEN {} ELSE {c.token})
  BY <1>2, <1>4, <1>6 DEF Aside
<1>10. TokensAt(w)' BY <1>1, <1>2, <1>4, <1>5, <1>7, <1>8, <1>9, CommandTaken DEF c
<1>11. MailAt(w)' /\ FailureAt(w)' BY <1>1, <1>2, <1>4, <1>5, MailStays, NotFailed DEF Reporting
<1> QED BY <1>3, <1>7, <1>10, <1>11, LocalKeeps DEF WorkerInv

\* A command that is handled has its job in the owner's list, in a generation
\* that is reserved at this worker and not published.
LEMMA CommandOwned ==
  ASSUME PoolInv, NEW w \in Workers, Holds(w)
  PROVE  worker[w].command.key \in Owned(w) /\ ~Published(worker[w].command.key)
<1>1. worker[w].command.token \in Outstanding(w)
  BY DEF PoolInv, WorkerInv, TokensAt, ListedAt, UnderWay, Aside
<1>2. PICK i \in DOMAIN pool.jobs[w] : pool.jobs[w][i].token = worker[w].command.token
  BY <1>1 DEF Outstanding
<1>3. pool.jobs[w][i].key = worker[w].command.key
  BY <1>2 DEF PoolInv, WorkerInv, TokensAt, KeyedAt, Matches
<1>4. pool.jobs[w][i].key \in Owned(w) BY DEF PoolInv, OwnerInv, Homes
<1> QED BY <1>3, <1>4, Zenon DEF Owned, Published, Retiring

LEMMA HandleKeeps ==
  ASSUME PoolInv, NEW w \in Workers, Handle(w)
  PROVE  PoolInv'
<1> DEFINE c == worker[w].command
<1>1. /\ worker[w] \in Threads /\ channel' = channel /\ pool' = pool /\ events' = events
      /\ worker[w].pc = "handle" /\ worker[w].then = "handle" /\ Len(worker[w].pending) < pool.limits.depth
      /\ worker[w].received = <<>>
  BY DEF PoolInv, Types, WorkerInv, TokensAt, StagesAt, Busy, Handle, Quiet
<1>2. CASE c = Wake
  <2>1. worker'[w] = [worker[w] EXCEPT !.pc = "fill"] BY <1>2 DEF Handle, PoolInv, Types
  <2>2. Local(w)
    <3>1. worker'[w] \in Threads BY <1>1, <2>1 DEF Threads
    <3> QED BY <1>1, <1>2, <3>1 DEF Local, PoolInv, Types, Handle, Quiet
  <2>3. worker'[w].pc = "fill" /\ SlotsKept(w) /\ KeysKept(w)
    BY <1>1, <2>1 DEF SlotsKept, KeysKept, Threads
  <2>4. RestingAt(w)' /\ StagesAt(w)' /\ ~Holds(w)' /\ ~Holds(w)
    BY <1>1, <1>2, <2>3 DEF PoolInv, WorkerInv, TokensAt, RestingAt, StagesAt, Holds, Busy, SlotsKept
  <2>5. KeyedAt(w)'
    BY <1>1, <2>3, <2>4 DEF PoolInv, WorkerInv, TokensAt, KeyedAt, SlotsKept
  <2>6. TokensAt(w)' BY <1>1, <2>3, <2>4, <2>5, SlotsStay DEF Reporting
  <2>7. MailAt(w)' /\ FailureAt(w)' BY <1>1, <2>3, MailStays, NotFailed DEF Reporting, KeysKept
  <2> QED BY <2>2, <2>4, <2>6, <2>7, LocalKeeps DEF WorkerInv
<1>3. CASE c # Wake
  <2>1. worker'[w] = [worker[w] EXCEPT !.pc = "fill", !.pending = Append(@, c.token),
                                       !.contexts = @ \union {c.key}]
    BY <1>3 DEF Handle, PoolInv, Types
  <2>2. c.token \in Nat /\ c.key \in Keys /\ worker[w].pending \in Seq(Nat)
    BY <1>1, <1>3 DEF Threads, Commands
  <2>3. Holds(w) BY <1>1, <1>3 DEF Holds, Busy
  <2> HIDE DEF c
  <2>4. worker'[w] \in Threads
    <3>1. Append(worker[w].pending, c.token) \in Seq(Nat) BY <2>2, AppendFacts
    <3>2. worker[w].contexts \union {c.key} \in SUBSET Keys BY <1>1, <2>2 DEF Threads
    <3> QED BY <1>1, <2>1, <3>1, <3>2 DEF Threads
  <2>5. Local(w) BY <1>1, <1>3, <2>4 DEF Local, PoolInv, Types, Handle, Quiet, c
  <2>6. /\ worker'[w].pc = "fill" /\ worker'[w].pending = Append(worker[w].pending, c.token)
        /\ worker'[w].received = <<>>
        /\ worker'[w].acks = worker[w].acks /\ worker'[w].contexts = worker[w].contexts \union {c.key}
    BY <1>1, <2>1 DEF Threads
  <2>7. ~Holds(w)' BY <2>6 DEF Holds, Busy
  <2>8. RestingAt(w)' /\ StagesAt(w)'
    <3>1. Len(Append(worker[w].pending, c.token)) = Len(worker[w].pending) + 1 BY <2>2
    <3>2. pool.limits.depth \in 1 .. 2 BY LimitFacts DEF PoolInv, Types
    <3> QED BY <1>1, <2>2, <2>6, <3>1, <3>2 DEF PoolInv, WorkerInv, TokensAt, RestingAt, StagesAt, Busy
  <2>9. TokensAt(w)'
    <3>1. Aside(w) = {c.token} /\ Aside(w)' = {} BY <1>1, <2>3, <2>6, <2>7 DEF Aside, c
    <3>2. /\ Decoded(w)' = Decoded(w) /\ Sent(w)' = Sent(w) /\ Outstanding(w)' = Outstanding(w)
          /\ Pipeline(w)' = Pipeline(w) \union {c.token}
      <4>1. Decoded(w)' = Decoded(w) /\ Sent(w)' = Sent(w) /\ Outstanding(w)' = Outstanding(w)
        BY <1>1 DEF Decoded, Sent, Outstanding
      <4>2. /\ DOMAIN worker'[w].pending = DOMAIN worker[w].pending \union {Len(worker[w].pending) + 1}
            /\ worker'[w].pending[Len(worker[w].pending) + 1] = c.token
            /\ \A i \in DOMAIN worker[w].pending : worker'[w].pending[i] = worker[w].pending[i]
        BY <2>2, <2>6, AppendFacts, SMTT(20)
      <4> QED BY <4>1, <4>2 DEF Pipeline
    <3>3. StagedAt(w) /\ ListedAt(w) /\ SortedAt(w) /\ ReportsSortedAt(w) /\ KeyedAt(w)
      BY DEF PoolInv, WorkerInv, TokensAt
    <3>4. StagedAt(w)' BY <3>1, <3>2, <3>3 DEF StagedAt, Staged, Before
    <3>5. ListedAt(w)' BY <1>1, <3>1, <3>2, <3>3 DEF ListedAt, UnderWay
    <3>6. KeyedAt(w)' BY <1>1, <2>6, <2>7, <3>3 DEF KeyedAt
    <3>7. ReportsSortedAt(w)' BY <1>1, <3>3 DEF ReportsSortedAt
    <3>8. SortedAt(w)'
      <4>1. \A i \in DOMAIN worker[w].pending : worker[w].pending[i] < c.token
        BY <3>1, <3>3 DEF StagedAt, Staged, Before, Pipeline
      <4>2. \A i, j \in DOMAIN worker'[w].pending : i < j => worker'[w].pending[i] < worker'[w].pending[j]
        BY <2>2, <2>6, <3>3, <4>1, SMTT(20) DEF SortedAt
      <4> QED BY <1>1, <3>3, <4>2 DEF SortedAt
    <3> QED BY <2>8, <3>4, <3>5, <3>6, <3>7, <3>8 DEF TokensAt
  <2>10. MailAt(w)'
    <3>1. Owned(w)' = Owned(w) /\ Acknowledged(w)' = Acknowledged(w) /\ \A k : Published(k)' <=> Published(k)
      BY <1>1 DEF Owned, Acknowledged, Published, Retiring
    <3>2. c.key \in Owned(w) /\ ~Published(c.key) BY <2>3, CommandOwned DEF c
    <3>3. MailAt(w) BY DEF PoolInv, WorkerInv
    <3>4. ReceiptsDistinct(w)' BY <1>1, <3>3 DEF MailAt, ReceiptsDistinct
    <3> QED BY <1>1, <2>6, <3>1, <3>2, <3>3, <3>4 DEF MailAt
  <2>11. FailureAt(w)' BY <1>1, NotFailed DEF Reporting
  <2> QED BY <2>5, <2>8, <2>9, <2>10, <2>11, LocalKeeps DEF WorkerInv
<1> QED BY <1>2, <1>3

\* The oldest token of the pipeline becomes the newest result.
LEMMA PollReadyKeeps ==
  ASSUME PoolInv, NEW w \in Workers, PollReady(w)
  PROVE  PoolInv'
<1> DEFINE h == Head(worker[w].pending)
           e == [kind |-> "decoded", worker |-> w, token |-> h]
<1>1. /\ worker[w] \in Threads /\ channel' = channel /\ pool' = pool /\ owner' = owner /\ history' = history
      /\ worker[w].pc = "poll" /\ notified' = TRUE
      /\ worker'[w] = [worker[w] EXCEPT !.pc = "apply", !.then = "fill", !.pending = Tail(@)]
      /\ worker' = [worker EXCEPT ![w] = worker'[w]]
  BY DEF PoolInv, Types, PollReady, Quiet, Emit
<1>2. /\ worker[w].pending # <<>> /\ worker[w].received = <<>>
      /\ worker[w].pending \in Seq(Nat) /\ Tail(worker[w].pending) \in Seq(Nat)
  <2>1. worker[w].pending # <<>> /\ worker[w].received = <<>>
    BY <1>1 DEF PoolInv, WorkerInv, TokensAt, StagesAt
  <2> QED BY <1>1, <2>1 DEF Threads
<1>3. /\ h \in Nat /\ h = worker[w].pending[1] /\ 1 \in DOMAIN worker[w].pending
      /\ Len(Tail(worker[w].pending)) = Len(worker[w].pending) - 1
      /\ \A i \in DOMAIN Tail(worker[w].pending) :
           i \in Nat \ {0} /\ i + 1 \in DOMAIN worker[w].pending
             /\ Tail(worker[w].pending)[i] = worker[w].pending[i + 1]
      /\ \A i \in DOMAIN worker[w].pending : i = 1 \/
           (i - 1 \in DOMAIN Tail(worker[w].pending) /\ Tail(worker[w].pending)[i - 1] = worker[w].pending[i])
  BY <1>2, TailFacts, SMTT(30)
<1>4. e \in Reports /\ e.kind = "decoded" /\ e.worker = w /\ e.token = h
  BY <1>3 DEF Reports
<1>5. events \in Seq(Reports) /\ events' = Append(events, e) BY DEF PoolInv, Types, PollReady, Emit
<1> HIDE DEF e, h
<1>6. worker'[w] \in Threads BY <1>1, <1>2 DEF Threads
<1>7. Local(w) BY <1>1, <1>4, <1>5, <1>6 DEF Local, PoolInv, Types
<1>8. /\ worker'[w].pc = "apply" /\ worker'[w].then = "fill" /\ worker'[w].pending = Tail(worker[w].pending)
      /\ worker'[w].received = <<>>
      /\ worker'[w].acks = worker[w].acks /\ worker'[w].contexts = worker[w].contexts
  BY <1>1, <1>2 DEF Threads
<1>9. ~Holds(w)' /\ ~Holds(w) BY <1>1, <1>8 DEF Holds, Busy
<1>10. RestingAt(w)' BY <1>1, <1>8 DEF PoolInv, WorkerInv, RestingAt
<1>11. StagesAt(w)'
  <2>1. pool.limits.depth \in 1 .. 2 /\ Len(worker[w].pending) \in Nat BY <1>2, LimitFacts DEF PoolInv, Types
  <2> QED BY <1>1, <1>3, <1>8, <2>1 DEF PoolInv, WorkerInv, TokensAt, StagesAt, Busy
<1>12. StagedAt(w) /\ ListedAt(w) /\ SortedAt(w) /\ ReportsSortedAt(w) /\ KeyedAt(w)
  BY DEF PoolInv, WorkerInv, TokensAt
<1>13. Decoded(w)' = Decoded(w) \union {h} BY <1>4, <1>5, DecodedGrows DEF From
<1>14. Sent(w)' = Sent(w) /\ Outstanding(w)' = Outstanding(w) /\ Aside(w) = {} /\ Aside(w)' = {}
  BY <1>1, <1>2, <1>8, <1>9 DEF Sent, Outstanding, Aside
<1>15. Pipeline(w) = Pipeline(w)' \union {h}
  <2>1. Pipeline(w)' \subseteq Pipeline(w) /\ h \in Pipeline(w) BY <1>3, <1>8 DEF Pipeline
  <2>2. ASSUME NEW i \in DOMAIN worker[w].pending, i # 1 PROVE worker[w].pending[i] \in Pipeline(w)'
    <3>1. i - 1 \in DOMAIN worker'[w].pending /\ worker'[w].pending[i - 1] = worker[w].pending[i]
      BY <1>3, <1>8, <2>2
    <3> QED BY <3>1 DEF Pipeline
  <2>3. \A i \in DOMAIN worker[w].pending : worker[w].pending[i] \in Pipeline(w)' \union {h} BY <1>3, <2>2
  <2> QED BY <2>1, <2>3 DEF Pipeline
<1>16. StagedAt(w)'
  <2>1. Before({h}, Pipeline(w)')
    <3> SUFFICES ASSUME NEW i \in DOMAIN Tail(worker[w].pending) PROVE h < Tail(worker[w].pending)[i]
      BY <1>8 DEF Before, Pipeline
    <3>1. 1 < i + 1 BY <1>3
    <3> QED BY <1>3, <1>12, <3>1 DEF SortedAt
  <2> QED BY <1>12, <1>13, <1>14, <1>15, <2>1 DEF StagedAt, Staged, Before
<1>17. ListedAt(w)'
  <2>1. Outstanding(w)' \ Decoded(w)' \subseteq Pipeline(w)' \union Aside(w)' \union Sent(w)'
    BY <1>1, <1>12, <1>13, <1>14, <1>15 DEF ListedAt, UnderWay
  <2>2. Before(Decoded(w)', Outstanding(w)' \ Decoded(w)')
    BY <1>16, <2>1 DEF StagedAt, Staged, Before
  <2> QED BY <1>1, <1>12, <1>13, <1>14, <1>15, <2>2 DEF ListedAt, UnderWay
<1>18. KeyedAt(w)' BY <1>1, <1>8, <1>9, <1>12 DEF KeyedAt
<1>19. SortedAt(w)'
  <2>1. \A i, j \in DOMAIN Tail(worker[w].pending) : i < j => i + 1 < j + 1 BY <1>3
  <2> QED BY <1>1, <1>3, <1>8, <1>12, <2>1 DEF SortedAt
<1>20. ReportsSortedAt(w)'
  <2>1. \A i \in DOMAIN events : From(events[i], w, "decoded") => events[i].token < h
    BY <1>12, <1>15 DEF StagedAt, Staged, Before, Decoded
  <2>2. /\ \A i \in DOMAIN events : events'[i] = events[i] /\ i \in Nat /\ i < Len(events) + 1
        /\ \A i \in DOMAIN events' : i \in DOMAIN events \/ (i = Len(events) + 1 /\ events'[i] = e)
        /\ Len(events) \in Nat
    BY <1>5
  <2> QED BY <1>4, <1>12, <2>1, <2>2 DEF ReportsSortedAt, From
<1>21. TokensAt(w)' BY <1>11, <1>16, <1>17, <1>18, <1>19, <1>20 DEF TokensAt
<1>22. Reporting(w, {"failed"}) /\ Reporting(w, {"retired"}) BY <1>4, <1>5 DEF Reporting
<1>23. MailAt(w)' /\ FailureAt(w)' BY <1>1, <1>8, <1>22, MailStays, NotFailed
<1> QED BY <1>7, <1>10, <1>21, <1>23, LocalKeeps DEF WorkerInv

\* A worker is given no more than it takes: the pipeline and the channel hold
\* different jobs of a list that is no longer than the pipeline.
LEMMA NeverOverflows ==
  ASSUME PoolInv, NEW w \in Workers, channel[w].commands # <<>>, Head(channel[w].commands) # Wake
  PROVE  Len(worker[w].pending) < pool.limits.depth
<1> DEFINE c == Head(channel[w].commands)  jobs == pool.jobs[w]  pending == worker[w].pending
<1>1. /\ jobs \in Seq(Jobs) /\ pending \in Seq(Nat) /\ channel[w].commands \in Seq(Commands)
      /\ pool.limits.depth \in 1 .. 2
  BY LimitFacts DEF PoolInv, Types, Threads, Lanes
<1>2. /\ \A i \in DOMAIN pending : pending[i] \in Outstanding(w) /\ pending[i] < c.token
      /\ c.token \in Outstanding(w)
  <2>1. c.token \in Sent(w) BY <1>1, TailFacts DEF Sent
  <2> QED BY <2>1 DEF PoolInv, WorkerInv, TokensAt, StagedAt, Staged, Before, ListedAt, UnderWay, Pipeline
<1>3. /\ Len(jobs) <= pool.limits.depth
      /\ \A i, j \in DOMAIN pending : i < j => pending[i] < pending[j]
      /\ Len(pending) <= pool.limits.depth
  BY DEF PoolInv, WorkerInv, TokensAt, StagesAt, SortedAt
<1>4. \A t \in Outstanding(w) : \E i \in DOMAIN jobs : jobs[i].token = t BY DEF Outstanding
<1>5. \A t \in Outstanding(w) : t \in Nat BY TokensAreNaturals
<1> HIDE DEF c, jobs, pending
<1>6. Len(jobs) \in Nat /\ DOMAIN jobs = 1 .. Len(jobs) /\ Len(pending) \in Nat /\ DOMAIN pending = 1 .. Len(pending)
  BY <1>1
<1> SUFFICES ASSUME Len(pending) = pool.limits.depth PROVE FALSE
  BY <1>1, <1>3, <1>6 DEF pending
<1>7. CASE pool.limits.depth = 1
  <2>1. pending[1] < c.token /\ pending[1] \in Outstanding(w) BY <1>2, <1>6, <1>7
  <2>2. \A i \in DOMAIN jobs : i = 1 BY <1>3, <1>6, <1>7
  <2> QED BY <1>2, <1>4, <1>5, <2>1, <2>2
<1>8. CASE pool.limits.depth = 2
  <2>1. /\ pending[1] < pending[2] /\ pending[2] < c.token
        /\ pending[1] \in Outstanding(w) /\ pending[2] \in Outstanding(w)
    BY <1>2, <1>3, <1>6, <1>8
  <2>2. \A i \in DOMAIN jobs : i = 1 \/ i = 2 BY <1>3, <1>6, <1>8
  <2> QED BY <1>2, <1>4, <1>5, <2>1, <2>2
<1> QED BY <1>1, <1>7, <1>8

\* A thread that ends leaves the results it has sent.
LEMMA ExitEnds ==
  ASSUME PoolInv, NEW w \in Workers, Exit(w), Reporting(w, {"decoded"}),
         pool'.jobs = pool.jobs, pool'.limits = pool.limits, ~(w > pool'.spawned)
  PROVE  /\ RestingAt(w)' /\ TokensAt(w)' /\ worker'[w].pc = "exited"
         /\ worker' \in [Workers -> Threads] /\ channel' \in [Workers -> Lanes]
         /\ \A v \in Workers \ {w} : worker'[v] = worker[v] /\ channel'[v] = channel[v]
         /\ channel'[w].keys = channel[w].keys /\ worker'[w].acks = {} /\ worker'[w].contexts = {}
<1>1. /\ worker \in [Workers -> Threads] /\ channel \in [Workers -> Lanes]
      /\ worker'[w] = [NoThread EXCEPT !.pc = "exited"] /\ channel[w] \in Lanes
      /\ channel'[w] = [channel[w] EXCEPT !.receiver = FALSE, !.commands = <<>>]
      /\ \A v \in Workers \ {w} : worker'[v] = worker[v] /\ channel'[v] = channel[v]
  BY DEF PoolInv, Types, Exit
<1>2. /\ worker'[w].pc = "exited" /\ worker'[w].then = "fill" /\ worker'[w].pending = <<>>
      /\ worker'[w].received = <<>> /\ worker'[w].acks = {} /\ worker'[w].contexts = {}
  BY <1>1 DEF NoThread
<1>3. /\ channel'[w].commands = <<>> /\ channel'[w].receiver = FALSE /\ channel'[w].keys = channel[w].keys
  BY <1>1 DEF Lanes
<1>4. worker'[w] \in Threads /\ channel'[w] \in Lanes
  <2>1. Wake \in Commands /\ <<>> \in Seq(Commands) /\ <<>> \in Seq(Nat) BY DEF Commands
  <2>2. worker'[w] \in Threads BY <1>1, <2>1 DEF Threads, NoThread
  <2>3. channel'[w] \in Lanes BY <1>1, <2>1 DEF Lanes
  <2> QED BY <2>2, <2>3
<1>5. worker' \in [Workers -> Threads] /\ channel' \in [Workers -> Lanes]
  BY <1>1, <1>4 DEF Exit
<1>6. RestingAt(w)'
  BY <1>2, <1>3 DEF PoolInv, WorkerInv, RestingAt
<1>7. ~Holds(w)' BY <1>2 DEF Holds, Busy
<1>8. Pipeline(w)' = {} /\ Aside(w)' = {} /\ Sent(w)' = {} /\ Outstanding(w)' = Outstanding(w)
  BY <1>2, <1>3, <1>7 DEF Pipeline, Aside, Sent, Outstanding
<1>9. Decoded(w)' = Decoded(w) /\ ReportsSortedAt(w)' BY DecodedStays
<1>10. StagesAt(w)'
  <2>1. pool.limits.depth \in 1 .. 2 BY LimitFacts DEF PoolInv, Types
  <2> QED BY <1>2, <2>1 DEF PoolInv, WorkerInv, TokensAt, StagesAt, Busy
<1>11. StagedAt(w)' /\ ListedAt(w)'
  BY <1>2, <1>8, <1>9 DEF PoolInv, WorkerInv, TokensAt, StagedAt, Staged, Before, ListedAt, UnderWay
<1>12. SortedAt(w)' /\ KeyedAt(w)'
  BY <1>2, <1>3, <1>7 DEF PoolInv, WorkerInv, TokensAt, SortedAt, KeyedAt
<1> QED BY <1>1, <1>2, <1>3, <1>5, <1>6, <1>9, <1>10, <1>11, <1>12 DEF TokensAt

\* A thread ends because its channel was closed,
LEMMA ClosedKeeps ==
  ASSUME PoolInv, NEW w \in Workers, Exit(w), Quiet, events' = events, notified' = notified,
         worker[w].pc \notin {"absent", "exited"}
  PROVE  PoolInv'
<1>1. Reporting(w, {"decoded"}) /\ Reporting(w, {"retired"}) /\ Reporting(w, {"failed"}) BY DEF Reporting
<1>2. /\ RestingAt(w)' /\ TokensAt(w)'
      /\ worker' \in [Workers -> Threads] /\ channel' \in [Workers -> Lanes]
      /\ \A v \in Workers \ {w} : worker'[v] = worker[v] /\ channel'[v] = channel[v]
      /\ channel'[w].keys = channel[w].keys /\ worker'[w].acks = {} /\ worker'[w].contexts = {}
  <2>1. ~(w > pool'.spawned) BY DEF Quiet, PoolInv, WorkerInv, RestingAt
  <2> QED BY <1>1, <2>1, ExitEnds DEF Quiet
<1>3. MailAt(w)' /\ FailureAt(w)' BY <1>1, <1>2, MailStays, NotFailed DEF Quiet
<1>4. Local(w) BY <1>2 DEF Local, Quiet, PoolInv, Types
<1> QED BY <1>2, <1>3, <1>4, LocalKeeps DEF WorkerInv

\* or because a call failed, which it reports.
LEMMA FailureReported ==
  ASSUME PoolInv, NEW w \in Workers, NEW e \in Reports, e.kind = "failed", e.worker = w,
         events' = Append(events, e), worker[w].pc # "exited", worker'[w].pc = "exited", history'.failures > 0
  PROVE  FailureAt(w)'
<1>1. events \in Seq(Reports) BY DEF PoolInv, Types
<1>2. \A i \in DOMAIN events : ~From(events[i], w, "failed")
  BY DEF PoolInv, WorkerInv, FailureAt
<1>3. \A i \in DOMAIN events' : From(events'[i], w, "failed") => i = Len(events) + 1
  BY <1>1, <1>2, AppendFacts
<1>4. \A j \in DOMAIN events' : ~(j > Len(events) + 1)
  BY <1>1
<1> QED BY <1>3, <1>4 DEF FailureAt

LEMMA WorkerFailsKeeps ==
  ASSUME PoolInv, NEW w \in Workers, WorkerFails(w)
  PROVE  PoolInv'
<1> DEFINE e == [kind |-> "failed", worker |-> w]
<1>1. /\ worker[w].pc \notin {"absent", "exited"} /\ Exit(w) /\ events' = Append(events, e)
      /\ notified' = TRUE /\ history' = [history EXCEPT !.failures = @ + 1]
      /\ owner' = owner /\ pool' = pool
  BY DEF WorkerFails, Emit
<1>2. e \in Reports /\ e.kind = "failed" /\ e.worker = w BY DEF Reports
<1> HIDE DEF e
<1>3. Reporting(w, {"decoded"}) /\ Reporting(w, {"retired"}) BY <1>1, <1>2 DEF Reporting
<1>4. /\ RestingAt(w)' /\ TokensAt(w)' /\ worker'[w].pc = "exited"
      /\ worker' \in [Workers -> Threads] /\ channel' \in [Workers -> Lanes]
      /\ \A v \in Workers \ {w} : worker'[v] = worker[v] /\ channel'[v] = channel[v]
      /\ channel'[w].keys = channel[w].keys /\ worker'[w].acks = {} /\ worker'[w].contexts = {}
  <2>1. ~(w > pool'.spawned) BY <1>1 DEF PoolInv, WorkerInv, RestingAt
  <2> QED BY <1>1, <1>3, <2>1, ExitEnds
<1>5. MailAt(w)' BY <1>1, <1>3, <1>4, MailStays
<1>6. FailureAt(w)'
  <2>1. history'.failures > 0 BY <1>1 DEF PoolInv, Types
  <2> QED BY <1>1, <1>2, <1>4, <2>1, FailureReported
<1>7. Local(w) BY <1>1, <1>2, <1>4 DEF Local
<1> QED BY <1>4, <1>5, <1>6, <1>7, LocalKeeps DEF WorkerInv

LEMMA PollPendingKeeps ==
  ASSUME PoolInv, NEW w \in Workers, PollPending(w)
  PROVE  PoolInv'
<1> DEFINE c == Head(channel[w].commands)
<1>1. /\ worker[w] \in Threads /\ channel[w] \in Lanes /\ pool' = pool /\ owner' = owner /\ history' = history
      /\ worker[w].pc = "poll" /\ worker[w].pending # <<>> /\ worker[w].received = <<>> /\ notified \in BOOLEAN
      /\ worker \in [Workers -> Threads] /\ channel \in [Workers -> Lanes]
  BY DEF PollPending, Quiet, PoolInv, Types, WorkerInv, TokensAt, StagesAt
<1>2. ASSUME channel[w].commands # <<>>, events' = events, notified' = notified,
             channel' = [channel EXCEPT ![w].commands = Tail(@)],
             \/ /\ c = Wake
                /\ worker' = [worker EXCEPT ![w].pc = "clear", ![w].command = Wake, ![w].then = "renotify"]
             \/ /\ c # Wake
                /\ worker' = [worker EXCEPT ![w].pc = "apply", ![w].then = "fill", ![w].received = <<c>>]
      PROVE  PoolInv'
  <2>1. /\ channel[w].commands \in Seq(Commands) /\ Tail(channel[w].commands) \in Seq(Commands)
        /\ c \in Commands /\ <<c>> \in Seq(Commands) /\ Wake \in Commands
        /\ \A i \in DOMAIN <<c>> : i = 1
    BY <1>1, <1>2, TailFacts DEF Lanes, Commands
  <2>2. /\ channel'[w].commands = Tail(channel[w].commands) /\ channel'[w].keys = channel[w].keys
        /\ channel'[w].receiver = channel[w].receiver /\ channel' \in [Workers -> Lanes]
        /\ \A v \in Workers \ {w} : channel'[v] = channel[v]
    BY <1>1, <1>2, <2>1 DEF Lanes
  <2> HIDE DEF c
  <2>3. /\ worker'[w] \in Threads /\ worker'[w].pending = worker[w].pending
        /\ worker'[w].acks = worker[w].acks /\ worker'[w].contexts = worker[w].contexts
        /\ c = Wake => /\ worker'[w].pc = "clear" /\ worker'[w].then = "renotify"
                       /\ worker'[w].received = <<>> /\ worker'[w].command = Wake
        /\ c # Wake => /\ worker'[w].pc = "apply" /\ worker'[w].then = "fill" /\ worker'[w].received = <<c>>
    <3>1. CASE c = Wake
      <4>1. worker'[w] = [worker[w] EXCEPT !.pc = "clear", !.command = Wake, !.then = "renotify"]
        BY <1>1, <1>2, <3>1
      <4> QED BY <1>1, <2>1, <3>1, <4>1 DEF Threads
    <3>2. CASE c # Wake
      <4>1. worker'[w] = [worker[w] EXCEPT !.pc = "apply", !.then = "fill", !.received = <<c>>]
        BY <1>1, <1>2, <3>2
      <4> QED BY <1>1, <2>1, <3>2, <4>1 DEF Threads
    <3> QED BY <3>1, <3>2
  <2>4. worker' \in [Workers -> Threads] /\ \A v \in Workers \ {w} : worker'[v] = worker[v]
    BY <1>1, <1>2, <2>3
  <2>5. Local(w) BY <1>1, <1>2, <2>2, <2>4 DEF Local
  <2>6. ~Holds(w)' /\ ~Holds(w) BY <1>1, <2>3 DEF Holds, Busy
  <2>7. RestingAt(w)'
    BY <1>1, <2>2, <2>3 DEF PoolInv, WorkerInv, RestingAt
  <2>8. StagesAt(w)'
    <3>1. CASE c = Wake
      BY <1>1, <2>3, <3>1 DEF PoolInv, WorkerInv, TokensAt, StagesAt, Busy
    <3>2. CASE c # Wake
      <4>1. Len(worker[w].pending) < pool.limits.depth BY <1>2, <3>2, NeverOverflows DEF c
      <4>2. Len(<<c>>) = 1 /\ <<c>>[1] = c OBVIOUS
      <4> QED BY <1>1, <2>3, <3>2, <4>1, <4>2 DEF PoolInv, WorkerInv, TokensAt, StagesAt, Busy
    <3> QED BY <3>1, <3>2
  <2>9. KeyedAt(w)'
    <3>1. KeyedAt(w) BY DEF PoolInv, WorkerInv, TokensAt
    <3>2. c # Wake => Matches(c, pool.jobs[w]) BY <1>2, <2>2, <3>1, CommandLeaves DEF KeyedAt, c
    <3>3. \A i \in DOMAIN channel'[w].commands :
            channel'[w].commands[i] # Wake => Matches(channel'[w].commands[i], pool.jobs[w])
      BY <1>2, <2>2, <3>1, CommandLeaves DEF KeyedAt
    <3>4. \A i \in DOMAIN worker'[w].received : Matches(worker'[w].received[i], pool.jobs[w])
      BY <2>1, <2>3, <3>2
    <3> QED BY <1>1, <2>6, <3>3, <3>4 DEF KeyedAt
  <2>10. Aside(w) = {} /\ Aside(w)' = (IF c = Wake THEN {} ELSE {c.token})
    BY <1>1, <2>1, <2>3, <2>6 DEF Aside
  <2>11. TokensAt(w)' BY <1>1, <1>2, <2>2, <2>3, <2>8, <2>9, <2>10, CommandTaken DEF c
  <2>12. MailAt(w)' /\ FailureAt(w)' BY <1>1, <1>2, <2>2, <2>3, MailStays, NotFailed DEF Reporting
  <2> QED BY <2>5, <2>7, <2>11, <2>12, LocalKeeps DEF WorkerInv
<1>3. ASSUME worker' = [worker EXCEPT ![w].pc = "apply", ![w].then = "fill"],
             UNCHANGED <<channel, events, notified>>
      PROVE  PoolInv'
  <2>1. worker'[w] = [worker[w] EXCEPT !.pc = "apply", !.then = "fill"] BY <1>1, <1>3
  <2>2. /\ worker'[w] \in Threads /\ SlotsKept(w) /\ KeysKept(w)
        /\ worker'[w].pc = "apply" /\ worker'[w].then = "fill"
    BY <1>1, <1>3, <2>1 DEF Threads, SlotsKept, KeysKept
  <2>3. Local(w) BY <1>1, <1>3, <2>2 DEF Local, PoolInv, Types
  <2>4. RestingAt(w)' /\ StagesAt(w)' /\ ~Holds(w)' /\ ~Holds(w)
    BY <1>1, <1>3, <2>2 DEF PoolInv, WorkerInv, TokensAt, RestingAt, StagesAt, Holds, Busy, SlotsKept
  <2>5. KeyedAt(w)' BY <1>1, <1>3, <2>2, <2>4 DEF PoolInv, WorkerInv, TokensAt, KeyedAt, SlotsKept
  <2>6. TokensAt(w)' BY <1>1, <1>3, <2>2, <2>4, <2>5, SlotsStay DEF Reporting
  <2>7. MailAt(w)' /\ FailureAt(w)' BY <1>1, <1>3, <2>2, MailStays, NotFailed DEF Reporting, KeysKept
  <2> QED BY <2>3, <2>4, <2>6, <2>7, LocalKeeps DEF WorkerInv
<1>4. CASE Exit(w) /\ UNCHANGED <<events, notified>>
  BY <1>1, <1>4, ClosedKeeps DEF Quiet
<1>5. CASE channel[w].commands # <<>> /\ c # Wake /\ ~(Len(worker[w].pending) < pool.limits.depth)
  BY <1>5, NeverOverflows
<1> QED BY <1>2, <1>3, <1>4, <1>5 DEF PollPending, Taken

LEMMA WorkerStepKeeps ==
  ASSUME PoolInv, NEW w \in Workers, WorkerStep(w) \/ WorkerFails(w)
  PROVE  PoolInv'
<1>1. ASSUME Closed(w) PROVE PoolInv'
  BY <1>1, ClosedKeeps DEF Closed
<1> QED BY <1>1, StartsKeeps, ApplyTakesKeeps, ApplyRetiresKeeps, AppliedKeeps, TakeReceivedKeeps, RecvKeeps,
     FilledKeeps, ClearWakeKeeps, HandleKeeps, PollReadyKeeps, PollPendingKeeps, RenotifyKeeps,
     WorkerFailsKeeps DEF WorkerStep

-----------------------------------------------------------------------------
(* The steps of the owner.                                                 *)

LEMMA GenerationTypes ==
  ASSUME NEW g
  PROVE  g \in UNION {[K -> Reservation] : K \in SUBSET Keys}
           <=> DOMAIN g \subseteq Keys /\ g \in [DOMAIN g -> Reservation]
OBVIOUS

\* A step that changes where the owner is, and nothing a worker relies on.
LEMMA OwnerMoves ==
  ASSUME PoolInv, owner' \in [pc : {"idle", "send", "swap", "signal", "drain", "join", "gone"},
                              todo : SUBSET Keys, key : Keys \union {<<>>}],
         UNCHANGED <<pool, worker, events, history>>, channel' \in [Workers -> Lanes], notified' \in BOOLEAN,
         \A v \in Workers : /\ channel'[v].commands = channel[v].commands /\ channel'[v].keys = channel[v].keys
                            /\ channel'[v].receiver = channel[v].receiver,
         Publishing'
  PROVE  PoolInv'
<1>1. Types' BY DEF PoolInv, Types
<1>2. \A k : Published(k)' <=> Published(k) BY DEF Published, Retiring
<1>3. \A v \in Workers : Owned(v)' = Owned(v) BY DEF Owned
<1>4. \A v \in Workers : WorkerInv(v)' BY <1>2, <1>3, WorkerUntouched
<1>5. OwnerInv'
  BY DEF PoolInv, OwnerInv, Homes, Published, Retiring, Owned, Newer, OnlyWorkersFail
<1> QED BY <1>1, <1>4, <1>5 DEF PoolInv

LEMMA DrainKeeps ==
  ASSUME PoolInv, Drain \/ Joined \/ AllPublished
  PROVE  PoolInv'
<1>1. /\ UNCHANGED <<pool, worker, events, history, channel>> /\ notified' \in BOOLEAN
      /\ channel \in [Workers -> Lanes]
  BY DEF Drain, Joined, AllPublished, PoolInv, Types
<1>2. /\ owner' \in [pc : {"idle", "send", "swap", "signal", "drain", "join", "gone"},
                     todo : SUBSET Keys, key : Keys \union {<<>>}]
      /\ owner'.todo = owner.todo /\ owner'.pc \in {"drain", "gone", "idle"} /\ owner.todo = {}
  BY DEF Drain, Joined, AllPublished, PoolInv, Types, OwnerInv, Publishing
<1>3. Publishing' BY <1>2 DEF Publishing
<1> QED BY <1>1, <1>2, <1>3, OwnerMoves

LEMMA DropPoolKeeps ==
  ASSUME PoolInv, DropPool
  PROVE  PoolInv'
<1>1. \A v \in Workers : channel'[v] = [channel[v] EXCEPT !.sender = ~DropCloses(v)] /\ channel[v] \in Lanes
  BY DEF DropPool, PoolInv, Types
<1>2. \A v \in Workers : /\ channel'[v].commands = channel[v].commands /\ channel'[v].keys = channel[v].keys
                         /\ channel'[v].receiver = channel[v].receiver /\ channel'[v] \in Lanes
  BY <1>1 DEF Lanes, DropCloses
<1>3. channel' \in [Workers -> Lanes] BY <1>2 DEF DropPool
<1>4. /\ owner' \in [pc : {"idle", "send", "swap", "signal", "drain", "join", "gone"},
                     todo : SUBSET Keys, key : Keys \union {<<>>}]
      /\ owner'.todo = {} /\ owner'.pc = "join"
  BY DEF DropPool, PoolInv, Types, OwnerInv, Publishing
<1>5. Publishing' BY <1>4 DEF Publishing
<1>6. UNCHANGED <<pool, worker, events, history>> /\ notified' \in BOOLEAN BY DEF DropPool, PoolInv, Types
<1> QED BY <1>2, <1>3, <1>4, <1>5, <1>6, OwnerMoves

\* What is publishable is retiring, without jobs and not sent.
LEMMA DrainEndsKeeps ==
  ASSUME PoolInv, DrainEnds
  PROVE  PoolInv'
<1>1. /\ UNCHANGED <<pool, worker, events, history, channel, notified>>
      /\ channel \in [Workers -> Lanes] /\ notified \in BOOLEAN
  BY DEF DrainEnds, PoolInv, Types
<1>2. Publishable(pool.generations, pool.jobs) \subseteq Keys
  BY GenerationTypes DEF Publishable, PoolInv, Types
<1>3. /\ owner' \in [pc : {"idle", "send", "swap", "signal", "drain", "join", "gone"},
                     todo : SUBSET Keys, key : Keys \union {<<>>}]
      /\ \/ owner'.pc = "send" /\ owner'.todo = Publishable(pool.generations, pool.jobs)
         \/ owner'.pc = "idle" /\ owner'.todo = {}
  BY <1>2, ZenonT(30) DEF DrainEnds, PoolInv, Types, OwnerInv, Publishing
<1>4. Publishing' BY <1>1, <1>3, Zenon DEF Publishing, Publishable, Retiring
<1> QED BY <1>1, <1>3, <1>4, OwnerMoves

LEMMA SwapWakeKeeps ==
  ASSUME PoolInv, SwapWake
  PROVE  PoolInv'
<1>1. \A v \in Workers : /\ channel'[v].commands = channel[v].commands /\ channel'[v].keys = channel[v].keys
                         /\ channel'[v].receiver = channel[v].receiver /\ channel'[v] \in Lanes
  <2>1. \A v \in Workers : channel[v] \in Lanes /\ channel'[v] \in {channel[v], [channel[v] EXCEPT !.wake = TRUE]}
    BY DEF SwapWake, PoolInv, Types
  <2> QED BY <2>1 DEF Lanes
<1>2. channel' \in [Workers -> Lanes] BY <1>1 DEF SwapWake, PoolInv, Types
<1>3. /\ owner' \in [pc : {"idle", "send", "swap", "signal", "drain", "join", "gone"},
                     todo : SUBSET Keys, key : Keys \union {<<>>}]
      /\ owner'.todo = owner.todo /\ owner'.key = owner.key /\ owner'.pc \in {"signal", "send"} /\ owner.pc = "swap"
  BY DEF SwapWake, PoolInv, Types
<1>4. UNCHANGED <<pool, worker, events, history, notified>> /\ notified \in BOOLEAN BY DEF SwapWake, PoolInv, Types
<1>5. Publishing' BY <1>3, <1>4 DEF PoolInv, OwnerInv, Publishing, Retiring
<1> QED BY <1>1, <1>2, <1>3, <1>4, <1>5, OwnerMoves

\* A reservation changes its flags, and loses none.
LEMMA FlagsMove ==
  ASSUME PoolInv, NEW k \in DOMAIN pool.generations, NEW r \in Reservation,
         r.worker = pool.generations[k].worker, pool.generations[k].retiring => r.retiring,
         pool.generations[k].sent => r.sent, r.sent => Retiring(k),
         pool' = [pool EXCEPT !.generations[k] = r]
  PROVE  /\ pool' \in [limits : Limits, spawned : Nat, jobs : [Workers -> Seq(Jobs)],
                       generations : UNION {[K -> Reservation] : K \in SUBSET Keys},
                       failure : {"none", "token", "acknowledgement", "worker"}]
         /\ pool'.limits = pool.limits /\ pool'.spawned = pool.spawned /\ pool'.jobs = pool.jobs
         /\ pool'.failure = pool.failure /\ DOMAIN pool'.generations = DOMAIN pool.generations
         /\ pool'.generations[k] = r
         /\ \A m \in DOMAIN pool.generations : m # k => pool'.generations[m] = pool.generations[m]
         /\ \A m : Retiring(m) => Retiring(m)'
         /\ \A m : Published(m) => Published(m)'
         /\ \A v \in Workers : Owned(v)' = Owned(v)
         /\ Homes'
<1>1. /\ pool \in [limits : Limits, spawned : Nat, jobs : [Workers -> Seq(Jobs)],
                   generations : UNION {[K -> Reservation] : K \in SUBSET Keys},
                   failure : {"none", "token", "acknowledgement", "worker"}]
      /\ DOMAIN pool.generations \subseteq Keys /\ pool.generations \in [DOMAIN pool.generations -> Reservation]
  BY GenerationTypes DEF PoolInv, Types
<1>2. /\ pool'.generations = [pool.generations EXCEPT ![k] = r]
      /\ pool'.limits = pool.limits /\ pool'.spawned = pool.spawned /\ pool'.jobs = pool.jobs
      /\ pool'.failure = pool.failure
  BY <1>1
<1>3. /\ DOMAIN pool'.generations = DOMAIN pool.generations /\ pool'.generations[k] = r
      /\ \A m \in DOMAIN pool.generations : m # k => pool'.generations[m] = pool.generations[m]
      /\ pool'.generations \in [DOMAIN pool.generations -> Reservation]
  BY <1>1, <1>2
<1>4. pool' \in [limits : Limits, spawned : Nat, jobs : [Workers -> Seq(Jobs)],
                 generations : UNION {[K -> Reservation] : K \in SUBSET Keys},
                 failure : {"none", "token", "acknowledgement", "worker"}]
  <2>1. [pool.generations EXCEPT ![k] = r] \in UNION {[K -> Reservation] : K \in SUBSET Keys}
    BY <1>1, GenerationTypes
  <2> HIDE DEF Reservation
  <2> QED BY <1>1, <2>1
<1>5. \A m : Retiring(m) => Retiring(m)' BY <1>2, <1>3 DEF Retiring
<1>6. \A m : Published(m) => Published(m)' BY <1>3, <1>5 DEF Published, Retiring
<1>7. \A v \in Workers : Owned(v)' = Owned(v) BY <1>3 DEF Owned
<1>8. \A m \in DOMAIN pool'.generations : pool'.generations[m].sent => Published(m)'
  BY <1>3, <1>5, <1>6 DEF PoolInv, OwnerInv, Homes, Published
<1>9. Homes'
  <2>1. \A m \in DOMAIN pool.generations : pool'.generations[m].worker = pool.generations[m].worker
    BY <1>3
  <2> QED BY <1>2, <1>3, <1>7, <1>8, <2>1 DEF PoolInv, OwnerInv, Homes
<1> QED BY <1>2, <1>3, <1>4, <1>5, <1>6, <1>7, <1>9

LEMMA RetireKeeps ==
  ASSUME PoolInv, NEW key \in pool.limits.keys, Retire(key)
  PROVE  PoolInv'
<1> DEFINE r == [pool.generations[key] EXCEPT !.retiring = TRUE]
           g == [pool.generations EXCEPT ![key].retiring = TRUE]
<1>1. /\ key \in DOMAIN pool.generations /\ UNCHANGED <<channel, worker, events, notified, history>>
      /\ owner' = [owner EXCEPT !.pc = "send", !.todo = Publishable(g, pool.jobs)]
      /\ pool' = [pool EXCEPT !.generations = g]
  BY DEF Retire
<1>2. /\ DOMAIN pool.generations \subseteq Keys /\ pool.generations \in [DOMAIN pool.generations -> Reservation]
  BY GenerationTypes DEF PoolInv, Types
<1>3. /\ r \in Reservation /\ r.worker = pool.generations[key].worker /\ r.retiring
      /\ r.sent = pool.generations[key].sent
  BY <1>1, <1>2 DEF Reservation
<1>4. pool' = [pool EXCEPT !.generations[key] = r]
  BY <1>1, <1>2 DEF PoolInv, Types
<1>5. r.sent => Retiring(key)
  BY <1>1, <1>3 DEF PoolInv, OwnerInv, Homes, Published
<1> HIDE DEF r
<1>6. /\ pool' \in [limits : Limits, spawned : Nat, jobs : [Workers -> Seq(Jobs)],
                    generations : UNION {[K -> Reservation] : K \in SUBSET Keys},
                    failure : {"none", "token", "acknowledgement", "worker"}]
      /\ pool'.limits = pool.limits /\ pool'.spawned = pool.spawned /\ pool'.jobs = pool.jobs
      /\ pool'.failure = pool.failure /\ DOMAIN pool'.generations = DOMAIN pool.generations
      /\ \A m : Published(m) => Published(m)'
      /\ \A v \in Workers : Owned(v)' = Owned(v)
      /\ Homes'
  BY <1>1, <1>3, <1>4, <1>5, FlagsMove
<1>7. pool'.generations = g BY <1>1 DEF PoolInv, Types
<1> HIDE DEF g
<1>8. Publishable(g, pool.jobs) \subseteq Keys BY <1>2, <1>6, <1>7 DEF Publishable
<1>9. /\ owner' \in [pc : {"idle", "send", "swap", "signal", "drain", "join", "gone"},
                     todo : SUBSET Keys, key : Keys \union {<<>>}]
      /\ owner'.pc = "send" /\ owner'.todo = Publishable(g, pool.jobs)
  BY <1>1, <1>8 DEF PoolInv, Types
<1>10. Publishing' BY <1>6, <1>7, <1>9 DEF Publishing, Publishable, Retiring
<1>11. Types' BY <1>1, <1>6, <1>9 DEF PoolInv, Types
<1>12. \A v \in Workers : WorkerInv(v)' BY <1>1, <1>6, WorkerUntouched
<1>13. OwnerInv' BY <1>1, <1>6, <1>10 DEF PoolInv, OwnerInv, Newer, OnlyWorkersFail
<1> QED BY <1>11, <1>12, <1>13 DEF PoolInv

\* The key that enters the mailbox is nowhere else yet.
LEMMA PublishKeyKeeps ==
  ASSUME PoolInv, PublishKey
  PROVE  PoolInv'
<1>1. PICK k \in owner.todo :
        /\ owner' = [pc |-> "swap", todo |-> owner.todo \ {k}, key |-> k]
        /\ pool' = [pool EXCEPT !.generations[k].sent = TRUE]
        /\ channel' = [channel EXCEPT ![pool.generations[k].worker].keys = @ \union {k}]
  BY DEF PublishKey
<1>2. UNCHANGED <<worker, events, notified, history>> BY DEF PublishKey
<1> DEFINE r == [pool.generations[k] EXCEPT !.sent = TRUE]
<1>3. Retiring(k) /\ ~pool.generations[k].sent /\ k \in DOMAIN pool.generations /\ k \in Keys
  BY DEF PoolInv, OwnerInv, Publishing, Retiring, Types
<1>4. DOMAIN pool.generations \subseteq Keys /\ pool.generations \in [DOMAIN pool.generations -> Reservation]
  BY GenerationTypes DEF PoolInv, Types
<1>5. /\ r \in Reservation /\ r.worker = pool.generations[k].worker /\ r.sent
      /\ r.retiring = pool.generations[k].retiring /\ pool.generations[k].worker \in Workers
  BY <1>3, <1>4 DEF Reservation
<1> PICK w \in Workers : w = pool.generations[k].worker BY <1>5
<1>6. pool' = [pool EXCEPT !.generations[k] = r]
  BY <1>1, <1>3, <1>4 DEF PoolInv, Types
<1> HIDE DEF r
<1>7. /\ pool' \in [limits : Limits, spawned : Nat, jobs : [Workers -> Seq(Jobs)],
                    generations : UNION {[K -> Reservation] : K \in SUBSET Keys},
                    failure : {"none", "token", "acknowledgement", "worker"}]
      /\ pool'.limits = pool.limits /\ pool'.spawned = pool.spawned /\ pool'.jobs = pool.jobs
      /\ pool'.failure = pool.failure /\ DOMAIN pool'.generations = DOMAIN pool.generations
      /\ pool'.generations[k] = r
      /\ \A m \in DOMAIN pool.generations : m # k => pool'.generations[m] = pool.generations[m]
      /\ \A m : Retiring(m) => Retiring(m)'
      /\ \A m : Published(m) => Published(m)'
      /\ \A v \in Workers : Owned(v)' = Owned(v)
      /\ Homes'
  BY <1>3, <1>5, <1>6, FlagsMove
<1>8. /\ channel[w] \in Lanes /\ channel'[w] = [channel[w] EXCEPT !.keys = @ \union {k}]
      /\ \A v \in Workers : v # w => channel'[v] = channel[v]
  BY <1>1, <1>5 DEF PoolInv, Types
<1>9. /\ channel'[w].keys = channel[w].keys \union {k} /\ channel'[w].commands = channel[w].commands
      /\ channel'[w].receiver = channel[w].receiver /\ channel'[w] \in Lanes
  BY <1>3, <1>8 DEF Lanes
<1>10. Types'
  <2>1. channel' \in [Workers -> Lanes] BY <1>1, <1>5, <1>9 DEF PoolInv, Types
  <2> QED BY <1>1, <1>2, <1>3, <1>7, <2>1 DEF PoolInv, Types
<1>11. Publishing'
  <2>1. owner'.pc = "swap" /\ owner'.todo = owner.todo \ {k} /\ owner'.key = k BY <1>1
  <2>2. \A m \in owner.todo \ {k} :
          /\ Retiring(m) /\ m \in DOMAIN pool.generations /\ ~pool.generations[m].sent
          /\ Retiring(m)' /\ ~pool'.generations[m].sent
    BY <1>7 DEF PoolInv, OwnerInv, Publishing, Retiring
  <2>3. k \in DOMAIN pool'.generations BY <1>3, <1>7
  <2> QED BY <2>1, <2>2, <2>3 DEF Publishing
<1>12. OwnerInv' BY <1>2, <1>7, <1>11 DEF PoolInv, OwnerInv, Newer, OnlyWorkersFail
<1>13. \A v \in Workers : v # w => WorkerInv(v)' BY <1>2, <1>7, <1>8, WorkerUntouched
<1>14. WorkerInv(w)'
  <2>1. WorkerInv(w) /\ k \in Owned(w) /\ ~Published(k) /\ Published(k)'
    BY <1>3, <1>5, <1>7, SMTT(20) DEF PoolInv, Owned, Published
  <2>2. RestingAt(w)' /\ FailureAt(w)'
    BY <1>2, <1>7, <1>9, <2>1 DEF WorkerInv, RestingAt, FailureAt
  <2>3. TokensAt(w)' BY <1>2, <1>7, <1>9, TokensUntouched
  <2>4. MailAt(w)'
    <3>1. MailAt(w) BY <2>1 DEF WorkerInv
    <3>2. Acknowledged(w)' = Acknowledged(w) /\ ReceiptsDistinct(w)'
      BY <1>2, <3>1 DEF MailAt, Acknowledged, ReceiptsDistinct
    <3>3. /\ Owned(w)' = Owned(w) /\ worker'[w] = worker[w] /\ channel'[w].keys = channel[w].keys \union {k}
          /\ \A m : Published(m) => Published(m)'
      BY <1>2, <1>7, <1>9
    <3> QED BY <2>1, <3>1, <3>2, <3>3 DEF MailAt
  <2> QED BY <2>2, <2>3, <2>4 DEF WorkerInv
<1> QED BY <1>10, <1>12, <1>13, <1>14 DEF PoolInv

\* A Wake is no token.
LEMMA WakeSent ==
  ASSUME PoolInv, NEW w \in Workers, UNCHANGED <<pool, worker, events>>,
         channel'[w].commands = Append(channel[w].commands, Wake)
  PROVE  TokensAt(w)'
<1>1. channel[w].commands \in Seq(Commands) /\ Wake \in Commands BY DEF PoolInv, Types, Lanes, Commands
<1>2. /\ DOMAIN channel'[w].commands = DOMAIN channel[w].commands \union {Len(channel[w].commands) + 1}
      /\ channel'[w].commands[Len(channel[w].commands) + 1] = Wake
      /\ \A i \in DOMAIN channel[w].commands : channel'[w].commands[i] = channel[w].commands[i]
  BY <1>1, AppendFacts
<1>3. Sent(w)' = Sent(w) BY <1>2 DEF Sent
<1>4. /\ Outstanding(w)' = Outstanding(w) /\ Pipeline(w)' = Pipeline(w) /\ Decoded(w)' = Decoded(w)
      /\ Aside(w)' = Aside(w)
  BY DEF Outstanding, Pipeline, Aside, Decoded, Holds, Busy
<1>5. StagesAt(w)' /\ ReportsSortedAt(w)'
  BY DEF PoolInv, WorkerInv, TokensAt, StagesAt, ReportsSortedAt, Busy
<1>6. SortedAt(w)' BY <1>2 DEF PoolInv, WorkerInv, TokensAt, SortedAt
<1>7. KeyedAt(w)' BY <1>2 DEF PoolInv, WorkerInv, TokensAt, KeyedAt, Holds, Busy
<1>8. StagedAt(w)' /\ ListedAt(w)'
  <2>1. StagedAt(w) /\ ListedAt(w) BY DEF PoolInv, WorkerInv, TokensAt
  <2>2. StagedAt(w)' BY <1>3, <1>4, <2>1 DEF StagedAt
  <2>3. UnderWay(w)' = UnderWay(w) BY <1>3, <1>4 DEF UnderWay
  <2> QED BY <1>4, <2>1, <2>2, <2>3 DEF ListedAt
<1> QED BY <1>5, <1>6, <1>7, <1>8 DEF TokensAt

LEMMA SignalWakeKeeps ==
  ASSUME PoolInv, SignalWake
  PROVE  PoolInv'
<1>1. UNCHANGED <<pool, worker, events, notified, history>> BY Zenon DEF SignalWake
<1>2. owner.pc = "signal" /\ owner.key \in DOMAIN pool.generations
  BY Zenon DEF SignalWake, PoolInv, OwnerInv, Publishing
<1>3. pool.generations[owner.key].worker \in Workers /\ pool.generations[owner.key].worker \in 1 .. pool.spawned
  <2>1. pool.generations \in [DOMAIN pool.generations -> Reservation] BY GenerationTypes DEF PoolInv, Types
  <2> QED BY <1>2, <2>1 DEF Reservation, PoolInv, OwnerInv, Homes
<1>4. PICK w \in Workers : w = pool.generations[owner.key].worker /\ w \in 1 .. pool.spawned BY <1>3
<1>5. /\ channel[w] \in Lanes /\ channel \in [Workers -> Lanes]
      /\ channel' = [channel EXCEPT
           ![w].wake = IF Full(w) THEN FALSE ELSE @,
           ![w].commands = IF channel[w].receiver /\ ~Full(w) THEN Append(@, Wake) ELSE @]
  BY <1>4 DEF SignalWake, PoolInv, Types
<1>6. /\ channel'[w].commands = IF channel[w].receiver /\ ~Full(w)
                                  THEN Append(channel[w].commands, Wake) ELSE channel[w].commands
      /\ channel'[w].keys = channel[w].keys /\ channel'[w].receiver = channel[w].receiver
      /\ \A v \in Workers : v # w => channel'[v] = channel[v]
  BY <1>5 DEF Lanes
<1>7. channel' \in [Workers -> Lanes]
  <2>1. channel[w].commands \in Seq(Commands) /\ Wake \in Commands BY <1>5 DEF Lanes, Commands
  <2>2. Append(channel[w].commands, Wake) \in Seq(Commands) BY <2>1, AppendFacts
  <2>3. (IF channel[w].receiver /\ ~Full(w) THEN Append(channel[w].commands, Wake) ELSE channel[w].commands)
          \in Seq(Commands)
    BY <2>1, <2>2
  <2>4. (IF Full(w) THEN FALSE ELSE channel[w].wake) \in BOOLEAN BY <1>5 DEF Lanes
  <2>5. channel'[w] = [channel[w] EXCEPT !.wake = IF Full(w) THEN FALSE ELSE @,
          !.commands = IF channel[w].receiver /\ ~Full(w) THEN Append(@, Wake) ELSE @]
    BY <1>5
  <2>6. channel'[w] \in Lanes BY <1>5, <2>3, <2>4, <2>5 DEF Lanes
  <2> QED BY <1>5, <2>6
<1>8. /\ owner' \in [pc : {"idle", "send", "swap", "signal", "drain", "join", "gone"},
                     todo : SUBSET Keys, key : Keys \union {<<>>}]
      /\ owner'.todo = owner.todo /\ owner'.pc = "send"
  BY DEF SignalWake, PoolInv, Types
<1>9. Publishing' BY <1>1, <1>8 DEF PoolInv, OwnerInv, Publishing, Retiring
<1>10. Types' BY <1>1, <1>7, <1>8 DEF PoolInv, Types
<1>11. OwnerInv'
  BY <1>1, <1>9 DEF PoolInv, OwnerInv, Homes, Published, Retiring, Owned, Newer, OnlyWorkersFail
<1>12. (\A k : Published(k)' <=> Published(k)) /\ \A v \in Workers : Owned(v)' = Owned(v)
  BY <1>1 DEF Published, Retiring, Owned
<1>13. \A v \in Workers : v # w => WorkerInv(v)' BY <1>1, <1>6, <1>12, WorkerUntouched
<1>14. WorkerInv(w)'
  <2>1. CASE channel'[w].commands = channel[w].commands BY <1>1, <1>6, <1>12, <2>1, WorkerUntouched
  <2>2. CASE channel[w].receiver /\ channel'[w].commands = Append(channel[w].commands, Wake)
    <3>1. TokensAt(w)' BY <1>1, <2>2, WakeSent
    <3>2. RestingAt(w)'
      <4>1. ~(w > pool.spawned) BY <1>4 DEF PoolInv, Types
      <4>2. RestingAt(w) BY DEF PoolInv, WorkerInv
      <4> QED BY <1>1, <1>6, <2>2, <4>1, <4>2 DEF RestingAt
    <3>3. MailAt(w)' BY <1>1, <1>6, MailStays DEF Reporting
    <3>4. FailureAt(w)' BY <1>1 DEF PoolInv, WorkerInv, FailureAt
    <3> QED BY <3>1, <3>2, <3>3, <3>4 DEF WorkerInv
  <2> QED BY <1>6, <2>1, <2>2
<1> QED BY <1>10, <1>11, <1>13, <1>14 DEF PoolInv

\* The worker that gets a new stream is spawned, or the next one.
LEMMA AssignedWorker ==
  ASSUME PoolInv, NEW w \in Assignable
  PROVE  w \in Workers /\ w \in Nat /\ w <= pool.limits.workers /\ w <= pool.spawned + 1
<1>1. /\ pool.spawned \in Nat /\ pool.limits.workers \in Nat /\ pool.spawned <= pool.limits.workers
      /\ 1 .. pool.limits.workers \subseteq Workers
  BY LimitFacts DEF PoolInv, Types, OwnerInv
<1>2. w \in 1 .. pool.spawned \/ (w = pool.spawned + 1 /\ pool.spawned < pool.limits.workers)
  BY DEF Assignable
<1> QED BY <1>1, <1>2

\* The newest job takes the last place in the owner's list and in the channel.
LEMMA JobSubmitted ==
  ASSUME PoolInv, NEW w \in Workers, NEW key \in Keys, NEW token, token = history.tokens + 1,
         channel[w].receiver, Len(pool.jobs[w]) < pool.limits.depth,
         channel'[w].commands = Append(channel[w].commands, Decode(token, key)),
         pool'.jobs[w] = Append(pool.jobs[w], [token |-> token, key |-> key]),
         pool'.limits = pool.limits, events' = events,
         worker'[w].pending = worker[w].pending, worker'[w].received = worker[w].received,
         worker'[w].command = worker[w].command, worker'[w].then = worker[w].then,
         worker'[w].pc = worker[w].pc \/ (worker[w].pc = "absent" /\ worker'[w].pc = "init")
  PROVE  TokensAt(w)'
<1> DEFINE c == Decode(token, key)  j == [token |-> token, key |-> key]
<1>1. /\ c \in Commands /\ c # Wake /\ c.token = token /\ c.key = key
      /\ j \in Jobs /\ j.token = token /\ j.key = key /\ token \in Nat
  BY DEF PoolInv, Types, Commands, Jobs, Decode, Wake
<1>2. /\ channel[w].commands \in Seq(Commands) /\ pool.jobs[w] \in Seq(Jobs)
  BY DEF PoolInv, Types, Lanes
<1> HIDE DEF c, j
<1>3. channel'[w].commands = Append(channel[w].commands, c) /\ pool'.jobs[w] = Append(pool.jobs[w], j)
  BY DEF c, j
<1>4. /\ DOMAIN channel'[w].commands = DOMAIN channel[w].commands \union {Len(channel[w].commands) + 1}
      /\ channel'[w].commands[Len(channel[w].commands) + 1] = c
      /\ \A i \in DOMAIN channel[w].commands :
           channel'[w].commands[i] = channel[w].commands[i] /\ i \in Nat /\ i < Len(channel[w].commands) + 1
      /\ Len(channel[w].commands) \in Nat
  BY <1>1, <1>2, <1>3, AppendFacts
<1>5. /\ DOMAIN pool'.jobs[w] = DOMAIN pool.jobs[w] \union {Len(pool.jobs[w]) + 1}
      /\ pool'.jobs[w][Len(pool.jobs[w]) + 1] = j
      /\ \A i \in DOMAIN pool.jobs[w] :
           pool'.jobs[w][i] = pool.jobs[w][i] /\ i \in Nat /\ i < Len(pool.jobs[w]) + 1
      /\ Len(pool.jobs[w]) \in Nat /\ Len(pool'.jobs[w]) = Len(pool.jobs[w]) + 1
  BY <1>1, <1>2, <1>3, AppendFacts
<1>6. Outstanding(w)' = Outstanding(w) \union {token}
  <2>1. token \in Outstanding(w)' /\ Outstanding(w) \subseteq Outstanding(w)'
    BY <1>1, <1>5, ZenonT(20) DEF Outstanding
  <2>2. Outstanding(w)' \subseteq Outstanding(w) \union {token} BY <1>1, <1>5 DEF Outstanding
  <2> QED BY <2>1, <2>2
<1>7. Sent(w)' = Sent(w) \union {token}
  <2>1. token \in Sent(w)' /\ Sent(w) \subseteq Sent(w)' BY <1>1, <1>4, SMTT(20) DEF Sent
  <2>2. Sent(w)' \subseteq Sent(w) \union {token} BY <1>1, <1>4, SMTT(20) DEF Sent
  <2> QED BY <2>1, <2>2
<1>8. worker[w].pc # "exited" /\ worker'[w].pc # "exited"
  BY DEF PoolInv, WorkerInv, RestingAt
<1>9. /\ Busy(w)' <=> Busy(w)
      /\ Holds(w)' <=> Holds(w)
  BY DEF Holds, Busy, PoolInv, WorkerInv, RestingAt
<1>10. Pipeline(w)' = Pipeline(w) /\ Decoded(w)' = Decoded(w) /\ Aside(w)' = Aside(w)
  BY <1>9 DEF Pipeline, Decoded, Aside
<1>11. \A t \in Outstanding(w) : t \in Nat /\ t < token
  <2>1. \A i \in DOMAIN pool.jobs[w] : pool.jobs[w][i].token <= history.tokens
    BY DEF PoolInv, OwnerInv, Newer
  <2>2. \A t \in Outstanding(w) : t <= history.tokens /\ t \in Nat
    BY <2>1, TokensAreNaturals DEF Outstanding
  <2> QED BY <2>2 DEF PoolInv, Types
<1>12. StagedAt(w) /\ ListedAt(w) /\ SortedAt(w) /\ ReportsSortedAt(w) /\ KeyedAt(w) /\ StagesAt(w)
  BY DEF PoolInv, WorkerInv, TokensAt
<1>13. UnderWay(w) \subseteq Outstanding(w) /\ Outstanding(w) \subseteq UnderWay(w)
  BY <1>8, <1>12 DEF ListedAt
<1>14. StagedAt(w)'
  <2>1. \A t \in Decoded(w) \union Pipeline(w) \union Aside(w) : t < token
    BY <1>11, <1>13 DEF UnderWay
  <2> QED BY <1>7, <1>10, <1>12, <2>1 DEF StagedAt, Staged, Before
<1>15. ListedAt(w)'
  BY <1>6, <1>7, <1>10, <1>11, <1>12, <1>13 DEF ListedAt, UnderWay, Before
<1>16. KeyedAt(w)'
  <2>1. ASSUME NEW x, x.token \in Outstanding(w), Matches(x, pool.jobs[w]) PROVE Matches(x, pool'.jobs[w])
    <3>1. x.token # j.token BY <1>1, <1>11, <2>1
    <3>2. \A i \in DOMAIN pool'.jobs[w] : i \in DOMAIN pool.jobs[w] \/ pool'.jobs[w][i] = j BY <1>5
    <3>3. \A i \in DOMAIN pool.jobs[w] : pool'.jobs[w][i] = pool.jobs[w][i] BY <1>5
    <3> QED BY <2>1, <3>1, <3>2, <3>3 DEF Matches
  <2>2. Matches(c, pool'.jobs[w])
    <3>1. \A i \in DOMAIN pool.jobs[w] : pool.jobs[w][i].token \in Outstanding(w) BY DEF Outstanding
    <3> QED BY <1>1, <1>5, <1>11, <3>1, SMTT(20) DEF Matches
  <2>3. \A i \in DOMAIN channel[w].commands :
          channel[w].commands[i] # Wake => channel[w].commands[i].token \in Outstanding(w)
    BY <1>13 DEF UnderWay, Sent
  <2>4. \A i \in DOMAIN worker[w].received : worker[w].received[i].token \in Outstanding(w)
    BY <1>13 DEF UnderWay, Aside
  <2>5. Holds(w) => worker[w].command.token \in Outstanding(w)
    BY <1>13 DEF UnderWay, Aside
  <2> QED BY <1>4, <1>9, <1>12, <2>1, <2>2, <2>3, <2>4, <2>5 DEF KeyedAt
<1>17. SortedAt(w)'
  <2>1. \A i \in DOMAIN channel[w].commands :
          channel[w].commands[i] # Wake => channel[w].commands[i].token < token
    BY <1>11, <1>13 DEF UnderWay, Sent
  <2>2. \A i \in DOMAIN pool.jobs[w] : pool.jobs[w][i].token < token
    BY <1>11 DEF Outstanding
  <2>3. \A i, k \in DOMAIN pool'.jobs[w] : i < k => pool'.jobs[w][i].token < pool'.jobs[w][k].token
    BY <1>1, <1>5, <1>12, <2>2, SMTT(20) DEF SortedAt
  <2>4. \A i, k \in DOMAIN channel'[w].commands :
          i < k /\ channel'[w].commands[i] # Wake /\ channel'[w].commands[k] # Wake =>
            channel'[w].commands[i].token < channel'[w].commands[k].token
    <3>1. TAKE i, k \in DOMAIN channel'[w].commands
    <3>2. HAVE i < k /\ channel'[w].commands[i] # Wake /\ channel'[w].commands[k] # Wake
    <3>3. i \in DOMAIN channel[w].commands BY <1>4, <3>1, <3>2
    <3>4. CASE k \in DOMAIN channel[w].commands
      <4>1. channel'[w].commands[i] = channel[w].commands[i] /\ channel'[w].commands[k] = channel[w].commands[k]
        BY <1>4, <3>3, <3>4
      <4> QED BY <1>12, <3>2, <3>3, <3>4, <4>1 DEF SortedAt
    <3>5. CASE channel'[w].commands[k] = c
      <4>1. channel'[w].commands[i] = channel[w].commands[i] BY <1>4, <3>3
      <4> QED BY <1>1, <2>1, <3>2, <3>3, <3>5, <4>1
    <3> QED BY <1>4, <3>1, <3>4, <3>5
  <2> QED BY <1>12, <2>3, <2>4 DEF SortedAt
<1>18. ReportsSortedAt(w)' BY <1>12 DEF ReportsSortedAt
<1>19. StagesAt(w)'
  <2>1. Len(pool'.jobs[w]) <= pool'.limits.depth
    <3>1. pool.limits.depth \in 1 .. 2 BY LimitFacts DEF PoolInv, Types
    <3> QED BY <1>5, <3>1
  <2>2. worker[w].pc = "absent" => worker[w].received = <<>> BY DEF PoolInv, WorkerInv, RestingAt
  <2> QED BY <1>9, <1>12, <2>1, <2>2 DEF StagesAt
<1> QED BY <1>14, <1>15, <1>16, <1>17, <1>18, <1>19 DEF TokensAt

\* The worker of a job; its generation is new or has its reservation already.
Chosen(key, w) == IF Home(key) = {} THEN w \in Assignable ELSE w \in Home(key)
Charges(g, key, w) ==
  /\ DOMAIN g = DOMAIN pool.generations \union {key} /\ DOMAIN g \subseteq Keys
  /\ g \in [DOMAIN g -> Reservation]
  /\ \A k \in DOMAIN pool.generations : g[k] = pool.generations[k]
  /\ g[key].worker = w /\ ~g[key].retiring /\ ~g[key].sent
  /\ \A k, m \in DOMAIN g : k[1] = m[1] => g[k].worker = g[m].worker
  /\ w <= pool.spawned + 1

LEMMA GenerationCharged ==
  ASSUME PoolInv, NEW key \in Keys, NEW w \in Workers, Admits(key),
         Chosen(key, w), NEW g, g = Charged(pool.generations, key, w)
  PROVE  Charges(g, key, w)
<1> DEFINE r == [worker |-> w, retiring |-> FALSE, sent |-> FALSE]
<1>1. DOMAIN pool.generations \subseteq Keys /\ pool.generations \in [DOMAIN pool.generations -> Reservation]
  BY GenerationTypes DEF PoolInv, Types
<1>2. r \in Reservation /\ r.worker = w /\ ~r.retiring /\ ~r.sent BY DEF Reservation
<1>3. /\ DOMAIN g = DOMAIN pool.generations \union {key} /\ g[key] = r
      /\ \A k \in DOMAIN pool.generations : k # key => g[k] = pool.generations[k]
  BY DEF Charged
<1>4. ASSUME key \in DOMAIN pool.generations PROVE pool.generations[key] = r
  <2>1. pool.generations[key] \in Reservation BY <1>1, <1>4
  <2>2. ~pool.generations[key].retiring BY <1>4 DEF Admits
  <2>3. ~pool.generations[key].sent
    BY <1>4, <2>2 DEF PoolInv, OwnerInv, Homes, Published, Retiring
  <2>4. pool.generations[key].worker = w
    <3>1. w \in Home(key) BY <1>4 DEF Home, Chosen
    <3> QED BY <1>4, <3>1 DEF Home, PoolInv, OwnerInv, Homes
  <2> HIDE DEF r
  <2>5. pool.generations[key].worker = r.worker /\ pool.generations[key].retiring = r.retiring
        /\ pool.generations[key].sent = r.sent
    BY <1>2, <2>1, <2>2, <2>3, <2>4 DEF Reservation
  <2> QED BY <1>2, <2>1, <2>5 DEF Reservation
<1> HIDE DEF r
<1>5. \A k \in DOMAIN pool.generations : g[k] = pool.generations[k] BY <1>3, <1>4
<1>6. \A m \in DOMAIN pool.generations : m[1] = key[1] => pool.generations[m].worker = w
  <2>1. SUFFICES ASSUME NEW m \in DOMAIN pool.generations, m[1] = key[1] PROVE pool.generations[m].worker = w
    OBVIOUS
  <2>2. w \in Home(key) BY <2>1 DEF Home, Chosen
  <2>3. PICK k \in DOMAIN pool.generations : k[1] = key[1] /\ w = pool.generations[k].worker BY <2>2 DEF Home
  <2> QED BY <2>1, <2>3 DEF PoolInv, OwnerInv, Homes
<1>7. \A k, m \in DOMAIN g : k[1] = m[1] => g[k].worker = g[m].worker
  <2>1. \A k, m \in DOMAIN pool.generations :
          k[1] = m[1] => pool.generations[k].worker = pool.generations[m].worker
    BY DEF PoolInv, OwnerInv, Homes
  <2> QED BY <1>2, <1>3, <1>5, <1>6, <2>1
<1>8. w <= pool.spawned + 1
  <2>1. CASE w \in Assignable BY <2>1, AssignedWorker
  <2>2. CASE w \in Home(key)
    BY <2>2 DEF Home, PoolInv, Types, OwnerInv, Homes
  <2> QED BY <2>1, <2>2 DEF Chosen
<1>9. g \in [DOMAIN g -> Reservation]
  <2>1. \A k \in DOMAIN g : g[k] \in Reservation BY <1>1, <1>2, <1>3, <1>5
  <2>2. g = [k \in DOMAIN g |-> g[k]] BY DEF Charged
  <2> QED BY <2>1, <2>2
<1> QED BY <1>1, <1>2, <1>3, <1>5, <1>7, <1>8, <1>9 DEF Charges

LEMMA TryDecodeKeeps ==
  ASSUME PoolInv, NEW key \in pool.limits.keys, TryDecode(key)
  PROVE  PoolInv'
<1>1. PICK token \in Nat : token = history.tokens + 1 BY DEF PoolInv, Types
<1>2. key \in Keys BY LimitFacts DEF PoolInv, Types
<1>3. PICK w : /\ Chosen(key, w)
               /\ HasSlot(w) /\ channel[w].receiver
               /\ channel' = [channel EXCEPT ![w].commands = Append(@, Decode(token, key))]
               /\ pool' = [pool EXCEPT
                    !.spawned = IF w > @ THEN w ELSE @,
                    !.jobs[w] = Append(@, [token |-> token, key |-> key]),
                    !.generations = Charged(@, key, w)]
               /\ worker' = IF w > pool.spawned THEN [worker EXCEPT ![w].pc = "init"] ELSE worker
  BY <1>1, Zenon DEF TryDecode, Chosen
<1>4. /\ Admits(key) /\ owner.pc = "idle" /\ pool.failure = "none"
      /\ history' = [history EXCEPT !.tokens = token] /\ UNCHANGED <<owner, events, notified>>
  BY <1>1 DEF TryDecode
<1>5. w \in Workers
  <2>1. CASE w \in Assignable BY <2>1, AssignedWorker
  <2>2. CASE w \in Home(key)
    <3>1. pool.generations \in [DOMAIN pool.generations -> Reservation] BY GenerationTypes DEF PoolInv, Types
    <3> QED BY <2>2, <3>1 DEF Home, Reservation
  <2> QED BY <1>3, <2>1, <2>2 DEF Chosen
<1> PICK g : g = Charged(pool.generations, key, w) OBVIOUS
<1>6. /\ DOMAIN g = DOMAIN pool.generations \union {key} /\ DOMAIN g \subseteq Keys
      /\ g \in [DOMAIN g -> Reservation]
      /\ \A k \in DOMAIN pool.generations : g[k] = pool.generations[k]
      /\ g[key].worker = w /\ ~g[key].retiring /\ ~g[key].sent
      /\ \A k, m \in DOMAIN g : k[1] = m[1] => g[k].worker = g[m].worker
      /\ w <= pool.spawned + 1
  <2>1. Admits(key) BY <1>4
  <2>2. Chosen(key, w) BY <1>3
  <2>3. Charges(g, key, w) BY <1>2, <1>5, <2>1, <2>2, GenerationCharged
  <2> QED BY <2>3 DEF Charges
<1>7. [token |-> token, key |-> key] \in Jobs /\ Decode(token, key) \in Commands
  BY <1>2 DEF Jobs, Commands, Decode
<1>8. /\ pool \in [limits : Limits, spawned : Nat, jobs : [Workers -> Seq(Jobs)],
                   generations : UNION {[K -> Reservation] : K \in SUBSET Keys},
                   failure : {"none", "token", "acknowledgement", "worker"}]
      /\ channel \in [Workers -> Lanes] /\ worker \in [Workers -> Threads] /\ w \in Nat
      /\ history \in [tokens : Nat, failures : Nat, last : [Streams -> Nat]]
  BY <1>5, LimitFacts DEF PoolInv, Types
<1>9. /\ pool'.limits = pool.limits /\ pool'.failure = pool.failure /\ pool'.generations = g
      /\ pool'.spawned = IF w > pool.spawned THEN w ELSE pool.spawned
      /\ pool'.jobs[w] = Append(pool.jobs[w], [token |-> token, key |-> key])
      /\ \A v \in Workers : v # w => pool'.jobs[v] = pool.jobs[v]
      /\ pool'.jobs \in [Workers -> Seq(Jobs)]
      /\ pool' = [limits |-> pool.limits, spawned |-> pool'.spawned, jobs |-> pool'.jobs,
                  generations |-> g, failure |-> pool.failure]
  <2>1. Append(pool.jobs[w], [token |-> token, key |-> key]) \in Seq(Jobs) BY <1>5, <1>7, <1>8, AppendFacts
  <2>2. pool'.jobs = [pool.jobs EXCEPT ![w] = Append(@, [token |-> token, key |-> key])] BY <1>3, <1>8
  <2>3. /\ pool'.limits = pool.limits /\ pool'.failure = pool.failure /\ pool'.generations = g
        /\ pool'.spawned = IF w > pool.spawned THEN w ELSE pool.spawned
        /\ pool' = [limits |-> pool.limits, spawned |-> pool'.spawned, jobs |-> pool'.jobs,
                    generations |-> g, failure |-> pool.failure]
    BY <1>3, <1>8
  <2> QED BY <1>5, <1>8, <2>1, <2>2, <2>3
<1>10. /\ channel[w] \in Lanes /\ channel'[w] = [channel[w] EXCEPT !.commands = Append(@, Decode(token, key))]
       /\ \A v \in Workers : v # w => channel'[v] = channel[v] /\ worker'[v] = worker[v]
       /\ worker[w] \in Threads
       /\ worker'[w] = IF w > pool.spawned THEN [worker[w] EXCEPT !.pc = "init"] ELSE worker[w]
  BY <1>3, <1>5, <1>8
<1>11. /\ channel'[w].commands = Append(channel[w].commands, Decode(token, key))
       /\ channel'[w].receiver = channel[w].receiver /\ channel'[w].keys = channel[w].keys
       /\ channel'[w] \in Lanes
  <2>1. Append(channel[w].commands, Decode(token, key)) \in Seq(Commands)
    BY <1>7, <1>10, AppendFacts DEF Lanes
  <2> QED BY <1>10, <2>1 DEF Lanes
<1>12. RestingAt(w) BY <1>5 DEF PoolInv, WorkerInv
<1>13. /\ worker'[w].pending = worker[w].pending /\ worker'[w].received = worker[w].received
       /\ worker'[w].command = worker[w].command /\ worker'[w].then = worker[w].then
       /\ worker'[w].acks = worker[w].acks /\ worker'[w].contexts = worker[w].contexts
       /\ worker'[w] \in Threads
       /\ worker'[w].pc = worker[w].pc \/ (worker[w].pc = "absent" /\ worker'[w].pc = "init")
  BY <1>10, <1>12 DEF Threads, RestingAt
<1>14. TokensAt(w)'
  <2>1. channel[w].receiver /\ Len(pool.jobs[w]) < pool.limits.depth BY <1>3 DEF HasSlot
  <2>2. /\ pool'.jobs[w] = Append(pool.jobs[w], [token |-> token, key |-> key])
        /\ pool'.limits = pool.limits /\ events' = events
    BY <1>4, <1>9
  <2>3. channel'[w].commands = Append(channel[w].commands, Decode(token, key)) BY <1>11
  <2> QED BY <1>1, <1>2, <1>5, <1>13, <2>1, <2>2, <2>3, JobSubmitted
<1>15. Types'
  <2>1. channel' \in [Workers -> Lanes] /\ worker' \in [Workers -> Threads] BY <1>3, <1>5, <1>8, <1>11, <1>13
  <2>2. g \in UNION {[K -> Reservation] : K \in SUBSET Keys} BY <1>6, GenerationTypes
  <2>3. pool'.spawned \in Nat BY <1>8, <1>9
  <2>4. pool' \in [limits : Limits, spawned : Nat, jobs : [Workers -> Seq(Jobs)],
                   generations : UNION {[K -> Reservation] : K \in SUBSET Keys},
                   failure : {"none", "token", "acknowledgement", "worker"}]
    BY <1>8, <1>9, <2>2, <2>3
  <2> QED BY <1>1, <1>4, <2>1, <2>4 DEF PoolInv, Types
<1>16. /\ \A v \in Workers : v # w => Owned(v)' = Owned(v)
       /\ Owned(w) \subseteq Owned(w)' /\ key \in Owned(w)'
  BY <1>6, <1>9 DEF Owned
<1>17. DOMAIN pool'.jobs[w] = DOMAIN pool.jobs[w] \union {Len(pool.jobs[w]) + 1}
       /\ pool'.jobs[w][Len(pool.jobs[w]) + 1].key = key /\ pool'.jobs[w][Len(pool.jobs[w]) + 1].token = token
       /\ \A i \in DOMAIN pool.jobs[w] : pool'.jobs[w][i] = pool.jobs[w][i]
  <2>1. pool.jobs[w] \in Seq(Jobs) BY <1>5, <1>8
  <2> QED BY <1>7, <1>9, <2>1, AppendFacts
<1>18. \A v \in Workers : \A i \in DOMAIN pool'.jobs[v] :
         \/ i \in DOMAIN pool.jobs[v] /\ pool'.jobs[v][i] = pool.jobs[v][i]
         \/ v = w /\ pool'.jobs[v][i].key = key /\ pool'.jobs[v][i].token = token
  BY <1>9, <1>17
<1>19. \A k : Published(k) => Published(k)'
  <2>1. SUFFICES ASSUME NEW k, Published(k) PROVE Published(k)' OBVIOUS
  <2>2. k \in DOMAIN pool.generations /\ k # key /\ pool.generations[k].retiring /\ pool.generations[k].sent
        /\ g[k] = pool.generations[k] /\ pool.generations[k].worker \in Workers
    <3>1. pool.generations \in [DOMAIN pool.generations -> Reservation] BY GenerationTypes DEF PoolInv, Types
    <3> QED BY <1>4, <1>6, <2>1, <3>1 DEF Published, Retiring, Admits, Reservation
  <2> QED BY <1>6, <1>9, <1>18, <2>1, <2>2 DEF Published, Retiring
<1>20. Homes'
  <2>1. \A k \in DOMAIN pool'.generations : pool'.generations[k].worker \in 1 .. pool'.spawned
    <3>1. w \in 1 .. pool'.spawned BY <1>5, <1>8, <1>9, LimitFacts
    <3>2. \A k \in DOMAIN pool.generations : pool.generations[k].worker \in 1 .. pool'.spawned
      BY <1>8, <1>9 DEF PoolInv, OwnerInv, Homes
    <3> QED BY <1>6, <1>9, <3>1, <3>2
  <2>2. \A k \in DOMAIN pool'.generations : pool'.generations[k].sent => Published(k)'
    BY <1>6, <1>9, <1>19 DEF PoolInv, OwnerInv, Homes
  <2>3. \A v \in Workers : \A i \in DOMAIN pool'.jobs[v] : pool'.jobs[v][i].key \in Owned(v)'
    BY <1>16, <1>18 DEF PoolInv, OwnerInv, Homes
  <2> QED BY <1>6, <1>9, <2>1, <2>2, <2>3 DEF Homes
<1>21. Newer'
  <2>1. history'.last = history.last /\ history'.tokens = token /\ history.tokens \in Nat
        /\ history.last \in [Streams -> Nat]
    BY <1>1, <1>4, <1>8
  <2>2. key[1] \in Streams BY <1>2, LimitFacts
  <2>3. Newer BY DEF PoolInv, OwnerInv
  <2>4. \A s \in Streams : history.last[s] < token BY <1>1, <2>1, <2>3 DEF Newer
  <2>5. \A v \in Workers : \A i \in DOMAIN pool'.jobs[v] :
          /\ history.last[pool'.jobs[v][i].key[1]] < pool'.jobs[v][i].token
          /\ pool'.jobs[v][i].token <= token
    <3>1. SUFFICES ASSUME NEW v \in Workers, NEW i \in DOMAIN pool'.jobs[v]
                   PROVE  /\ history.last[pool'.jobs[v][i].key[1]] < pool'.jobs[v][i].token
                          /\ pool'.jobs[v][i].token <= token
      OBVIOUS
    <3>2. CASE i \in DOMAIN pool.jobs[v] /\ pool'.jobs[v][i] = pool.jobs[v][i]
      <4>1. pool.jobs[v][i] \in Jobs BY <1>8, <3>2
      <4>2. pool.jobs[v][i].token \in Nat BY <4>1 DEF Jobs
      <4> QED BY <1>1, <2>1, <2>3, <3>2, <4>2 DEF Newer
    <3>3. CASE pool'.jobs[v][i].key = key /\ pool'.jobs[v][i].token = token
      BY <2>2, <2>4, <3>3
    <3> QED BY <1>18, <3>2, <3>3
  <2> QED BY <2>1, <2>4, <2>5 DEF Newer
<1>22. OwnerInv'
  <2>1. Publishing' BY <1>4 DEF PoolInv, OwnerInv, Publishing
  <2>2. pool'.spawned <= pool'.limits.workers
    <3>1. CASE w \in Assignable BY <1>8, <1>9, <3>1, AssignedWorker DEF PoolInv, OwnerInv
    <3>2. CASE w \in Home(key)
      <4>1. w <= pool.spawned BY <1>8, <3>2 DEF Home, PoolInv, OwnerInv, Homes
      <4> QED BY <1>8, <1>9, <4>1 DEF PoolInv, OwnerInv
    <3> QED BY <1>3, <3>1, <3>2 DEF Chosen
  <2>3. OnlyWorkersFail' BY <1>4, <1>9 DEF OnlyWorkersFail
  <2> QED BY <1>20, <1>21, <2>1, <2>2, <2>3 DEF OwnerInv
<1>23. history'.failures = history.failures BY <1>4, <1>8
<1>24. \A v \in Workers : v # w => WorkerInv(v)'
  <2>1. SUFFICES ASSUME NEW v \in Workers, v # w PROVE WorkerInv(v)' OBVIOUS
  <2>2. v > pool'.spawned => v > pool.spawned BY <1>8, <1>9, LimitFacts
  <2> QED BY <1>4, <1>9, <1>10, <1>16, <1>19, <1>23, <2>1, <2>2, WorkerUntouched
<1>25. WorkerInv(w)'
  <2>1. ~(w > pool'.spawned) BY <1>8, <1>9
  <2>2. worker'[w].pc # "exited" BY <1>3, <1>12, <1>13 DEF RestingAt
  <2>3. RestingAt(w)' BY <1>12, <1>13, <2>1, <2>2 DEF RestingAt
  <2>4. MailAt(w)'
    <3>1. MailAt(w) BY <1>5 DEF PoolInv, WorkerInv
    <3>2. Acknowledged(w)' = Acknowledged(w) /\ ReceiptsDistinct(w)'
      BY <1>4, <3>1 DEF MailAt, Acknowledged, ReceiptsDistinct
    <3> QED BY <1>11, <1>13, <1>16, <1>19, <3>1, <3>2 DEF MailAt
  <2>5. FailureAt(w)'
    <3>1. FailureAt(w) /\ worker[w].pc # "exited" BY <1>3, <1>5, <1>12 DEF PoolInv, WorkerInv, RestingAt
    <3> QED BY <1>4, <3>1 DEF FailureAt
  <2> QED BY <1>14, <2>3, <2>4, <2>5 DEF WorkerInv
<1> QED BY <1>15, <1>22, <1>24, <1>25 DEF PoolInv

\* A worker that fails as it is spawned has no job.
LEMMA SpawnFailsKeeps ==
  ASSUME PoolInv, NEW key \in pool.limits.keys, SpawnFails(key)
  PROVE  PoolInv'
<1>1. PICK w \in Assignable : /\ w > pool.spawned /\ pool' = [pool EXCEPT !.spawned = w]
                              /\ Exit(w) /\ Emit([kind |-> "failed", worker |-> w])
  BY DEF SpawnFails
<1>2. /\ owner' = owner /\ history' = [history EXCEPT !.failures = @ + 1]
      /\ history'.failures > 0 /\ history'.last = history.last /\ history'.tokens = history.tokens
      /\ history' \in [tokens : Nat, failures : Nat, last : [Streams -> Nat]]
  <2>1. owner' = owner /\ history' = [history EXCEPT !.failures = @ + 1] BY DEF SpawnFails
  <2>2. history \in [tokens : Nat, failures : Nat, last : [Streams -> Nat]] BY DEF PoolInv, Types
  <2> QED BY <2>1, <2>2
<1>3. w \in Workers /\ w \in Nat /\ w <= pool.limits.workers BY AssignedWorker
<1>4. /\ pool'.limits = pool.limits /\ pool'.jobs = pool.jobs /\ pool'.generations = pool.generations
      /\ pool'.failure = pool.failure /\ pool'.spawned = w /\ pool.spawned \in Nat
      /\ pool' \in [limits : Limits, spawned : Nat, jobs : [Workers -> Seq(Jobs)],
                    generations : UNION {[K -> Reservation] : K \in SUBSET Keys},
                    failure : {"none", "token", "acknowledgement", "worker"}]
  <2> HIDE DEF Reservation
  <2>1. pool \in [limits : Limits, spawned : Nat, jobs : [Workers -> Seq(Jobs)],
                  generations : UNION {[K -> Reservation] : K \in SUBSET Keys},
                  failure : {"none", "token", "acknowledgement", "worker"}]
    BY DEF PoolInv, Types
  <2>2. pool' = [pool EXCEPT !.spawned = w] BY <1>1
  <2> QED BY <1>3, <2>1, <2>2
<1> PICK e : e = [kind |-> "failed", worker |-> w] OBVIOUS
<1>5. e \in Reports /\ e.kind = "failed" /\ e.worker = w BY <1>3 DEF Reports
<1>6. events' = Append(events, e) /\ notified' = TRUE BY <1>1 DEF Emit
<1>7. Reporting(w, {"decoded"}) /\ Reporting(w, {"retired"}) BY <1>5, <1>6 DEF Reporting
<1>8. /\ RestingAt(w)' /\ TokensAt(w)' /\ worker'[w].pc = "exited"
      /\ worker' \in [Workers -> Threads] /\ channel' \in [Workers -> Lanes]
      /\ \A v \in Workers \ {w} : worker'[v] = worker[v] /\ channel'[v] = channel[v]
      /\ channel'[w].keys = channel[w].keys /\ worker'[w].acks = {} /\ worker'[w].contexts = {}
  <2>1. ~(w > pool'.spawned) BY <1>3, <1>4
  <2>2. Exit(w) BY <1>1
  <2> QED BY <1>3, <1>4, <1>7, <2>1, <2>2, ExitEnds
<1>9. MailAt(w)' BY <1>3, <1>4, <1>7, <1>8, MailStays
<1>10. FailureAt(w)'
  <2>1. worker[w].pc # "exited" BY <1>1, <1>3 DEF PoolInv, WorkerInv, RestingAt
  <2> QED BY <1>2, <1>3, <1>5, <1>6, <1>8, <2>1, FailureReported
<1>11. /\ events' \in Seq(Reports) /\ DOMAIN events \subseteq DOMAIN events'
       /\ \A i \in DOMAIN events : events'[i] = events[i]
       /\ \A i \in DOMAIN events' : i \in DOMAIN events \/ events'[i].worker = w
  BY <1>3, <1>5, <1>6, ReportsKept DEF PoolInv, Types
<1>12. (\A k : Published(k)' <=> Published(k)) /\ \A v \in Workers : Owned(v)' = Owned(v)
  BY <1>4 DEF Published, Retiring, Owned
<1>13. \A v \in Workers : v # w => WorkerInv(v)'
  <2>1. SUFFICES ASSUME NEW v \in Workers, v # w PROVE WorkerInv(v)' OBVIOUS
  <2>2. v > pool'.spawned => v > pool.spawned BY <1>1, <1>3, <1>4, LimitFacts
  <2>3. worker'[v] = worker[v] /\ channel'[v] = channel[v] /\ pool'.jobs[v] = pool.jobs[v] BY <1>4, <1>8, <2>1
  <2>4. \A i \in DOMAIN events' : i \in DOMAIN events \/ events'[i].worker # v BY <1>11, <2>1, Zenon
  <2> QED BY <1>2, <1>4, <1>11, <1>12, <2>2, <2>3, <2>4, WorkerUntouched
<1>14. Types' BY <1>2, <1>4, <1>6, <1>8, <1>11 DEF PoolInv, Types
<1>15. OwnerInv'
  <2>1. Homes'
    <3>1. \A k \in DOMAIN pool.generations : pool.generations[k].worker \in 1 .. pool'.spawned
      BY <1>1, <1>3, <1>4 DEF PoolInv, OwnerInv, Homes
    <3> QED BY <1>4, <1>12, <3>1 DEF PoolInv, OwnerInv, Homes
  <2>2. Publishing' BY <1>2, <1>4 DEF PoolInv, OwnerInv, Publishing, Retiring
  <2>3. Newer' BY <1>2, <1>4 DEF PoolInv, OwnerInv, Newer
  <2>4. OnlyWorkersFail' BY <1>2, <1>4 DEF PoolInv, OwnerInv, OnlyWorkersFail
  <2> QED BY <1>3, <1>4, <2>1, <2>2, <2>3, <2>4 DEF OwnerInv
<1> QED BY <1>8, <1>9, <1>10, <1>13, <1>14, <1>15 DEF PoolInv, WorkerInv

-----------------------------------------------------------------------------
(* The owner takes the oldest report.                                      *)

LEMMA ReportTaken ==
  ASSUME PoolInv, events # <<>>, events' = Tail(events)
  PROVE  /\ Head(events) \in Reports /\ events' \in Seq(Reports)
         /\ 1 \in DOMAIN events /\ events[1] = Head(events)
         /\ \A i \in DOMAIN events' : i \in Nat \ {0} /\ i + 1 \in DOMAIN events /\ events'[i] = events[i + 1]
         /\ \A i \in DOMAIN events : i = 1 \/ (i - 1 \in DOMAIN events' /\ events'[i - 1] = events[i])
<1>1. events \in Seq(Reports) BY DEF PoolInv, Types
<1> QED BY <1>1, TailFacts

LEMMA DecodedTaken ==
  ASSUME PoolInv, events # <<>>, events' = Tail(events), NEW v \in Workers
  PROVE  /\ Decoded(v)' \subseteq Decoded(v) /\ ReportsSortedAt(v)'
         /\ ~From(Head(events), v, "decoded") => Decoded(v) \subseteq Decoded(v)'
         /\ From(Head(events), v, "decoded") =>
              /\ Head(events).token \in Decoded(v)
              /\ Decoded(v) \subseteq Decoded(v)' \union {Head(events).token}
              /\ \A t \in Decoded(v)' : Head(events).token < t
<1> PICK h : h = Head(events) OBVIOUS
<1>1. /\ 1 \in DOMAIN events /\ events[1] = h
      /\ \A i \in DOMAIN events' : i \in Nat \ {0} /\ i + 1 \in DOMAIN events /\ events'[i] = events[i + 1]
      /\ \A i \in DOMAIN events : i = 1 \/ (i - 1 \in DOMAIN events' /\ events'[i - 1] = events[i])
  BY ReportTaken
<1>2. ReportsSortedAt(v) BY DEF PoolInv, WorkerInv, TokensAt
<1>3. Decoded(v)' \subseteq Decoded(v) BY <1>1 DEF Decoded
<1>4. ReportsSortedAt(v)' BY <1>1, <1>2 DEF ReportsSortedAt
<1>5. ~From(h, v, "decoded") => Decoded(v) \subseteq Decoded(v)' BY <1>1, SMTT(20) DEF Decoded
<1>6. ASSUME From(h, v, "decoded")
      PROVE  /\ h.token \in Decoded(v) /\ Decoded(v) \subseteq Decoded(v)' \union {h.token}
             /\ \A t \in Decoded(v)' : h.token < t
  <2>1. h.token \in Decoded(v) BY <1>1, <1>6 DEF Decoded
  <2>2. Decoded(v) \subseteq Decoded(v)' \union {h.token}
    <3>1. SUFFICES ASSUME NEW i \in DOMAIN events, From(events[i], v, "decoded"), i # 1
                   PROVE  events[i].token \in Decoded(v)'
      BY <1>1 DEF Decoded
    <3>2. i - 1 \in DOMAIN events' /\ events'[i - 1] = events[i] BY <1>1, <3>1
    <3> QED BY <3>1, <3>2 DEF Decoded
  <2>3. \A i \in DOMAIN events' : From(events'[i], v, "decoded") => h.token < events'[i].token
    <3>1. SUFFICES ASSUME NEW i \in DOMAIN events', From(events'[i], v, "decoded") PROVE h.token < events'[i].token
      OBVIOUS
    <3>2. i + 1 \in DOMAIN events /\ 1 < i + 1 /\ events'[i] = events[i + 1] BY <1>1
    <3> QED BY <1>1, <1>2, <1>6, <3>1, <3>2 DEF ReportsSortedAt
  <2> QED BY <2>1, <2>2, <2>3 DEF Decoded
<1> QED BY <1>3, <1>4, <1>5, <1>6

LEMMA ReceiptTaken ==
  ASSUME PoolInv, events # <<>>, events' = Tail(events), NEW v \in Workers
  PROVE  /\ Acknowledged(v)' \subseteq Acknowledged(v) /\ ReceiptsDistinct(v)'
         /\ From(Head(events), v, "retired") =>
              Head(events).key \in Acknowledged(v) /\ Head(events).key \notin Acknowledged(v)'
<1> PICK h : h = Head(events) OBVIOUS
<1>1. /\ 1 \in DOMAIN events /\ events[1] = h
      /\ \A i \in DOMAIN events' : i \in Nat \ {0} /\ i + 1 \in DOMAIN events /\ events'[i] = events[i + 1]
  BY ReportTaken
<1>2. ReceiptsDistinct(v) BY DEF PoolInv, WorkerInv, MailAt
<1>3. Acknowledged(v)' \subseteq Acknowledged(v) BY <1>1 DEF Acknowledged
<1>4. ReceiptsDistinct(v)' BY <1>1, <1>2 DEF ReceiptsDistinct
<1>5. ASSUME From(h, v, "retired") PROVE h.key \in Acknowledged(v) /\ h.key \notin Acknowledged(v)'
  <2>1. h.key \in Acknowledged(v) BY <1>1, <1>5 DEF Acknowledged
  <2>2. \A i \in DOMAIN events' : From(events'[i], v, "retired") => h.key # events'[i].key
    <3>1. SUFFICES ASSUME NEW i \in DOMAIN events', From(events'[i], v, "retired") PROVE h.key # events'[i].key
      OBVIOUS
    <3>2. i + 1 \in DOMAIN events /\ 1 # i + 1 /\ events'[i] = events[i + 1] BY <1>1
    <3> QED BY <1>1, <1>2, <1>5, <3>1, <3>2 DEF ReceiptsDistinct
  <2> QED BY <2>1, <2>2 DEF Acknowledged
<1> QED BY <1>3, <1>4, <1>5

LEMMA FailureTaken ==
  ASSUME PoolInv, events # <<>>, events' = Tail(events), NEW v \in Workers, worker'[v] = worker[v],
         history'.failures = history.failures
  PROVE  /\ FailureAt(v)'
         /\ From(Head(events), v, "failed") =>
              worker[v].pc = "exited" /\ history.failures > 0 /\ Decoded(v) = {}
<1> PICK h : h = Head(events) OBVIOUS
<1>1. /\ 1 \in DOMAIN events /\ events[1] = h
      /\ \A i \in DOMAIN events' : i \in Nat \ {0} /\ i + 1 \in DOMAIN events /\ events'[i] = events[i + 1]
      /\ \A i \in DOMAIN events : i = 1 \/ i > 1
  <2>1. events \in Seq(Reports) BY DEF PoolInv, Types
  <2> QED BY <2>1, ReportTaken
<1>2. FailureAt(v) BY DEF PoolInv, WorkerInv
<1>3. FailureAt(v)'
  <2>1. SUFFICES ASSUME NEW i \in DOMAIN events', From(events'[i], v, "failed")
                 PROVE  /\ worker[v].pc = "exited" /\ history.failures > 0
                        /\ \A j \in DOMAIN events' : j > i => ~From(events'[j], v, "decoded")
    BY DEF FailureAt
  <2>2. /\ worker[v].pc = "exited" /\ history.failures > 0
        /\ \A j \in DOMAIN events : j > i + 1 => ~From(events[j], v, "decoded")
    BY <1>1, <1>2, <2>1 DEF FailureAt
  <2> QED BY <1>1, <2>2
<1>4. ASSUME From(h, v, "failed") PROVE worker[v].pc = "exited" /\ history.failures > 0 /\ Decoded(v) = {}
  <2>1. /\ worker[v].pc = "exited" /\ history.failures > 0
        /\ \A j \in DOMAIN events : j > 1 => ~From(events[j], v, "decoded")
    BY <1>1, <1>2, <1>4 DEF FailureAt
  <2>2. \A j \in DOMAIN events : ~From(events[j], v, "decoded") BY <1>1, <1>4, <2>1 DEF From
  <2> QED BY <2>1, <2>2 DEF Decoded
<1> QED BY <1>3, <1>4

\* What is unchanged for a worker whose tokens, or whose keys, the report is not about.
LEMMA TokensDrained ==
  ASSUME PoolInv, events # <<>>, events' = Tail(events), NEW v \in Workers,
         ~From(Head(events), v, "decoded"), worker' = worker, channel' = channel,
         pool'.jobs[v] = pool.jobs[v], pool'.limits = pool.limits
  PROVE  TokensAt(v)'
<1>1. Decoded(v)' = Decoded(v) /\ ReportsSortedAt(v)' BY DecodedTaken
<1>2. StagesAt(v)' /\ SortedAt(v)' /\ KeyedAt(v)'
  BY DEF PoolInv, WorkerInv, TokensAt, StagesAt, SortedAt, KeyedAt, Holds, Busy
<1>3. /\ Outstanding(v)' = Outstanding(v) /\ Pipeline(v)' = Pipeline(v)
      /\ Aside(v)' = Aside(v) /\ Sent(v)' = Sent(v)
  BY DEF Outstanding, Pipeline, Aside, Sent, Holds, Busy
<1>4. StagedAt(v)' /\ ListedAt(v)'
  BY <1>1, <1>3 DEF PoolInv, WorkerInv, TokensAt, StagedAt, ListedAt, UnderWay
<1> QED BY <1>1, <1>2, <1>4 DEF TokensAt

LEMMA MailDrained ==
  ASSUME PoolInv, events # <<>>, events' = Tail(events), NEW v \in Workers,
         worker' = worker, channel' = channel, Owned(v) \subseteq Owned(v)',
         \A k \in Owned(v) : Published(k) => Published(k)'
  PROVE  MailAt(v)'
<1>1. Acknowledged(v)' \subseteq Acknowledged(v) /\ ReceiptsDistinct(v)' BY ReceiptTaken
<1>2. MailAt(v) BY DEF PoolInv, WorkerInv
<1> QED BY <1>1, <1>2 DEF MailAt

\* The oldest result is that of the oldest job.
LEMMA OldestJob ==
  ASSUME PoolInv, events # <<>>, events' = Tail(events), NEW w \in Workers, From(Head(events), w, "decoded")
  PROVE  pool.jobs[w] # <<>> /\ Head(pool.jobs[w]).token = Head(events).token
<1> PICK t : t = Head(events).token OBVIOUS
<1>1. /\ t \in Decoded(w) /\ Decoded(w) \subseteq Decoded(w)' \union {t} /\ \A u \in Decoded(w)' : t < u
  BY DecodedTaken
<1>2. ListedAt(w) /\ SortedAt(w) BY DEF PoolInv, WorkerInv, TokensAt
<1>3. pool.jobs[w] \in Seq(Jobs) /\ Outstanding(w) \subseteq Nat /\ Decoded(w) \subseteq Nat
  BY TokensAreNaturals DEF PoolInv, Types
<1>4. PICK i \in DOMAIN pool.jobs[w] : pool.jobs[w][i].token = t
  BY <1>1, <1>2 DEF ListedAt, UnderWay, Outstanding
<1>5. /\ pool.jobs[w] # <<>> /\ 1 \in DOMAIN pool.jobs[w] /\ pool.jobs[w][1] = Head(pool.jobs[w])
      /\ i = 1 \/ 1 < i
  BY <1>3, <1>4
<1>6. CASE 1 < i
  <2> PICK u : u = pool.jobs[w][1].token OBVIOUS
  <2>1. u < t /\ u \in Outstanding(w) BY <1>2, <1>4, <1>5, <1>6 DEF SortedAt, Outstanding
  <2>2. u \in Nat /\ t \in Nat BY <1>1, <1>3, <2>1
  <2>3. u \notin Decoded(w) BY <1>1, <2>1, <2>2
  <2>4. t < u BY <1>1, <1>2, <2>1, <2>3 DEF ListedAt, Before
  <2> QED BY <2>1, <2>2, <2>4
<1> QED BY <1>4, <1>5, <1>6

\* Its answer leaves the tokens of the others.
LEMMA JobAnswered ==
  ASSUME PoolInv, events # <<>>, events' = Tail(events), NEW w \in Workers, From(Head(events), w, "decoded"),
         worker' = worker, channel' = channel, pool'.jobs[w] = Tail(pool.jobs[w]), pool'.limits = pool.limits
  PROVE  TokensAt(w)'
<1> PICK t : t = Head(events).token OBVIOUS
<1>1. /\ t \in Decoded(w) /\ Decoded(w) \subseteq Decoded(w)' \union {t} /\ \A u \in Decoded(w)' : t < u
      /\ Decoded(w)' \subseteq Decoded(w) /\ ReportsSortedAt(w)'
  BY DecodedTaken
<1>2. StagesAt(w) /\ ListedAt(w) /\ SortedAt(w) /\ StagedAt(w) /\ KeyedAt(w) BY DEF PoolInv, WorkerInv, TokensAt
<1>3. /\ pool.jobs[w] # <<>> /\ Head(pool.jobs[w]).token = t /\ pool.jobs[w] \in Seq(Jobs)
      /\ Outstanding(w) \subseteq Nat
  BY OldestJob, TokensAreNaturals DEF PoolInv, Types
<1>4. /\ 1 \in DOMAIN pool.jobs[w] /\ pool.jobs[w][1].token = t
      /\ Len(pool'.jobs[w]) = Len(pool.jobs[w]) - 1 /\ Len(pool.jobs[w]) \in Nat
      /\ \A i \in DOMAIN pool'.jobs[w] :
           /\ i \in Nat \ {0} /\ i + 1 \in DOMAIN pool.jobs[w] /\ pool'.jobs[w][i] = pool.jobs[w][i + 1]
      /\ \A i \in DOMAIN pool.jobs[w] :
           i = 1 \/ (i - 1 \in DOMAIN pool'.jobs[w] /\ pool'.jobs[w][i - 1] = pool.jobs[w][i])
  BY <1>3, TailFacts
<1>5. \A i \in DOMAIN pool'.jobs[w] : t < pool'.jobs[w][i].token
  BY <1>2, <1>4 DEF SortedAt
<1>6. Outstanding(w)' = Outstanding(w) \ {t}
  <2>1. Outstanding(w)' \subseteq Outstanding(w) BY <1>4 DEF Outstanding
  <2>2. t \notin Outstanding(w)'
    <3>1. t \in Nat BY <1>1, <1>2, <1>3 DEF ListedAt, UnderWay
    <3> QED BY <1>5, <3>1 DEF Outstanding
  <2>3. ASSUME NEW i \in DOMAIN pool.jobs[w], pool.jobs[w][i].token # t
        PROVE  pool.jobs[w][i].token \in Outstanding(w)'
    <3>1. i - 1 \in DOMAIN pool'.jobs[w] /\ pool'.jobs[w][i - 1] = pool.jobs[w][i] BY <1>4, <2>3
    <3> QED BY <3>1 DEF Outstanding
  <2>4. Outstanding(w) \ {t} \subseteq Outstanding(w)' BY <2>3 DEF Outstanding
  <2> QED BY <2>1, <2>2, <2>4
<1>7. Pipeline(w)' = Pipeline(w) /\ Aside(w)' = Aside(w) /\ Sent(w)' = Sent(w) /\ (Holds(w)' <=> Holds(w))
  BY DEF Pipeline, Aside, Sent, Holds, Busy
<1>8. StagedAt(w)' BY <1>1, <1>2, <1>7 DEF StagedAt, Staged, Before
<1>9. ListedAt(w)'
  <2>1. t \in Nat /\ UnderWay(w) \subseteq Nat BY <1>1, <1>2, <1>3 DEF ListedAt, UnderWay
  <2>2. t \notin Pipeline(w) \union Aside(w) \union Sent(w)
    BY <1>1, <1>2, <2>1 DEF StagedAt, Staged, Before
  <2>3. t \notin Decoded(w)' BY <1>1, <2>1
  <2>4. UnderWay(w)' = UnderWay(w) \ {t} BY <1>1, <1>7, <2>2, <2>3 DEF UnderWay
  <2>5. Before(Decoded(w)', Outstanding(w)' \ Decoded(w)') BY <1>1, <1>2, <1>6 DEF ListedAt, Before
  <2> QED BY <1>2, <1>6, <2>4, <2>5 DEF ListedAt
<1>10. SortedAt(w)'
  <2>1. \A i, k \in DOMAIN pool'.jobs[w] : i < k => pool'.jobs[w][i].token < pool'.jobs[w][k].token
    <3>1. TAKE i, k \in DOMAIN pool'.jobs[w]
    <3>2. HAVE i < k
    <3>3. /\ i + 1 \in DOMAIN pool.jobs[w] /\ k + 1 \in DOMAIN pool.jobs[w] /\ i + 1 < k + 1
          /\ pool'.jobs[w][i] = pool.jobs[w][i + 1] /\ pool'.jobs[w][k] = pool.jobs[w][k + 1]
      BY <1>4, <3>1, <3>2
    <3> QED BY <1>2, <3>3 DEF SortedAt
  <2> QED BY <1>2, <2>1 DEF SortedAt
<1>11. KeyedAt(w)'
  <2>1. ASSUME NEW x, Matches(x, pool.jobs[w]) PROVE Matches(x, pool'.jobs[w])
    BY <1>4, <2>1 DEF Matches
  <2> QED BY <1>2, <1>7, <2>1 DEF KeyedAt
<1>12. StagesAt(w)'
  <2>1. Len(pool'.jobs[w]) <= pool'.limits.depth
    <3>1. pool.limits.depth \in 1 .. 2 BY LimitFacts DEF PoolInv, Types
    <3> QED BY <1>2, <1>4, <3>1 DEF StagesAt
  <2> QED BY <1>2, <2>1 DEF StagesAt, Busy
<1> QED BY <1>1, <1>8, <1>9, <1>10, <1>11, <1>12 DEF TokensAt

\* A worker that failed has nothing under way, and all its jobs are answered.
LEMMA JobsAnswered ==
  ASSUME PoolInv, events # <<>>, events' = Tail(events), NEW w \in Workers, From(Head(events), w, "failed"),
         worker' = worker, channel' = channel, history'.failures = history.failures,
         pool'.jobs[w] = <<>>, pool'.limits = pool.limits
  PROVE  TokensAt(w)'
<1>1. worker[w].pc = "exited" /\ Decoded(w) = {} BY FailureTaken
<1>2. Decoded(w)' = {} /\ ReportsSortedAt(w)' BY <1>1, DecodedTaken
<1>3. /\ worker[w].pending = <<>> /\ worker[w].received = <<>> /\ channel[w].commands = <<>>
  BY <1>1 DEF PoolInv, WorkerInv, RestingAt
<1>4. ~Holds(w)' /\ ~Busy(w)' BY <1>1 DEF Holds, Busy
<1>5. Pipeline(w)' = {} /\ Aside(w)' = {} /\ Sent(w)' = {} /\ Outstanding(w)' = {}
  BY <1>3, <1>4 DEF Pipeline, Aside, Sent, Outstanding
<1>6. StagedAt(w)' /\ ListedAt(w)' BY <1>2, <1>5 DEF StagedAt, Staged, Before, ListedAt, UnderWay
<1>7. SortedAt(w)' /\ KeyedAt(w)' BY <1>3, <1>4 DEF SortedAt, KeyedAt
<1>8. StagesAt(w)'
  <2>1. pool.limits.depth \in 1 .. 2 BY LimitFacts DEF PoolInv, Types
  <2> QED BY <1>1, <1>3, <1>4, <2>1 DEF StagesAt
<1> QED BY <1>2, <1>6, <1>7, <1>8 DEF TokensAt

\* The jobs that are answered are the oldest of their streams, all at w.
LEMMA AnswersInOrder ==
  ASSUME PoolInv, NEW w \in Workers, NEW jobs \in Seq(Jobs), Len(jobs) <= 2, history'.last = Answer(jobs),
         history'.tokens = history.tokens,
         \A i \in DOMAIN jobs : \E n \in DOMAIN pool.jobs[w] : pool.jobs[w][n] = jobs[i],
         \A v \in Workers : \A n \in DOMAIN pool'.jobs[v] : \E m \in DOMAIN pool.jobs[v] :
           pool.jobs[v][m] = pool'.jobs[v][n],
         \A n \in DOMAIN pool'.jobs[w] : \A i \in DOMAIN jobs : jobs[i].token < pool'.jobs[w][n].token
  PROVE  /\ history'.last \in [Streams -> Nat] /\ Newer'
         /\ \A s \in Streams : history'.last[s] >= history.last[s]
<1>1. /\ history.last \in [Streams -> Nat] /\ history.tokens \in Nat /\ Newer /\ Homes
      /\ \A v \in Workers : pool.jobs[v] \in Seq(Jobs)
  BY DEF PoolInv, Types, OwnerInv
<1>2. \A v \in Workers : \A n \in DOMAIN pool.jobs[v] :
        /\ pool.jobs[v][n].token \in Nat /\ pool.jobs[v][n].key[1] \in Streams
        /\ history.last[pool.jobs[v][n].key[1]] < pool.jobs[v][n].token
        /\ pool.jobs[v][n].token <= history.tokens /\ pool.jobs[v][n].key \in Owned(v)
  <2>1. \A v \in Workers : \A n \in DOMAIN pool.jobs[v] : pool.jobs[v][n] \in Jobs BY <1>1
  <2>2. \A j \in Jobs : j.token \in Nat /\ j.key[1] \in Streams BY LimitFacts DEF Jobs
  <2> QED BY <1>1, <2>1, <2>2 DEF Newer, Homes
<1>3. \A i \in DOMAIN jobs :
        /\ jobs[i].token \in Nat /\ jobs[i].key[1] \in Streams /\ jobs[i].key \in Owned(w)
        /\ history.last[jobs[i].key[1]] < jobs[i].token /\ jobs[i].token <= history.tokens
  BY <1>2
<1>4. \A s \in Streams :
        \/ /\ \A i \in DOMAIN jobs : jobs[i].key[1] # s
           /\ history'.last[s] = history.last[s]
        \/ \E i \in DOMAIN jobs : jobs[i].key[1] = s /\ history'.last[s] = jobs[i].token
  <2>1. SUFFICES ASSUME NEW s \in Streams
                 PROVE  \/ /\ \A i \in DOMAIN jobs : jobs[i].key[1] # s
                           /\ history'.last[s] = history.last[s]
                        \/ \E i \in DOMAIN jobs : jobs[i].key[1] = s /\ history'.last[s] = jobs[i].token
    OBVIOUS
  <2> DEFINE own == {i \in DOMAIN jobs : jobs[i].key[1] = s}
  <2>2. history'.last[s] = IF own = {} THEN history.last[s] ELSE jobs[Max(own)].token BY DEF Answer
  <2>3. own \subseteq DOMAIN jobs /\ \A i \in own : jobs[i].key[1] = s OBVIOUS
  <2>4. \A i \in own : i = 1 \/ i = 2 BY <2>3
  <2>5. CASE own = {} BY <2>2, <2>5
  <2>6. CASE own # {}
    <3> HIDE DEF own
    <3>1. \E x \in own : \A y \in own : x >= y BY <2>4, <2>6
    <3>2. Max(own) \in own BY <3>1 DEF Max
    <3> QED BY <2>2, <2>3, <2>6, <3>2
  <2> QED BY <2>5, <2>6
<1>5. history'.last \in [Streams -> Nat]
  <2>1. \A s \in Streams : history'.last[s] \in Nat BY <1>1, <1>3, <1>4
  <2> QED BY <2>1 DEF Answer
<1>6. \A s \in Streams : history'.last[s] >= history.last[s] /\ history'.last[s] <= history.tokens
  <2>1. SUFFICES ASSUME NEW s \in Streams
                 PROVE  history'.last[s] >= history.last[s] /\ history'.last[s] <= history.tokens
    OBVIOUS
  <2>2. history.last[s] \in Nat /\ history.last[s] <= history.tokens BY <1>1 DEF Newer
  <2> QED BY <1>1, <1>3, <1>4, <2>2
<1>7. \A v \in Workers : \A n \in DOMAIN pool'.jobs[v] :
        /\ history'.last[pool'.jobs[v][n].key[1]] < pool'.jobs[v][n].token
        /\ pool'.jobs[v][n].token <= history.tokens
  <2>1. SUFFICES ASSUME NEW v \in Workers, NEW n \in DOMAIN pool'.jobs[v]
                 PROVE  /\ history'.last[pool'.jobs[v][n].key[1]] < pool'.jobs[v][n].token
                        /\ pool'.jobs[v][n].token <= history.tokens
    OBVIOUS
  <2>2. PICK m \in DOMAIN pool.jobs[v] : pool.jobs[v][m] = pool'.jobs[v][n] BY <2>1
  <2>3. PICK s \in Streams : s = pool'.jobs[v][n].key[1] BY <1>2, <2>2
  <2>4. history.last[s] < pool'.jobs[v][n].token /\ pool'.jobs[v][n].token <= history.tokens
        /\ pool'.jobs[v][n].key \in Owned(v)
    BY <1>2, <2>2, <2>3
  <2>5. CASE history'.last[s] = history.last[s] BY <2>3, <2>4, <2>5
  <2>6. ASSUME NEW i \in DOMAIN jobs, jobs[i].key[1] = s, history'.last[s] = jobs[i].token
        PROVE  history'.last[s] < pool'.jobs[v][n].token
    <3>1. jobs[i].key \in Owned(w) BY <1>3
    <3>2. v = w BY <1>1, <2>3, <2>4, <2>6, <3>1 DEF Homes, Owned
    <3> QED BY <2>6, <3>2
  <2> QED BY <1>4, <2>3, <2>4, <2>5, <2>6
<1> QED BY <1>5, <1>6, <1>7 DEF Newer

\* The owner's list at w gets shorter, by the jobs that are answered.
LEMMA AnswersKeep ==
  ASSUME PoolInv, events # <<>>, events' = Tail(events), owner.pc = "drain",
         UNCHANGED <<owner, channel, worker, notified>>,
         NEW w \in Workers, Head(events).worker = w, TokensAt(w)',
         pool' \in [limits : Limits, spawned : Nat, jobs : [Workers -> Seq(Jobs)],
                    generations : UNION {[K -> Reservation] : K \in SUBSET Keys},
                    failure : {"none", "token", "acknowledgement", "worker"}],
         pool'.limits = pool.limits, pool'.spawned = pool.spawned, pool'.generations = pool.generations,
         \A v \in Workers : v # w => pool'.jobs[v] = pool.jobs[v],
         \A n \in DOMAIN pool'.jobs[w] : \E m \in DOMAIN pool.jobs[w] : pool.jobs[w][m] = pool'.jobs[w][n],
         pool.jobs[w] # <<>> \/ pool'.jobs[w] = <<>>,
         history' \in [tokens : Nat, failures : Nat, last : [Streams -> Nat]],
         history'.failures = history.failures, Newer', OnlyWorkersFail'
  PROVE  PoolInv'
<1>1. ASSUME NEW v \in Workers
      PROVE  \A n \in DOMAIN pool'.jobs[v] : \E m \in DOMAIN pool.jobs[v] : pool.jobs[v][m] = pool'.jobs[v][n]
  <2>1. CASE v = w BY <2>1
  <2>2. CASE v # w
    <3>1. pool'.jobs[v] = pool.jobs[v] BY <2>2
    <3> QED BY <3>1
  <2> QED BY <2>1, <2>2
<1>2. \A v \in Workers : Owned(v)' = Owned(v) BY DEF Owned
<1>3. \A k : Published(k) => Published(k)'
  <2>1. SUFFICES ASSUME NEW k, Published(k) PROVE Published(k)' OBVIOUS
  <2>2. k \in DOMAIN pool.generations /\ pool.generations[k].worker \in Workers
    <3>1. pool.generations \in [DOMAIN pool.generations -> Reservation] BY GenerationTypes DEF PoolInv, Types
    <3> QED BY <2>1, <3>1 DEF Published, Retiring, Reservation
  <2> QED BY <1>1, <2>1, <2>2 DEF Published, Retiring
<1>4. Types'
  <2>1. events' \in Seq(Reports) BY ReportTaken
  <2> QED BY <2>1 DEF PoolInv, Types
<1>5. Homes'
  <2>1. \A v \in Workers : \A n \in DOMAIN pool'.jobs[v] : pool'.jobs[v][n].key \in Owned(v)
    BY <1>1 DEF PoolInv, OwnerInv, Homes
  <2> QED BY <1>2, <1>3, <2>1 DEF PoolInv, OwnerInv, Homes
<1>6. Publishing'
  <2>1. owner.todo = {} BY DEF PoolInv, OwnerInv, Publishing
  <2> QED BY <2>1 DEF Publishing
<1>7. OwnerInv' BY <1>5, <1>6 DEF PoolInv, OwnerInv
<1>8. ASSUME NEW v \in Workers PROVE WorkerInv(v)'
  <2>1. MailAt(v)' BY <1>2, <1>3, MailDrained
  <2>2. FailureAt(v)' BY FailureTaken
  <2>3. RestingAt(v) BY DEF PoolInv, WorkerInv
  <2>4. RestingAt(v)' BY <2>3 DEF RestingAt
  <2>5. TokensAt(v)'
    <3>1. CASE v = w BY <3>1
    <3>2. CASE v # w
      <4>1. ~From(Head(events), v, "decoded") BY <3>2 DEF From
      <4> QED BY <3>2, <4>1, TokensDrained
    <3> QED BY <3>1, <3>2
  <2> QED BY <2>1, <2>2, <2>4, <2>5 DEF WorkerInv
<1> QED BY <1>4, <1>7, <1>8 DEF PoolInv

\* No step takes an answer back.
Ordered == \A s \in Streams : history'.last[s] >= history.last[s]

LEMMA DecodedKeeps ==
  ASSUME PoolInv, DrainEvent, Head(events).kind = "decoded"
  PROVE  PoolInv' /\ Ordered
<1>1. /\ events # <<>> /\ events' = Tail(events) /\ owner.pc = "drain"
      /\ UNCHANGED <<owner, channel, worker, notified>>
  BY DEF DrainEvent
<1>2. Head(events) \in Reports BY <1>1, ReportTaken
<1>3. PICK w \in Workers : w = Head(events).worker BY <1>2 DEF Reports
<1>4. From(Head(events), w, "decoded") BY <1>3 DEF From
<1>5. pool.jobs[w] # <<>> /\ Head(pool.jobs[w]).token = Head(events).token BY <1>1, <1>4, OldestJob
<1>6. /\ pool' = [pool EXCEPT !.jobs[w] = Tail(@)]
      /\ history' = [history EXCEPT !.last = Answer(<<Head(pool.jobs[w])>>)]
  BY <1>3, <1>5 DEF DrainEvent
<1>7. /\ pool \in [limits : Limits, spawned : Nat, jobs : [Workers -> Seq(Jobs)],
                   generations : UNION {[K -> Reservation] : K \in SUBSET Keys},
                   failure : {"none", "token", "acknowledgement", "worker"}]
      /\ history \in [tokens : Nat, failures : Nat, last : [Streams -> Nat]]
  BY DEF PoolInv, Types
<1>8. pool.jobs[w] \in Seq(Jobs) BY <1>7
<1> PICK jobs : jobs = <<Head(pool.jobs[w])>> OBVIOUS
<1>9. /\ Tail(pool.jobs[w]) \in Seq(Jobs) /\ Head(pool.jobs[w]) \in Jobs
      /\ 1 \in DOMAIN pool.jobs[w] /\ pool.jobs[w][1] = Head(pool.jobs[w])
      /\ \A i \in DOMAIN Tail(pool.jobs[w]) :
           i \in Nat \ {0} /\ i + 1 \in DOMAIN pool.jobs[w] /\ Tail(pool.jobs[w])[i] = pool.jobs[w][i + 1]
  BY <1>5, <1>8, TailFacts
<1>10. /\ pool'.limits = pool.limits /\ pool'.spawned = pool.spawned /\ pool'.generations = pool.generations
       /\ pool'.failure = pool.failure /\ pool'.jobs = [pool.jobs EXCEPT ![w] = Tail(@)]
       /\ pool' = [limits |-> pool.limits, spawned |-> pool.spawned, jobs |-> pool'.jobs,
                   generations |-> pool.generations, failure |-> pool.failure]
  BY <1>6, <1>7
<1>11. /\ pool'.jobs[w] = Tail(pool.jobs[w]) /\ \A v \in Workers : v # w => pool'.jobs[v] = pool.jobs[v]
       /\ pool'.jobs \in [Workers -> Seq(Jobs)]
  BY <1>7, <1>9, <1>10
<1>12. pool' \in [limits : Limits, spawned : Nat, jobs : [Workers -> Seq(Jobs)],
                  generations : UNION {[K -> Reservation] : K \in SUBSET Keys},
                  failure : {"none", "token", "acknowledgement", "worker"}]
  BY <1>7, <1>10, <1>11
<1>13. /\ history'.last = Answer(jobs) /\ history'.tokens = history.tokens
       /\ history'.failures = history.failures
       /\ history' = [tokens |-> history.tokens, failures |-> history.failures, last |-> history'.last]
  BY <1>6, <1>7
<1>14. jobs \in Seq(Jobs) /\ Len(jobs) <= 2 /\ \A i \in DOMAIN jobs : jobs[i] = pool.jobs[w][1] BY <1>9
<1>15. \A n \in DOMAIN pool'.jobs[w] : \E m \in DOMAIN pool.jobs[w] : pool.jobs[w][m] = pool'.jobs[w][n]
  BY <1>9, <1>11
<1>16. \A n \in DOMAIN pool'.jobs[w] : \A i \in DOMAIN jobs : jobs[i].token < pool'.jobs[w][n].token
  <2>1. \A n \in DOMAIN pool'.jobs[w] : pool.jobs[w][1].token < pool'.jobs[w][n].token
    <3>1. SortedAt(w) BY DEF PoolInv, WorkerInv, TokensAt
    <3>2. \A n \in DOMAIN pool'.jobs[w] :
            1 < n + 1 /\ n + 1 \in DOMAIN pool.jobs[w] /\ pool'.jobs[w][n] = pool.jobs[w][n + 1]
      BY <1>9, <1>11
    <3> QED BY <1>9, <3>1, <3>2 DEF SortedAt
  <2> QED BY <1>14, <2>1
<1>17. history'.last \in [Streams -> Nat] /\ Newer' /\ Ordered
  <2>1. \A i \in DOMAIN jobs : \E n \in DOMAIN pool.jobs[w] : pool.jobs[w][n] = jobs[i] BY <1>9, <1>14
  <2>2. \A v \in Workers : \A n \in DOMAIN pool'.jobs[v] : \E m \in DOMAIN pool.jobs[v] :
          pool.jobs[v][m] = pool'.jobs[v][n]
    BY <1>11, <1>15
  <2> QED BY <1>13, <1>14, <1>16, <2>1, <2>2, AnswersInOrder DEF Ordered
<1>18. history' \in [tokens : Nat, failures : Nat, last : [Streams -> Nat]] BY <1>7, <1>13, <1>17
<1>19. TokensAt(w)' BY <1>1, <1>4, <1>10, <1>11, JobAnswered
<1>20. OnlyWorkersFail' BY <1>10, <1>13, SMTT(20) DEF PoolInv, OwnerInv, OnlyWorkersFail
<1>21. PoolInv'
  BY <1>1, <1>3, <1>5, <1>10, <1>11, <1>12, <1>13, <1>15, <1>17, <1>18, <1>19, <1>20, AnswersKeep
<1> QED BY <1>17, <1>21

LEMMA FailedKeeps ==
  ASSUME PoolInv, DrainEvent, Head(events).kind = "failed"
  PROVE  PoolInv' /\ Ordered
<1>1. /\ events # <<>> /\ events' = Tail(events) /\ owner.pc = "drain"
      /\ UNCHANGED <<owner, channel, worker, notified>>
  BY DEF DrainEvent
<1>2. Head(events) \in Reports BY <1>1, ReportTaken
<1>3. PICK w \in Workers : w = Head(events).worker BY <1>2 DEF Reports
<1>4. From(Head(events), w, "failed") BY <1>3 DEF From
<1>5. /\ pool' = [Failed(pool, "worker") EXCEPT !.jobs[w] = <<>>]
      /\ history' = [history EXCEPT !.last = Answer(pool.jobs[w])]
  BY <1>3 DEF DrainEvent, JobsAfterFailure
<1>6. /\ pool \in [limits : Limits, spawned : Nat, jobs : [Workers -> Seq(Jobs)],
                   generations : UNION {[K -> Reservation] : K \in SUBSET Keys},
                   failure : {"none", "token", "acknowledgement", "worker"}]
      /\ history \in [tokens : Nat, failures : Nat, last : [Streams -> Nat]]
  BY DEF PoolInv, Types
<1> PICK jobs : jobs = pool.jobs[w] OBVIOUS
<1>7. jobs \in Seq(Jobs) /\ <<>> \in Seq(Jobs) BY <1>6
<1>8. /\ pool'.limits = pool.limits /\ pool'.spawned = pool.spawned /\ pool'.generations = pool.generations
      /\ pool'.failure = (IF pool.failure = "none" THEN "worker" ELSE pool.failure)
      /\ pool'.jobs = [pool.jobs EXCEPT ![w] = <<>>]
      /\ pool' = [limits |-> pool.limits, spawned |-> pool.spawned, jobs |-> pool'.jobs,
                  generations |-> pool.generations, failure |-> pool'.failure]
  BY <1>5, <1>6 DEF Failed
<1>9. /\ pool'.jobs[w] = <<>> /\ \A v \in Workers : v # w => pool'.jobs[v] = pool.jobs[v]
      /\ pool'.jobs \in [Workers -> Seq(Jobs)]
  BY <1>6, <1>7, <1>8
<1>10. pool' \in [limits : Limits, spawned : Nat, jobs : [Workers -> Seq(Jobs)],
                  generations : UNION {[K -> Reservation] : K \in SUBSET Keys},
                  failure : {"none", "token", "acknowledgement", "worker"}]
  BY <1>6, <1>8, <1>9
<1>11. /\ history'.last = Answer(jobs) /\ history'.tokens = history.tokens
       /\ history'.failures = history.failures
       /\ history' = [tokens |-> history.tokens, failures |-> history.failures, last |-> history'.last]
  BY <1>5, <1>6
<1>12. Len(jobs) <= 2
  <2>1. Len(jobs) <= pool.limits.depth BY DEF PoolInv, WorkerInv, TokensAt, StagesAt
  <2>2. pool.limits.depth \in 1 .. 2 BY LimitFacts DEF PoolInv, Types
  <2> QED BY <1>7, <2>1, <2>2
<1>13. \A n \in DOMAIN pool'.jobs[w] : FALSE BY <1>9
<1>14. history'.last \in [Streams -> Nat] /\ Newer' /\ Ordered
  <2>1. \A v \in Workers : \A n \in DOMAIN pool'.jobs[v] : \E m \in DOMAIN pool.jobs[v] :
          pool.jobs[v][m] = pool'.jobs[v][n]
    BY <1>9, <1>13
  <2> QED BY <1>7, <1>11, <1>12, <1>13, <2>1, AnswersInOrder DEF Ordered
<1>15. history' \in [tokens : Nat, failures : Nat, last : [Streams -> Nat]] BY <1>6, <1>11, <1>14
<1>16. history.failures > 0 BY <1>1, <1>4, <1>11, FailureTaken
<1>17. TokensAt(w)' BY <1>1, <1>4, <1>8, <1>9, <1>11, JobsAnswered
<1>18. OnlyWorkersFail' BY <1>8, <1>11, <1>16 DEF PoolInv, OwnerInv, OnlyWorkersFail
<1>19. PoolInv'
  BY <1>1, <1>3, <1>8, <1>9, <1>10, <1>11, <1>13, <1>14, <1>15, <1>17, <1>18, AnswersKeep
<1> QED BY <1>14, <1>19

\* A receipt ends the one reservation it is for.
LEMMA RetiredKeeps ==
  ASSUME PoolInv, DrainEvent, Head(events).kind = "retired"
  PROVE  PoolInv' /\ Ordered
<1>1. /\ events # <<>> /\ events' = Tail(events) /\ owner.pc = "drain"
      /\ UNCHANGED <<owner, channel, worker, notified, history>>
  BY DEF DrainEvent
<1>2. Head(events) \in Reports BY <1>1, ReportTaken
<1>3. PICK w \in Workers : w = Head(events).worker BY <1>2 DEF Reports
<1> PICK k : k = Head(events).key OBVIOUS
<1>4. From(Head(events), w, "retired") BY <1>3 DEF From
<1>5. /\ k \in Acknowledged(w) /\ k \notin Acknowledged(w)' /\ Acknowledged(w)' \subseteq Acknowledged(w)
      /\ ReceiptsDistinct(w)'
  BY <1>1, <1>4, ReceiptTaken
<1>6. /\ MailAt(w) /\ k \in Owned(w) /\ Published(k)
      /\ k \notin channel[w].keys \union worker[w].acks \union worker[w].contexts
  BY <1>5 DEF PoolInv, WorkerInv, MailAt
<1>7. /\ k \in DOMAIN pool.generations /\ pool.generations[k].worker = w
      /\ pool.generations[k].retiring /\ pool.generations[k].sent
      /\ \A i \in DOMAIN pool.jobs[w] : pool.jobs[w][i].key # k
  BY <1>6 DEF Owned, Published, Retiring
<1> PICK g : g = [m \in DOMAIN pool.generations \ {k} |-> pool.generations[m]] OBVIOUS
<1>8. pool' = [pool EXCEPT !.generations = g]
  BY <1>3, <1>7 DEF DrainEvent
<1>9. /\ DOMAIN pool.generations \subseteq Keys /\ pool.generations \in [DOMAIN pool.generations -> Reservation]
      /\ pool \in [limits : Limits, spawned : Nat, jobs : [Workers -> Seq(Jobs)],
                   generations : UNION {[K -> Reservation] : K \in SUBSET Keys},
                   failure : {"none", "token", "acknowledgement", "worker"}]
  BY GenerationTypes DEF PoolInv, Types
<1>10. /\ DOMAIN g = DOMAIN pool.generations \ {k} /\ g \in [DOMAIN g -> Reservation]
       /\ \A m \in DOMAIN g : g[m] = pool.generations[m]
  BY <1>9
<1>11. /\ pool'.limits = pool.limits /\ pool'.spawned = pool.spawned /\ pool'.jobs = pool.jobs
       /\ pool'.failure = pool.failure /\ pool'.generations = g
       /\ pool' = [limits |-> pool.limits, spawned |-> pool.spawned, jobs |-> pool.jobs,
                   generations |-> g, failure |-> pool.failure]
  BY <1>8, <1>9
<1>12. Types'
  <2>1. events' \in Seq(Reports) BY <1>1, ReportTaken
  <2>2. g \in UNION {[K -> Reservation] : K \in SUBSET Keys} BY <1>9, <1>10, GenerationTypes
  <2>3. pool' \in [limits : Limits, spawned : Nat, jobs : [Workers -> Seq(Jobs)],
                   generations : UNION {[K -> Reservation] : K \in SUBSET Keys},
                   failure : {"none", "token", "acknowledgement", "worker"}]
    BY <1>9, <1>11, <2>2
  <2> QED BY <1>1, <2>1, <2>3 DEF PoolInv, Types
<1>13. /\ \A v \in Workers : Owned(v)' = Owned(v) \ {k}
       /\ \A v \in Workers : v # w => k \notin Owned(v)
  BY <1>7, <1>10, <1>11 DEF Owned
<1>14. \A m : m # k /\ Published(m) => Published(m)'
  BY <1>10, <1>11 DEF Published, Retiring
<1>15. Homes'
  <2>1. \A v \in Workers : \A i \in DOMAIN pool'.jobs[v] : pool'.jobs[v][i].key \in Owned(v)'
    <3>1. SUFFICES ASSUME NEW v \in Workers, NEW i \in DOMAIN pool.jobs[v]
                   PROVE  pool.jobs[v][i].key \in Owned(v) /\ pool.jobs[v][i].key # k
      BY <1>11, <1>13
    <3>2. pool.jobs[v][i].key \in Owned(v) BY DEF PoolInv, OwnerInv, Homes
    <3>3. pool.jobs[v][i].key # k BY <1>7, <1>13, <3>1, <3>2
    <3> QED BY <3>2, <3>3
  <2> QED BY <1>10, <1>11, <1>14, <2>1 DEF PoolInv, OwnerInv, Homes
<1>16. OwnerInv'
  <2>1. owner.todo = {} BY <1>1 DEF PoolInv, OwnerInv, Publishing
  <2>2. Publishing' BY <1>1, <2>1 DEF Publishing
  <2>3. Newer' /\ OnlyWorkersFail' BY <1>1, <1>11 DEF PoolInv, OwnerInv, Newer, OnlyWorkersFail
  <2> QED BY <1>11, <1>15, <2>2, <2>3 DEF PoolInv, OwnerInv
<1>17. ASSUME NEW v \in Workers PROVE WorkerInv(v)'
  <2>1. RestingAt(v)' BY <1>1, <1>11 DEF PoolInv, WorkerInv, RestingAt
  <2>2. TokensAt(v)'
    <3>1. ~From(Head(events), v, "decoded") BY DEF From
    <3> QED BY <1>1, <1>11, <3>1, TokensDrained
  <2>3. FailureAt(v)' BY <1>1, FailureTaken
  <2>4. MailAt(v)'
    <3>1. CASE v # w
      <4>1. k \notin Owned(v) /\ Owned(v)' = Owned(v) BY <1>13, <3>1
      <4>2. \A m \in Owned(v) : Published(m) => Published(m)' BY <1>14, <4>1
      <4> QED BY <1>1, <4>1, <4>2, MailDrained
    <3>2. CASE v = w
      <4>1. Owned(w)' = Owned(w) \ {k} BY <1>13
      <4>2. channel' = channel /\ worker' = worker BY <1>1
      <4>3. MailAt(w)' BY <1>5, <1>6, <1>14, <4>1, <4>2 DEF MailAt
      <4> QED BY <3>2, <4>3
    <3> QED BY <3>1, <3>2
  <2> QED BY <2>1, <2>2, <2>3, <2>4 DEF WorkerInv
<1>18. Ordered
  <2>1. history.last \in [Streams -> Nat] BY DEF PoolInv, Types
  <2> QED BY <1>1, <2>1 DEF Ordered
<1> QED BY <1>12, <1>16, <1>17, <1>18 DEF PoolInv

-----------------------------------------------------------------------------
LEMMA InitKeeps == Init => PoolInv
<1>1. SUFFICES ASSUME Init PROVE PoolInv OBVIOUS
<1>2. /\ owner = [pc |-> "idle", todo |-> {}, key |-> <<>>] /\ events = <<>> /\ notified = FALSE
      /\ history = [tokens |-> 0, failures |-> 0, last |-> [s \in Streams |-> 0]]
      /\ channel = [w \in Workers |-> [commands |-> <<>>, sender |-> TRUE, receiver |-> TRUE,
                                       keys |-> {}, wake |-> FALSE]]
      /\ worker = [w \in Workers |-> NoThread]
  BY <1>1 DEF Init
<1>3. PICK limits \in Limits :
        pool = [limits |-> limits, spawned |-> 0, jobs |-> [w \in Workers |-> <<>>],
                generations |-> Empty, failure |-> "none"]
  BY <1>1 DEF Init
<1>4. limits.workers \in Nat /\ limits.depth \in 1 .. 2 BY LimitFacts
<1>5. DOMAIN Empty = {} /\ Empty \in [DOMAIN Empty -> Reservation] BY DEF Empty
<1>6. /\ pool.limits = limits /\ pool.spawned = 0 /\ pool.failure = "none"
      /\ pool.generations = Empty /\ DOMAIN pool.generations = {}
      /\ \A w \in Workers : pool.jobs[w] = <<>>
  BY <1>3, <1>5
<1>7. Types
  <2>1. Empty \in UNION {[K -> Reservation] : K \in SUBSET Keys} BY <1>5, GenerationTypes
  <2>2. <<>> \in Seq(Commands) /\ <<>> \in Seq(Nat) /\ <<>> \in Seq(Jobs) /\ <<>> \in Seq(Reports)
        /\ Wake \in Commands
    BY DEF Commands
  <2>3. NoThread \in Threads BY <2>2 DEF NoThread, Threads
  <2>4. \A w \in Workers : channel[w] \in Lanes BY <1>2, <2>2 DEF Lanes
  <2>5. channel \in [Workers -> Lanes] BY <1>2, <2>4
  <2>6. pool \in [limits : Limits, spawned : Nat, jobs : [Workers -> Seq(Jobs)],
                  generations : UNION {[K -> Reservation] : K \in SUBSET Keys},
                  failure : {"none", "token", "acknowledgement", "worker"}]
    BY <1>3, <2>1, <2>2
  <2>7. history \in [tokens : Nat, failures : Nat, last : [Streams -> Nat]] BY <1>2
  <2> QED BY <1>2, <2>2, <2>3, <2>5, <2>6, <2>7 DEF Types
<1>8. OwnerInv
  <2>1. Homes BY <1>6 DEF Homes
  <2>2. Publishing BY <1>2 DEF Publishing
  <2>3. Newer BY <1>2, <1>6 DEF Newer
  <2>4. OnlyWorkersFail BY <1>6 DEF OnlyWorkersFail
  <2> QED BY <1>4, <1>6, <2>1, <2>2, <2>3, <2>4 DEF OwnerInv
<1>9. ASSUME NEW w \in Workers PROVE WorkerInv(w)
  <2>1. /\ worker[w].pc = "absent" /\ worker[w].then = "fill" /\ worker[w].pending = <<>>
        /\ worker[w].received = <<>> /\ worker[w].acks = {} /\ worker[w].contexts = {}
    BY <1>2 DEF NoThread
  <2>2. channel[w].commands = <<>> /\ channel[w].keys = {} BY <1>2
  <2>3. RestingAt(w) BY <1>6, <2>1, <2>2 DEF RestingAt
  <2>4. ~Holds(w) /\ ~Busy(w) BY <2>1 DEF Holds, Busy
  <2>5. /\ Decoded(w) = {} /\ Acknowledged(w) = {} /\ Pipeline(w) = {} /\ Aside(w) = {} /\ Sent(w) = {}
        /\ Outstanding(w) = {}
    BY <1>2, <1>6, <2>1, <2>2, <2>4 DEF Decoded, Acknowledged, Pipeline, Aside, Sent, Outstanding
  <2>6. StagesAt(w) BY <1>4, <1>6, <2>1, <2>4 DEF StagesAt
  <2>7. SortedAt(w) /\ ReportsSortedAt(w) /\ KeyedAt(w)
    BY <1>2, <1>6, <2>1, <2>2, <2>4 DEF SortedAt, ReportsSortedAt, KeyedAt
  <2>8. StagedAt(w) /\ ListedAt(w) BY <2>5 DEF StagedAt, Staged, Before, ListedAt, UnderWay
  <2>9. MailAt(w)
    <3>1. ReceiptsDistinct(w) BY <1>2 DEF ReceiptsDistinct
    <3> QED BY <2>1, <2>2, <2>5, <3>1 DEF MailAt
  <2>10. FailureAt(w) BY <1>2 DEF FailureAt
  <2> QED BY <2>3, <2>6, <2>7, <2>8, <2>9, <2>10 DEF WorkerInv, TokensAt
<1> QED BY <1>7, <1>8, <1>9 DEF PoolInv

LEMMA DrainEventKeeps ==
  ASSUME PoolInv, DrainEvent
  PROVE  PoolInv' /\ Ordered
<1>1. Head(events) \in Reports BY ReportTaken DEF DrainEvent
<1>2. Head(events).kind \in {"decoded", "retired", "failed"} BY <1>1 DEF Reports
<1> QED BY <1>2, DecodedKeeps, RetiredKeeps, FailedKeeps

\* One lemma per action has been shown; together:
LEMMA NextKeeps ==
  ASSUME PoolInv, [Next]_vars
  PROVE  PoolInv' /\ Ordered
<1>1. CASE DrainEvent BY <1>1, DrainEventKeeps
<1>2. ASSUME history'.last = history.last PROVE Ordered
  <2>1. history.last \in [Streams -> Nat] BY DEF PoolInv, Types
  <2> QED BY <1>2, <2>1 DEF Ordered
<1>3. ASSUME NEW key \in pool.limits.keys, TryDecode(key) \/ SpawnFails(key) \/ Retire(key)
      PROVE  PoolInv' /\ Ordered
  <2>1. PoolInv' BY <1>3, TryDecodeKeeps, SpawnFailsKeeps, RetireKeeps
  <2>2. history'.last = history.last
    <3>1. history \in [tokens : Nat, failures : Nat, last : [Streams -> Nat]] BY DEF PoolInv, Types
    <3>2. CASE TryDecode(key) BY <3>1, <3>2 DEF TryDecode
    <3>3. CASE SpawnFails(key) BY <3>1, <3>3 DEF SpawnFails
    <3>4. CASE Retire(key) BY <3>4 DEF Retire
    <3> QED BY <1>3, <3>2, <3>3, <3>4
  <2> QED BY <1>2, <2>1, <2>2
<1>4. CASE Drain \/ DropPool \/ PublishKey \/ SwapWake \/ SignalWake \/ AllPublished \/ DrainEnds \/ Joined
  <2>1. PoolInv'
    <3>1. CASE Drain \/ Joined \/ AllPublished BY <3>1, DrainKeeps
    <3>2. CASE DropPool BY <3>2, DropPoolKeeps
    <3>3. CASE PublishKey BY <3>3, PublishKeyKeeps
    <3>4. CASE SwapWake \/ SignalWake BY <3>4, SwapWakeKeeps, SignalWakeKeeps
    <3>5. CASE DrainEnds BY <3>5, DrainEndsKeeps
    <3> QED BY <1>4, <3>1, <3>2, <3>3, <3>4, <3>5
  <2>2. history'.last = history.last
    BY <1>4, Zenon DEF Drain, DropPool, PublishKey, SwapWake, SignalWake, AllPublished, DrainEnds, Joined
  <2> QED BY <1>2, <2>1, <2>2
<1>5. ASSUME NEW w \in Workers, WorkerStep(w) \/ WorkerFails(w) PROVE PoolInv' /\ Ordered
  <2>1. PoolInv' BY <1>5, WorkerStepKeeps
  <2>2. history'.last = history.last
    <3>1. history \in [tokens : Nat, failures : Nat, last : [Streams -> Nat]] BY DEF PoolInv, Types
    <3>2. CASE WorkerFails(w)
      <4>1. history' = [history EXCEPT !.failures = @ + 1] BY <3>2, Zenon DEF WorkerFails
      <4> QED BY <3>1, <4>1
    <3>3. CASE WorkerStep(w)
      BY <3>3 DEF WorkerStep, Quiet, Starts, ApplyTakes, ApplyRetires, Applied, TakeReceived, Recv, Closed,
         Filled, ClearWake, Handle, PollReady, PollPending, Renotify
    <3> QED BY <1>5, <3>2, <3>3
  <2> QED BY <1>2, <2>1, <2>2
<1>6. CASE UNCHANGED vars
  <2>1. UNCHANGED <<owner, pool, channel, worker, events, notified, history>> BY <1>6 DEF vars
  <2>2. owner \in [pc : {"idle", "send", "swap", "signal", "drain", "join", "gone"},
                   todo : SUBSET Keys, key : Keys \union {<<>>}]
        /\ channel \in [Workers -> Lanes] /\ notified \in BOOLEAN
    BY DEF PoolInv, Types
  <2>3. Publishing' BY <2>1 DEF PoolInv, OwnerInv, Publishing, Retiring
  <2>4. PoolInv' BY <2>1, <2>2, <2>3, OwnerMoves
  <2> QED BY <1>2, <2>1, <2>4
<1> QED BY <1>1, <1>3, <1>4, <1>5, <1>6 DEF Next, OwnerStep

\* What every behaviour of the pool keeps: the inductive invariant.
THEOREM PoolInvariant == Spec => []PoolInv
<1>1. Init => PoolInv BY InitKeeps
<1>2. PoolInv /\ [Next]_vars => PoolInv' BY NextKeeps
<1> QED BY <1>1, <1>2, PTL DEF Spec

\* DecodePool::drain never finds a result that is not the oldest job's, nor an
\* acknowledgement of a generation it has not published: whatever the limits, the
\* streams and the failures, the only failure it records is a worker's.
THEOREM OnlyWorkersEverFail == Spec => []OnlyWorkersFail
<1>1. PoolInv => OnlyWorkersFail BY DEF PoolInv, OwnerInv
<1> QED BY <1>1, PoolInvariant, PTL

\* The answers of a stream keep the order of its jobs, across the generations of
\* the stream and whichever worker its jobs went to.
THEOREM StreamsInOrder == Spec => StreamOrder
<1>1. PoolInv /\ [Next]_vars => [\A s \in Streams : history'.last[s] >= history.last[s]]_vars
  BY NextKeeps DEF Ordered
<1> QED BY <1>1, PoolInvariant, PTL DEF Spec, StreamOrder

\* A worker keeps a native decoder for a generation that is reserved at it, and
\* for no other: a reservation is given back after its decoder.
THEOREM ContextsAlwaysReserved == Spec => []ContextsReserved
<1>1. PoolInv => ContextsReserved BY DEF PoolInv, WorkerInv, MailAt, ContextsReserved
<1> QED BY <1>1, PoolInvariant, PTL

\* Neither the owner's list of a worker nor the worker's pipeline grows beyond the
\* depth of the pool: the guard of try_decode counts the jobs that are still in
\* the channel, so that worker_loop's check for a full pipeline never fails.
WithinDepth ==
  \A w \in Workers : /\ Len(pool.jobs[w]) <= pool.limits.depth
                     /\ Len(worker[w].pending) <= pool.limits.depth
THEOREM DepthAlwaysKept == Spec => []WithinDepth
<1>1. PoolInv => WithinDepth BY DEF PoolInv, WorkerInv, TokensAt, StagesAt, WithinDepth
<1> QED BY <1>1, PoolInvariant, PTL

-----------------------------------------------------------------------------
(* What the queues hold, counted. The counts need two facts more: a worker *)
(* reports one failure, and one Wake is on its way to it at most.          *)

\* At most one failure is on its way from a worker.
FailsOnce(w) ==
  \A i, j \in DOMAIN events : From(events[i], w, "failed") /\ From(events[j], w, "failed") => i = j

\* The flag announces the one Wake that is about to be sent, in the channel, or
\* taken and not yet answered.
Signalling(w) == owner.pc = "signal" /\ pool.generations[owner.key].worker = w
WakePlaces(w) == {i \in DOMAIN channel[w].commands : channel[w].commands[i] = Wake}
WakesAt(w) ==
  /\ \A i, j \in WakePlaces(w) : i = j
  /\ WakePlaces(w) # {} => channel[w].wake /\ ~Signalling(w) /\ worker[w].pc # "clear"
  /\ worker[w].pc = "clear" => channel[w].wake /\ ~Signalling(w)
  /\ Signalling(w) => channel[w].wake

\* The owner's own limits.
Admitted ==
  /\ IsFiniteSet(DOMAIN pool.generations) /\ Cardinality(DOMAIN pool.generations) <= pool.limits.generations
  /\ JobCount <= pool.limits.jobs

CountInv == Admitted /\ \A w \in Workers : FailsOnce(w) /\ WakesAt(w)

-----------------------------------------------------------------------------
LEMMA CountFacts ==
  /\ IsFiniteSet(Workers)
  /\ \A l \in Limits : l.jobs \in Nat /\ l.generations \in Nat /\ l.workers \in Nat /\ l.depth \in Nat
<1>1. PICK l \in Limits : \A m \in Limits : m.workers <= l.workers
  BY PoolAssumption
<1>2. \A m \in Limits : m.workers \in Nat /\ m.jobs \in Nat /\ m.generations \in Nat /\ m.depth \in Nat
  BY PoolAssumption
<1>3. PICK n \in Nat : Workers = 1 .. n
  <2> DEFINE S == {m.workers : m \in Limits}
  <2>1. l.workers \in S /\ \A y \in S : l.workers >= y
    BY <1>1, <1>2
  <2>2. Max(S) \in S
    BY <2>1 DEF Max
  <2> QED BY <1>2, <2>2 DEF Workers
<1>4. 1 \in Int /\ n \in Int OBVIOUS
<1>5. IsFiniteSet(Workers) BY <1>3, <1>4, FS_Interval
<1> QED BY <1>2, <1>5

LEMMA PlacesFinite ==
  ASSUME PoolInv
  PROVE  IsFiniteSet(JobPlaces(pool.jobs)) /\ JobCount \in Nat
<1>1. \A w \in Workers : DOMAIN pool.jobs[w] \subseteq 1 .. 2
  <2>1. SUFFICES ASSUME NEW w \in Workers PROVE DOMAIN pool.jobs[w] \subseteq 1 .. 2 OBVIOUS
  <2>2. pool.jobs[w] \in Seq(Jobs) BY DEF PoolInv, Types
  <2>3. Len(pool.jobs[w]) <= pool.limits.depth BY DEF PoolInv, WorkerInv, TokensAt, StagesAt
  <2>4. pool.limits.depth \in 1 .. 2 BY LimitFacts DEF PoolInv, Types
  <2> QED BY <2>2, <2>3, <2>4
<1>2. JobPlaces(pool.jobs) \subseteq Workers \X (1 .. 2) BY <1>1 DEF JobPlaces
<1>3. IsFiniteSet(1 .. 2)
  <2>1. PICK a \in Int, b \in Int : a = 1 /\ b = 2 OBVIOUS
  <2>2. IsFiniteSet(a .. b) BY FS_Interval
  <2> QED BY <2>1, <2>2
<1>4. IsFiniteSet(Workers \X (1 .. 2)) BY <1>3, CountFacts, FS_Product
<1>5. IsFiniteSet(JobPlaces(pool.jobs)) BY <1>2, <1>4, FS_Subset
<1> QED BY <1>5, FS_CardinalityType DEF JobCount

\* A step that lists no further job and reserves no further generation.
LEMMA AdmittedStays ==
  ASSUME PoolInv, Admitted, pool'.limits = pool.limits,
         \A v \in Workers : DOMAIN pool'.jobs[v] \subseteq DOMAIN pool.jobs[v],
         DOMAIN pool'.generations \subseteq DOMAIN pool.generations
  PROVE  Admitted'
<1>1. IsFiniteSet(JobPlaces(pool.jobs)) /\ JobCount \in Nat BY PlacesFinite
<1>2. JobPlaces(pool'.jobs) \subseteq JobPlaces(pool.jobs) BY DEF JobPlaces
<1>3. /\ IsFiniteSet(JobPlaces(pool'.jobs))
      /\ Cardinality(JobPlaces(pool'.jobs)) <= Cardinality(JobPlaces(pool.jobs))
  BY <1>1, <1>2, FS_Subset
<1>4. Cardinality(JobPlaces(pool'.jobs)) \in Nat BY <1>3, FS_CardinalityType
<1>5. /\ IsFiniteSet(DOMAIN pool'.generations)
      /\ Cardinality(DOMAIN pool'.generations) <= Cardinality(DOMAIN pool.generations)
  BY FS_Subset DEF Admitted
<1>6. Cardinality(DOMAIN pool'.generations) \in Nat /\ Cardinality(DOMAIN pool.generations) \in Nat
  BY <1>5, FS_CardinalityType DEF Admitted
<1>7. pool.limits.jobs \in Nat /\ pool.limits.generations \in Nat BY CountFacts DEF PoolInv, Types
<1>8. JobCount' <= pool.limits.jobs BY <1>1, <1>3, <1>4, <1>7 DEF JobCount, Admitted
<1>9. Cardinality(DOMAIN pool'.generations) <= pool.limits.generations BY <1>5, <1>6, <1>7 DEF Admitted
<1> QED BY <1>5, <1>8, <1>9 DEF Admitted

\* try_decode adds one job, and at most one generation, below both limits.
LEMMA AdmittedGrows ==
  ASSUME PoolInv, Admitted, NEW key, Admits(key), NEW w \in Workers, NEW job \in Jobs,
         pool'.limits = pool.limits, pool'.jobs[w] = Append(pool.jobs[w], job),
         \A v \in Workers : v # w => pool'.jobs[v] = pool.jobs[v],
         DOMAIN pool'.generations = DOMAIN pool.generations \union {key}
  PROVE  Admitted'
<1>1. IsFiniteSet(JobPlaces(pool.jobs)) /\ JobCount \in Nat BY PlacesFinite
<1>2. pool.limits.jobs \in Nat /\ pool.limits.generations \in Nat BY CountFacts DEF PoolInv, Types
<1>3. pool.jobs[w] \in Seq(Jobs) BY DEF PoolInv, Types
<1>4. DOMAIN pool'.jobs[w] = DOMAIN pool.jobs[w] \union {Len(pool.jobs[w]) + 1} BY <1>3, AppendFacts
<1>5. JobPlaces(pool'.jobs) = JobPlaces(pool.jobs) \union {<<w, Len(pool.jobs[w]) + 1>>}
  <2>1. \A v \in Workers : DOMAIN pool'.jobs[v] =
          DOMAIN pool.jobs[v] \union {i \in {Len(pool.jobs[w]) + 1} : v = w}
    BY <1>4
  <2>2. ASSUME NEW p \in JobPlaces(pool'.jobs)
        PROVE  p \in JobPlaces(pool.jobs) \union {<<w, Len(pool.jobs[w]) + 1>>}
    <3>1. PICK v \in Workers : p \in {v} \X DOMAIN pool'.jobs[v] BY <2>2 DEF JobPlaces
    <3>2. PICK i \in DOMAIN pool'.jobs[v] : p = <<v, i>> BY <3>1
    <3> QED BY <2>1, <3>2 DEF JobPlaces
  <2>3. ASSUME NEW p \in JobPlaces(pool.jobs) PROVE p \in JobPlaces(pool'.jobs)
    BY <2>1 DEF JobPlaces
  <2>4. <<w, Len(pool.jobs[w]) + 1>> \in JobPlaces(pool'.jobs) BY <1>4 DEF JobPlaces
  <2> QED BY <2>2, <2>3, <2>4
<1>6. /\ IsFiniteSet(JobPlaces(pool'.jobs))
      /\ \/ Cardinality(JobPlaces(pool'.jobs)) = Cardinality(JobPlaces(pool.jobs))
         \/ Cardinality(JobPlaces(pool'.jobs)) = Cardinality(JobPlaces(pool.jobs)) + 1
  <2> PICK x : x = <<w, Len(pool.jobs[w]) + 1>> OBVIOUS
  <2>1. JobPlaces(pool'.jobs) = JobPlaces(pool.jobs) \union {x} BY <1>5
  <2>2. /\ IsFiniteSet(JobPlaces(pool.jobs) \union {x})
        /\ Cardinality(JobPlaces(pool.jobs) \union {x}) =
             IF x \in JobPlaces(pool.jobs) THEN Cardinality(JobPlaces(pool.jobs))
                                           ELSE Cardinality(JobPlaces(pool.jobs)) + 1
    BY <1>1, FS_AddElement
  <2> QED BY <2>1, <2>2
<1>7. JobCount' <= pool.limits.jobs BY <1>1, <1>2, <1>6 DEF JobCount, Admits
<1>8. /\ IsFiniteSet(DOMAIN pool.generations) /\ Cardinality(DOMAIN pool.generations) \in Nat
      /\ Cardinality(DOMAIN pool.generations) <= pool.limits.generations
  BY FS_CardinalityType DEF Admitted
<1>9. CASE key \in DOMAIN pool.generations
  <2>1. DOMAIN pool'.generations = DOMAIN pool.generations BY <1>9
  <2> QED BY <1>7, <1>8, <2>1 DEF Admitted
<1>10. CASE key \notin DOMAIN pool.generations
  <2>1. Cardinality(DOMAIN pool.generations) < pool.limits.generations BY <1>10 DEF Admits, Reserves
  <2>2. /\ IsFiniteSet(DOMAIN pool'.generations)
        /\ Cardinality(DOMAIN pool'.generations) = Cardinality(DOMAIN pool.generations) + 1
    BY <1>8, <1>10, FS_AddElement
  <2> QED BY <1>2, <1>7, <1>8, <2>1, <2>2 DEF Admitted
<1> QED BY <1>9, <1>10

-----------------------------------------------------------------------------
(* Failures.                                                               *)

LEMMA FailsOnceStays ==
  ASSUME PoolInv, NEW w \in Workers, FailsOnce(w),
         \/ events' = events
         \/ events # <<>> /\ events' = Tail(events)
         \/ \E e \in Reports : /\ events' = Append(events, e)
                               /\ From(e, w, "failed") => worker[w].pc # "exited"
  PROVE  FailsOnce(w)'
<1>1. CASE events' = events BY <1>1 DEF FailsOnce
<1>2. CASE events # <<>> /\ events' = Tail(events)
  <2>1. \A i \in DOMAIN events' : i \in Nat \ {0} /\ i + 1 \in DOMAIN events /\ events'[i] = events[i + 1]
    BY <1>2, ReportTaken
  <2>2. SUFFICES ASSUME NEW i \in DOMAIN events', NEW j \in DOMAIN events',
                        From(events'[i], w, "failed"), From(events'[j], w, "failed")
                 PROVE  i = j
    BY DEF FailsOnce
  <2>3. i + 1 = j + 1 BY <2>1, <2>2 DEF FailsOnce
  <2> QED BY <2>1, <2>3
<1>3. ASSUME NEW e \in Reports, events' = Append(events, e), From(e, w, "failed") => worker[w].pc # "exited"
      PROVE  FailsOnce(w)'
  <2>1. events \in Seq(Reports) BY DEF PoolInv, Types
  <2>2. /\ DOMAIN events' = DOMAIN events \union {Len(events) + 1} /\ events'[Len(events) + 1] = e
        /\ \A i \in DOMAIN events : events'[i] = events[i]
    BY <1>3, <2>1, AppendFacts
  <2>3. CASE ~From(e, w, "failed") BY <2>2, <2>3 DEF FailsOnce
  <2>4. CASE From(e, w, "failed")
    <3>1. \A i \in DOMAIN events : ~From(events[i], w, "failed")
      BY <1>3, <2>4 DEF PoolInv, WorkerInv, FailureAt
    <3> QED BY <2>2, <3>1 DEF FailsOnce
  <2> QED BY <2>3, <2>4
<1> QED BY <1>1, <1>2, <1>3, Zenon

-----------------------------------------------------------------------------
(* Wakes.                                                                  *)

\* A step that sends no Wake to w.
NoWake(w) ==
  \/ channel'[w].commands = channel[w].commands
  \/ channel'[w].commands = <<>>
  \/ channel[w].commands # <<>> /\ channel'[w].commands = Tail(channel[w].commands)
  \/ \E c \in Commands : c # Wake /\ channel'[w].commands = Append(channel[w].commands, c)

LEMMA PlacesFewer ==
  ASSUME PoolInv, NEW w \in Workers, NoWake(w), WakesAt(w)
  PROVE  /\ \A i, j \in WakePlaces(w)' : i = j
         /\ WakePlaces(w)' # {} => WakePlaces(w) # {}
<1>1. channel[w].commands \in Seq(Commands) BY DEF PoolInv, Types, Lanes
<1>2. CASE channel'[w].commands = channel[w].commands BY <1>2 DEF WakePlaces, WakesAt
<1>3. CASE channel'[w].commands = <<>> BY <1>3 DEF WakePlaces
<1>4. CASE channel[w].commands # <<>> /\ channel'[w].commands = Tail(channel[w].commands)
  <2>1. \A i \in DOMAIN channel'[w].commands :
          i \in Nat \ {0} /\ i + 1 \in DOMAIN channel[w].commands /\ channel'[w].commands[i] = channel[w].commands[i + 1]
    BY <1>1, <1>4, TailFacts
  <2>2. \A i \in WakePlaces(w)' : i \in Nat /\ i + 1 \in WakePlaces(w) BY <2>1 DEF WakePlaces
  <2> QED BY <2>2 DEF WakesAt
<1>5. ASSUME NEW c \in Commands, c # Wake, channel'[w].commands = Append(channel[w].commands, c)
      PROVE  WakePlaces(w)' = WakePlaces(w)
  <2>1. /\ DOMAIN channel'[w].commands = DOMAIN channel[w].commands \union {Len(channel[w].commands) + 1}
        /\ channel'[w].commands[Len(channel[w].commands) + 1] = c
        /\ \A i \in DOMAIN channel[w].commands : channel'[w].commands[i] = channel[w].commands[i]
    BY <1>1, <1>5, AppendFacts
  <2> QED BY <1>5, <2>1 DEF WakePlaces
<1> QED BY <1>2, <1>3, <1>4, <1>5 DEF NoWake, WakesAt

LEMMA WakesStay ==
  ASSUME PoolInv, NEW w \in Workers, WakesAt(w), NoWake(w), channel'[w].wake = channel[w].wake,
         Signalling(w)' => Signalling(w), worker'[w].pc = "clear" => worker[w].pc = "clear"
  PROVE  WakesAt(w)'
<1>1. /\ \A i, j \in WakePlaces(w)' : i = j
      /\ WakePlaces(w)' # {} => WakePlaces(w) # {}
  BY PlacesFewer
<1> QED BY <1>1 DEF WakesAt

\* The worker takes the Wake: the flag stays until it is cleared.
LEMMA WakeTaken ==
  ASSUME PoolInv, NEW w \in Workers, WakesAt(w), channel[w].commands # <<>>, Head(channel[w].commands) = Wake,
         channel'[w].commands = Tail(channel[w].commands), channel'[w].wake = channel[w].wake,
         Signalling(w)' <=> Signalling(w)
  PROVE  WakesAt(w)'
<1>1. channel[w].commands \in Seq(Commands) BY DEF PoolInv, Types, Lanes
<1>2. /\ 1 \in DOMAIN channel[w].commands /\ channel[w].commands[1] = Wake
      /\ \A i \in DOMAIN channel'[w].commands :
           i \in Nat \ {0} /\ i + 1 \in DOMAIN channel[w].commands /\ channel'[w].commands[i] = channel[w].commands[i + 1]
  BY <1>1, TailFacts
<1>3. 1 \in WakePlaces(w) BY <1>2 DEF WakePlaces
<1>4. \A i \in DOMAIN channel'[w].commands : channel'[w].commands[i] # Wake
  <2>1. SUFFICES ASSUME NEW i \in DOMAIN channel'[w].commands, channel'[w].commands[i] = Wake PROVE FALSE
    OBVIOUS
  <2>2. i + 1 \in WakePlaces(w) /\ i \in Nat \ {0} BY <1>2, <2>1 DEF WakePlaces
  <2> QED BY <1>3, <2>2 DEF WakesAt
<1>5. WakePlaces(w)' = {} BY <1>4 DEF WakePlaces
<1> QED BY <1>3, <1>5 DEF WakesAt

-----------------------------------------------------------------------------
(* One step at a time.                                                     *)

\* What the steps of a worker leave of the owner's counts and other workers' wakes.
Aloof(w) ==
  /\ pool' = pool /\ owner' = owner
  /\ \A v \in Workers \ {w} : worker'[v] = worker[v] /\ channel'[v] = channel[v]
  /\ \/ events' = events
     \/ \E e \in Reports : /\ e.worker = w /\ events' = Append(events, e)
                           /\ e.kind = "failed" => worker[w].pc # "exited"

LEMMA AloofKeeps ==
  ASSUME PoolInv, CountInv, NEW w \in Workers, Aloof(w), WakesAt(w)'
  PROVE  CountInv'
<1>1. Admitted' BY DEF Aloof, CountInv, Admitted, JobCount
<1>2. ASSUME NEW v \in Workers PROVE FailsOnce(v)'
  <2>1. \/ events' = events
        \/ \E e \in Reports : /\ events' = Append(events, e)
                              /\ From(e, v, "failed") => worker[v].pc # "exited"
    <3>1. CASE events' = events BY <3>1
    <3>2. ASSUME NEW e \in Reports, e.worker = w, events' = Append(events, e),
                 e.kind = "failed" => worker[w].pc # "exited"
          PROVE  From(e, v, "failed") => worker[v].pc # "exited"
      BY <3>2 DEF From
    <3> QED BY <3>1, <3>2, Zenon DEF Aloof
  <2> QED BY <2>1, FailsOnceStays DEF CountInv
<1>3. ASSUME NEW v \in Workers PROVE WakesAt(v)'
  <2>1. CASE v = w BY <2>1
  <2>2. CASE v # w
    <3>1. /\ worker'[v] = worker[v] /\ channel'[v] = channel[v]
          /\ Signalling(v)' <=> Signalling(v)
      BY <2>2 DEF Aloof, Signalling
    <3> QED BY <3>1, WakesStay DEF CountInv, NoWake
  <2> QED BY <2>1, <2>2
<1> QED BY <1>1, <1>2, <1>3 DEF CountInv

\* The thread's and the channel's fields that WakesAt reads.
LEMMA QuietStepCounts ==
  ASSUME PoolInv, CountInv, NEW w \in Workers,
         \/ Starts(w) \/ ApplyTakes(w) \/ ApplyRetires(w) \/ Applied(w) \/ TakeReceived(w)
         \/ Filled(w) \/ Handle(w) \/ PollReady(w) \/ Renotify(w)
  PROVE  CountInv'
<1>1. channel[w] \in Lanes /\ worker[w] \in Threads BY DEF PoolInv, Types
<1>2. channel' = channel \/ (ApplyTakes(w) /\ channel' = [channel EXCEPT ![w].keys = {}])
  BY Zenon DEF Starts, ApplyTakes, ApplyRetires, Applied, TakeReceived, Filled, Handle, PollReady, Renotify
<1>3. /\ channel'[w].commands = channel[w].commands /\ channel'[w].wake = channel[w].wake
      /\ \A v \in Workers \ {w} : channel'[v] = channel[v]
  <2>1. channel \in [Workers -> Lanes] BY DEF PoolInv, Types
  <2>2. CASE channel' = channel BY <2>2
  <2>3. CASE channel' = [channel EXCEPT ![w].keys = {}] BY <1>1, <2>1, <2>3 DEF Lanes
  <2> QED BY <1>2, <2>2, <2>3
<1>4. pool' = pool /\ owner' = owner
  BY Zenon DEF Starts, ApplyTakes, ApplyRetires, Applied, TakeReceived, Filled, Handle, PollReady, Renotify, Quiet
<1>5. /\ worker'[w].pc # "clear"
      /\ \A v \in Workers \ {w} : worker'[v] = worker[v]
  <2>1. worker \in [Workers -> Threads] BY DEF PoolInv, Types
  <2>2. worker[w].then # "clear" BY <1>1 DEF Threads
  <2>3. CASE Starts(w) BY <1>1, <2>1, <2>3 DEF Starts, Threads
  <2>4. CASE ApplyTakes(w) BY <1>1, <2>1, <2>4 DEF ApplyTakes, Threads
  <2>5. CASE ApplyRetires(w) 
    <3>1. worker[w].pc = "ack" BY <2>5 DEF ApplyRetires
    <3>2. PICK k : worker' = [worker EXCEPT ![w].acks = @ \ {k}, ![w].contexts = @ \ {k}]
      BY <2>5 DEF ApplyRetires
    <3> QED BY <1>1, <2>1, <3>1, <3>2 DEF Threads
  <2>6. CASE Applied(w) BY <1>1, <2>1, <2>2, <2>6 DEF Applied, Threads
  <2>7. CASE TakeReceived(w) BY <1>1, <2>1, <2>7 DEF TakeReceived, Threads
  <2>8. CASE Filled(w) BY <1>1, <2>1, <2>8 DEF Filled, Threads
  <2>9. CASE Handle(w) BY <1>1, <2>1, <2>9 DEF Handle, Threads
  <2>10. CASE PollReady(w) BY <1>1, <2>1, <2>10 DEF PollReady, Threads
  <2>11. CASE Renotify(w) BY <1>1, <2>1, <2>11 DEF Renotify, Threads
  <2> QED BY <2>3, <2>4, <2>5, <2>6, <2>7, <2>8, <2>9, <2>10, <2>11
<1>6. events' = events \/ \E e \in Reports : e.worker = w /\ e.kind # "failed" /\ events' = Append(events, e)
  <2>1. CASE ApplyRetires(w)
    <3>1. PICK k \in worker[w].acks : events' = Append(events, [kind |-> "retired", worker |-> w, key |-> k])
      BY <2>1 DEF ApplyRetires, Emit
    <3>2. [kind |-> "retired", worker |-> w, key |-> k] \in Reports BY <1>1, <3>1 DEF Threads, Reports
    <3> QED BY <3>1, <3>2
  <2>2. CASE PollReady(w)
    <3>1. events' = Append(events, [kind |-> "decoded", worker |-> w, token |-> Head(worker[w].pending)])
      BY <2>2 DEF PollReady, Emit
    <3>2. worker[w].pending # <<>> BY <2>2 DEF PollReady, PoolInv, WorkerInv, TokensAt, StagesAt
    <3>3. worker[w].pending \in Seq(Nat) BY <1>1 DEF Threads
    <3>4. Head(worker[w].pending) \in Nat BY <3>2, <3>3, TailFacts
    <3>5. [kind |-> "decoded", worker |-> w, token |-> Head(worker[w].pending)] \in Reports BY <3>4 DEF Reports
    <3> QED BY <3>1, <3>5
  <2>3. CASE ~ApplyRetires(w) /\ ~PollReady(w)
    BY <2>3, Zenon DEF Starts, ApplyTakes, Applied, TakeReceived, Filled, Handle, Renotify
  <2> QED BY <2>1, <2>2, <2>3
<1>7. Signalling(w)' <=> Signalling(w) BY <1>4 DEF Signalling
<1>8. WakesAt(w)' BY <1>3, <1>5, <1>7, WakesStay DEF CountInv, NoWake
<1>9. Aloof(w) BY <1>3, <1>4, <1>5, <1>6 DEF Aloof
<1> QED BY <1>8, <1>9, AloofKeeps

\* A thread that ends closes its channel.
LEMMA ExitCounts ==
  ASSUME PoolInv, CountInv, NEW w \in Workers, Exit(w), worker[w].pc # "exited", pool' = pool, owner' = owner,
         \/ events' = events
         \/ events' = Append(events, [kind |-> "failed", worker |-> w])
  PROVE  CountInv'
<1>1. /\ channel[w] \in Lanes /\ worker[w] \in Threads
      /\ channel \in [Workers -> Lanes] /\ worker \in [Workers -> Threads]
  BY DEF PoolInv, Types
<1>2. /\ channel'[w].commands = <<>> /\ channel'[w].wake = channel[w].wake
      /\ \A v \in Workers \ {w} : channel'[v] = channel[v] /\ worker'[v] = worker[v]
      /\ worker'[w] = [NoThread EXCEPT !.pc = "exited"]
  BY <1>1 DEF Exit, Lanes
<1>3. worker'[w].pc = "exited" BY <1>2 DEF NoThread
<1>4. Signalling(w)' <=> Signalling(w) BY DEF Signalling
<1>5. WakesAt(w)' BY <1>2, <1>3, <1>4, WakesStay DEF CountInv, NoWake
<1>6. [kind |-> "failed", worker |-> w] \in Reports BY DEF Reports
<1>7. Aloof(w) BY <1>2, <1>6 DEF Aloof
<1> QED BY <1>5, <1>7, AloofKeeps

LEMMA EndingCounts ==
  ASSUME PoolInv, CountInv, NEW w \in Workers, Closed(w) \/ WorkerFails(w)
  PROVE  CountInv'
<1>1. worker[w].pc # "exited" BY DEF Closed, WorkerFails
<1>2. Exit(w) /\ pool' = pool /\ owner' = owner BY Zenon DEF Closed, WorkerFails, Quiet
<1>3. events' = events \/ events' = Append(events, [kind |-> "failed", worker |-> w])
  BY Zenon DEF Closed, WorkerFails, Emit
<1> QED BY <1>1, <1>2, <1>3, ExitCounts

\* Taking a command: a Wake leaves the channel for the thread's `clear'.
LEMMA TakenCounts ==
  ASSUME PoolInv, CountInv, NEW w \in Workers, channel[w].commands # <<>>,
         channel' = [channel EXCEPT ![w].commands = Tail(@)], pool' = pool, owner' = owner, events' = events,
         \A v \in Workers \ {w} : worker'[v] = worker[v],
         worker'[w].pc = "clear" => Head(channel[w].commands) = Wake
  PROVE  CountInv'
<1>1. channel[w] \in Lanes /\ channel \in [Workers -> Lanes] BY DEF PoolInv, Types
<1>2. /\ channel'[w].commands = Tail(channel[w].commands) /\ channel'[w].wake = channel[w].wake
      /\ \A v \in Workers \ {w} : channel'[v] = channel[v]
  BY <1>1 DEF Lanes
<1>3. Signalling(w)' <=> Signalling(w) BY DEF Signalling
<1>4. WakesAt(w)'
  <2>1. CASE Head(channel[w].commands) = Wake BY <1>2, <1>3, <2>1, WakeTaken DEF CountInv
  <2>2. CASE worker'[w].pc # "clear" BY <1>2, <1>3, <2>2, WakesStay DEF CountInv, NoWake
  <2> QED BY <2>1, <2>2
<1>5. Aloof(w) BY <1>2 DEF Aloof
<1> QED BY <1>4, <1>5, AloofKeeps

LEMMA RecvCounts ==
  ASSUME PoolInv, CountInv, NEW w \in Workers, Recv(w)
  PROVE  CountInv'
<1>1. worker \in [Workers -> Threads] /\ worker[w] \in Threads BY DEF PoolInv, Types
<1> PICK c : c = Head(channel[w].commands) OBVIOUS
<1>2. worker' = [worker EXCEPT ![w].pc = IF c = Wake THEN "clear" ELSE "apply",
                               ![w].command = c, ![w].then = "handle"]
  BY Zenon DEF Recv, Taken
<1>3. worker'[w].pc = (IF c = Wake THEN "clear" ELSE "apply") /\ \A v \in Workers \ {w} : worker'[v] = worker[v]
  BY <1>1, <1>2 DEF Threads
<1>4. /\ channel[w].commands # <<>> /\ channel' = [channel EXCEPT ![w].commands = Tail(@)]
      /\ pool' = pool /\ owner' = owner /\ events' = events
  BY Zenon DEF Recv, Quiet
<1> QED BY <1>3, <1>4, TakenCounts

LEMMA ClearCounts ==
  ASSUME PoolInv, CountInv, NEW w \in Workers, ClearWake(w)
  PROVE  CountInv'
<1>1. /\ channel[w] \in Lanes /\ worker[w] \in Threads
      /\ channel \in [Workers -> Lanes] /\ worker \in [Workers -> Threads]
  BY DEF PoolInv, Types
<1>2. /\ worker[w].pc = "clear" /\ worker' = [worker EXCEPT ![w].pc = "apply"]
      /\ channel' = [channel EXCEPT ![w].wake = FALSE]
      /\ pool' = pool /\ owner' = owner /\ events' = events
  BY Zenon DEF ClearWake, Quiet
<1>3. /\ worker'[w].pc = "apply" /\ channel'[w].commands = channel[w].commands
      /\ \A v \in Workers \ {w} : channel'[v] = channel[v] /\ worker'[v] = worker[v]
  BY <1>1, <1>2 DEF Lanes, Threads
<1>4. Signalling(w)' <=> Signalling(w) BY <1>2 DEF Signalling
<1>5. WakePlaces(w)' = WakePlaces(w) BY <1>3 DEF WakePlaces
<1>6. WakesAt(w) BY DEF CountInv
<1>7. WakePlaces(w) = {} /\ ~Signalling(w) BY <1>2, <1>6 DEF WakesAt
<1>8. WakesAt(w)' BY <1>3, <1>4, <1>5, <1>7 DEF WakesAt
<1>9. Aloof(w) BY <1>2, <1>3 DEF Aloof
<1> QED BY <1>8, <1>9, AloofKeeps

LEMMA PollPendingCounts ==
  ASSUME PoolInv, CountInv, NEW w \in Workers, PollPending(w)
  PROVE  CountInv'
<1>1. /\ worker \in [Workers -> Threads] /\ worker[w] \in Threads /\ worker[w].pc = "poll"
      /\ pool' = pool /\ owner' = owner
  BY DEF PoolInv, Types, PollPending, Quiet
<1> PICK commands : commands = channel[w].commands OBVIOUS
<1>2. CASE /\ commands # <<>> /\ Head(commands) = Wake
           /\ Taken(w, Wake, "renotify")
           /\ channel' = [channel EXCEPT ![w].commands = Tail(@)]
           /\ UNCHANGED <<events, notified>>
  <2>1. worker' = [worker EXCEPT ![w].pc = IF Wake = Wake THEN "clear" ELSE "apply",
                                 ![w].command = Wake, ![w].then = "renotify"]
    BY <1>2 DEF Taken
  <2>2. \A v \in Workers \ {w} : worker'[v] = worker[v] BY <1>1, <2>1
  <2> QED BY <1>1, <1>2, <2>2, TakenCounts
<1>3. CASE /\ commands # <<>> /\ Head(commands) # Wake
           /\ worker' = [worker EXCEPT ![w].pc = "apply", ![w].then = "fill", ![w].received = <<Head(commands)>>]
           /\ channel' = [channel EXCEPT ![w].commands = Tail(@)]
           /\ UNCHANGED <<events, notified>>
  <2>1. worker'[w].pc = "apply" /\ \A v \in Workers \ {w} : worker'[v] = worker[v] BY <1>1, <1>3 DEF Threads
  <2> QED BY <1>1, <1>3, <2>1, TakenCounts
<1>4. CASE Exit(w) /\ (Emit([kind |-> "failed", worker |-> w]) \/ UNCHANGED <<events, notified>>)
  BY <1>1, <1>4, ExitCounts DEF Emit
<1>5. CASE /\ worker' = [worker EXCEPT ![w].pc = "apply", ![w].then = "fill"]
           /\ UNCHANGED <<channel, events, notified>>
  <2>1. worker'[w].pc = "apply" /\ \A v \in Workers \ {w} : worker'[v] = worker[v] BY <1>1, <1>5 DEF Threads
  <2>2. Signalling(w)' <=> Signalling(w) BY <1>1 DEF Signalling
  <2>3. channel'[w].commands = channel[w].commands /\ channel'[w].wake = channel[w].wake BY <1>5
  <2>4. WakesAt(w)' BY <2>1, <2>2, <2>3, WakesStay DEF CountInv, NoWake
  <2>5. Aloof(w) BY <1>1, <1>5, <2>1 DEF Aloof
  <2> QED BY <2>4, <2>5, AloofKeeps
<1> QED BY <1>2, <1>3, <1>4, <1>5, Zenon DEF PollPending

LEMMA WorkerStepCounts ==
  ASSUME PoolInv, CountInv, NEW w \in Workers, WorkerStep(w) \/ WorkerFails(w)
  PROVE  CountInv'
BY QuietStepCounts, EndingCounts, RecvCounts, ClearCounts, PollPendingCounts, Zenon DEF WorkerStep

-----------------------------------------------------------------------------
\* A step of the owner that reports nothing, and after which it signals nobody
\* or the worker that had no Wake.
LEMMA OwnerCounts ==
  ASSUME PoolInv, CountInv, events' = events,
         pool'.limits = pool.limits, pool'.jobs = pool.jobs, DOMAIN pool'.generations = DOMAIN pool.generations,
         \A w \in Workers : WakesAt(w)'
  PROVE  CountInv'
<1>1. Admitted' BY AdmittedStays DEF CountInv
<1>2. \A w \in Workers : FailsOnce(w)' BY DEF CountInv, FailsOnce
<1> QED BY <1>1, <1>2 DEF CountInv

LEMMA OwnerMovesCounts ==
  ASSUME PoolInv, CountInv, Drain \/ DropPool \/ AllPublished \/ Joined \/ DrainEnds
  PROVE  CountInv'
<1>1. pool' = pool /\ worker' = worker /\ events' = events
  BY Zenon DEF Drain, DropPool, AllPublished, Joined, DrainEnds
<1>2. owner'.pc # "signal"
  <2>1. owner \in [pc : {"idle", "send", "swap", "signal", "drain", "join", "gone"},
                   todo : SUBSET Keys, key : Keys \union {<<>>}]
    BY DEF PoolInv, Types
  <2> QED BY <2>1 DEF Drain, DropPool, AllPublished, Joined, DrainEnds
<1>3. \A v \in Workers : channel'[v].commands = channel[v].commands /\ channel'[v].wake = channel[v].wake
  <2>1. CASE channel' = channel BY <2>1
  <2>2. CASE DropPool
    <3>1. \A v \in Workers : channel'[v] = [channel[v] EXCEPT !.sender = ~DropCloses(v)] /\ channel[v] \in Lanes
      BY <2>2 DEF DropPool, PoolInv, Types
    <3> QED BY <3>1 DEF Lanes
  <2> QED BY <2>1, <2>2, Zenon DEF Drain, AllPublished, Joined, DrainEnds
<1>4. \A w \in Workers : WakesAt(w)'
  BY <1>1, <1>2, <1>3, WakesStay DEF CountInv, NoWake, Signalling
<1> QED BY <1>1, <1>4, OwnerCounts

LEMMA RetireCounts ==
  ASSUME PoolInv, CountInv, NEW key \in pool.limits.keys, Retire(key)
  PROVE  CountInv'
<1>1. /\ pool \in [limits : Limits, spawned : Nat, jobs : [Workers -> Seq(Jobs)],
                   generations : UNION {[K -> Reservation] : K \in SUBSET Keys},
                   failure : {"none", "token", "acknowledgement", "worker"}]
      /\ owner \in [pc : {"idle", "send", "swap", "signal", "drain", "join", "gone"},
                    todo : SUBSET Keys, key : Keys \union {<<>>}]
  BY DEF PoolInv, Types
<1>2. PICK g : g = [pool.generations EXCEPT ![key].retiring = TRUE] OBVIOUS
<1>3. /\ pool' = [pool EXCEPT !.generations = g] /\ UNCHANGED <<channel, worker, events>>
      /\ owner' = [owner EXCEPT !.pc = "send", !.todo = Publishable(g, pool.jobs)]
  BY <1>2, Zenon DEF Retire
<1>4. DOMAIN g = DOMAIN pool.generations BY <1>2
<1>5. pool'.limits = pool.limits /\ pool'.jobs = pool.jobs /\ pool'.generations = g /\ owner'.pc = "send"
  BY <1>1, <1>3
<1>6. \A w \in Workers : WakesAt(w)'
  BY <1>3, <1>5, WakesStay DEF CountInv, NoWake, Signalling
<1> QED BY <1>3, <1>4, <1>5, <1>6, OwnerCounts

LEMMA PublishCounts ==
  ASSUME PoolInv, CountInv, PublishKey
  PROVE  CountInv'
<1>1. /\ pool \in [limits : Limits, spawned : Nat, jobs : [Workers -> Seq(Jobs)],
                   generations : UNION {[K -> Reservation] : K \in SUBSET Keys},
                   failure : {"none", "token", "acknowledgement", "worker"}]
      /\ channel \in [Workers -> Lanes]
  BY DEF PoolInv, Types
<1>2. PICK k \in owner.todo :
       /\ owner' = [pc |-> "swap", todo |-> owner.todo \ {k}, key |-> k]
       /\ pool' = [pool EXCEPT !.generations[k].sent = TRUE]
       /\ channel' = [channel EXCEPT ![pool.generations[k].worker].keys = @ \union {k}]
  BY DEF PublishKey
<1>3. worker' = worker /\ events' = events BY DEF PublishKey
<1>4. /\ pool'.limits = pool.limits /\ pool'.jobs = pool.jobs
      /\ pool'.generations = [pool.generations EXCEPT ![k].sent = TRUE]
  BY <1>1, <1>2
<1>5. DOMAIN pool'.generations = DOMAIN pool.generations BY <1>4
<1>6. \A v \in Workers : channel'[v].commands = channel[v].commands /\ channel'[v].wake = channel[v].wake
  <2>1. \A v \in Workers : channel[v] \in Lanes BY <1>1
  <2> QED BY <1>1, <1>2, <2>1 DEF Lanes
<1>7. owner'.pc = "swap" BY <1>2
<1>8. \A w \in Workers : WakesAt(w)'
  BY <1>3, <1>6, <1>7, WakesStay DEF CountInv, NoWake, Signalling
<1> QED BY <1>3, <1>4, <1>5, <1>8, OwnerCounts

\* The flag was down, and so no Wake is anywhere: one is about to be sent.
LEMMA SwapCounts ==
  ASSUME PoolInv, CountInv, SwapWake
  PROVE  CountInv'
<1> PICK w : w = pool.generations[owner.key].worker OBVIOUS
<1>1. /\ channel' = [channel EXCEPT ![w].wake = TRUE] /\ UNCHANGED <<pool, worker, events>>
      /\ owner' = [owner EXCEPT !.pc = IF ~channel[w].wake THEN "signal" ELSE "send"]
      /\ owner.pc = "swap"
  BY DEF SwapWake, MustSignal
<1>2. /\ channel \in [Workers -> Lanes]
      /\ owner \in [pc : {"idle", "send", "swap", "signal", "drain", "join", "gone"},
                    todo : SUBSET Keys, key : Keys \union {<<>>}]
  BY DEF PoolInv, Types
<1>3. owner'.key = owner.key /\ owner'.pc = IF ~channel[w].wake THEN "signal" ELSE "send" BY <1>1, <1>2
<1>4. ASSUME NEW v \in Workers PROVE WakesAt(v)'
  <2>1. channel[v] \in Lanes BY <1>2
  <2>2. channel'[v].commands = channel[v].commands BY <1>1, <1>2, <2>1 DEF Lanes
  <2>3. WakePlaces(v)' = WakePlaces(v) /\ worker'[v] = worker[v] BY <1>1, <2>2 DEF WakePlaces
  <2>4. WakesAt(v) BY DEF CountInv
  <2>5. CASE v # w
    <3>1. channel'[v].wake = channel[v].wake BY <1>1, <1>2, <2>5
    <3>2. ~Signalling(v)' BY <1>1, <1>3, <2>5 DEF Signalling
    <3> QED BY <2>3, <2>4, <3>1, <3>2 DEF WakesAt
  <2>6. CASE v = w
    <3>1. channel'[v].wake = TRUE BY <1>1, <1>2, <2>1, <2>6 DEF Lanes
    <3>2. CASE channel[w].wake
      <4>1. ~Signalling(v)' BY <1>3, <3>2 DEF Signalling
      <4> QED BY <2>3, <2>4, <3>1, <4>1 DEF WakesAt
    <3>3. CASE ~channel[w].wake
      <4>1. WakePlaces(v) = {} /\ worker[v].pc # "clear" BY <2>4, <2>6, <3>3 DEF WakesAt
      <4> QED BY <2>3, <3>1, <4>1 DEF WakesAt
    <3> QED BY <3>2, <3>3
  <2> QED BY <2>5, <2>6
<1> QED BY <1>1, <1>4, OwnerCounts

\* The commands of a worker without a Wake are jobs of the owner's list.
LEMMA RoomForWake ==
  ASSUME PoolInv, NEW w \in Workers, WakePlaces(w) = {}
  PROVE  Len(channel[w].commands) <= Len(pool.jobs[w]) /\ Len(pool.jobs[w]) <= pool.limits.depth
<1>1. channel[w].commands \in Seq(Commands) /\ pool.jobs[w] \in Seq(Jobs) BY DEF PoolInv, Types, Lanes
<1>2. Len(pool.jobs[w]) <= pool.limits.depth BY DEF PoolInv, WorkerInv, TokensAt, StagesAt
<1>3. \A i \in DOMAIN channel[w].commands :
        channel[w].commands[i] # Wake /\ channel[w].commands[i].token \in Outstanding(w)
  BY DEF WakePlaces, PoolInv, WorkerInv, TokensAt, ListedAt, UnderWay, Sent
<1> PICK f : f = [i \in DOMAIN channel[w].commands |->
              CHOOSE n \in DOMAIN pool.jobs[w] : pool.jobs[w][n].token = channel[w].commands[i].token]
  OBVIOUS
<1>4. \A i \in DOMAIN channel[w].commands :
        f[i] \in DOMAIN pool.jobs[w] /\ pool.jobs[w][f[i]].token = channel[w].commands[i].token
  BY <1>3 DEF Outstanding
<1>5. \A i, j \in DOMAIN channel[w].commands : f[i] = f[j] => i = j
  <2>1. ASSUME NEW i \in DOMAIN channel[w].commands, NEW j \in DOMAIN channel[w].commands, i < j
        PROVE  f[i] # f[j]
    <3>1. channel[w].commands[i].token < channel[w].commands[j].token
      BY <1>3, <2>1 DEF PoolInv, WorkerInv, TokensAt, SortedAt
    <3>2. channel[w].commands[i] \in Commands /\ channel[w].commands[i] # Wake BY <1>1, <1>3
    <3>3. channel[w].commands[i].token \in Nat BY <3>2 DEF Commands
    <3>4. channel[w].commands[i].token # channel[w].commands[j].token BY <3>1, <3>3
    <3> QED BY <1>4, <3>4
  <2>2. DOMAIN channel[w].commands \subseteq Nat BY <1>1
  <2>3. \A i, j \in DOMAIN channel[w].commands : i < j \/ j < i \/ i = j BY <2>2
  <2> QED BY <2>1, <2>3
<1>6. f \in Injection(DOMAIN channel[w].commands, DOMAIN pool.jobs[w])
  BY <1>4, <1>5 DEF Injection, IsInjective
<1>7. /\ IsFiniteSet(DOMAIN pool.jobs[w]) /\ Cardinality(DOMAIN pool.jobs[w]) = Len(pool.jobs[w])
      /\ Cardinality(DOMAIN channel[w].commands) = Len(channel[w].commands)
  <2>1. PICK m \in Nat, n \in Nat : m = Len(pool.jobs[w]) /\ n = Len(channel[w].commands) BY <1>1
  <2>2. DOMAIN pool.jobs[w] = 1 .. m /\ DOMAIN channel[w].commands = 1 .. n BY <1>1, <2>1
  <2>3. IsFiniteSet(1 .. m) /\ Cardinality(1 .. m) = m /\ Cardinality(1 .. n) = n
    <3>1. PICK a \in Int : a = 1 OBVIOUS
    <3>2. IsFiniteSet(a .. m) /\ Cardinality(a .. m) = IF a > m THEN 0 ELSE m - a + 1 BY FS_Interval
    <3>3. Cardinality(a .. n) = IF a > n THEN 0 ELSE n - a + 1 BY FS_Interval
    <3> QED BY <3>1, <3>2, <3>3
  <2> QED BY <2>1, <2>2, <2>3
<1>8. Cardinality(DOMAIN channel[w].commands) <= Cardinality(DOMAIN pool.jobs[w]) BY <1>6, <1>7, FS_Injection
<1> QED BY <1>2, <1>7, <1>8

LEMMA SignalCounts ==
  ASSUME PoolInv, CountInv, SignalWake
  PROVE  CountInv'
<1>1. UNCHANGED <<pool, worker, events>> /\ owner.pc = "signal" BY Zenon DEF SignalWake
<1>2. owner.key \in DOMAIN pool.generations BY <1>1, Zenon DEF PoolInv, OwnerInv, Publishing
<1>3. PICK w \in Workers : w = pool.generations[owner.key].worker
  <2>1. pool.generations \in [DOMAIN pool.generations -> Reservation] BY GenerationTypes DEF PoolInv, Types
  <2> QED BY <1>2, <2>1 DEF Reservation
<1>4. /\ channel[w] \in Lanes /\ channel \in [Workers -> Lanes]
      /\ owner \in [pc : {"idle", "send", "swap", "signal", "drain", "join", "gone"},
                    todo : SUBSET Keys, key : Keys \union {<<>>}]
  BY DEF PoolInv, Types
<1>5. WakesAt(w) /\ Signalling(w) BY <1>1, <1>3 DEF CountInv, Signalling
<1>6. WakePlaces(w) = {} /\ channel[w].wake BY <1>5 DEF WakesAt
<1>7. ~Full(w)
  <2>1. Len(channel[w].commands) <= Len(pool.jobs[w]) /\ Len(pool.jobs[w]) <= pool.limits.depth
    BY <1>6, RoomForWake
  <2>2. channel[w].commands \in Seq(Commands) /\ pool.jobs[w] \in Seq(Jobs) /\ pool.limits.depth \in Nat
    BY CountFacts DEF PoolInv, Types, Lanes
  <2> QED BY <2>1, <2>2 DEF Full
<1>8. channel' = [channel EXCEPT ![w].wake = channel[w].wake,
                    ![w].commands = IF channel[w].receiver THEN Append(channel[w].commands, Wake) ELSE channel[w].commands]
  BY <1>3, <1>7 DEF SignalWake
<1>9. /\ channel'[w].wake = channel[w].wake /\ \A v \in Workers : v # w => channel'[v] = channel[v]
      /\ channel'[w].commands = (IF channel[w].receiver THEN Append(channel[w].commands, Wake) ELSE channel[w].commands)
  BY <1>4, <1>8 DEF Lanes
<1>10. owner'.pc = "send" BY <1>4 DEF SignalWake
<1>11. ASSUME NEW v \in Workers PROVE WakesAt(v)'
  <2>1. ~Signalling(v)' BY <1>10 DEF Signalling
  <2>2. CASE v # w
    <3>1. channel'[v] = channel[v] BY <1>9, <2>2
    <3> QED BY <1>1, <2>1, <3>1, WakesStay DEF CountInv, NoWake
  <2>3. CASE v = w
    <3>1. worker[w].pc # "clear" BY <1>5 DEF WakesAt
    <3>2. \A i, j \in WakePlaces(w)' : i = j
      <4>1. CASE channel'[w].commands = channel[w].commands BY <1>6, <4>1 DEF WakePlaces
      <4>2. CASE channel'[w].commands = Append(channel[w].commands, Wake)
        <5>1. channel[w].commands \in Seq(Commands) /\ Wake \in Commands BY <1>4 DEF Lanes, Commands
        <5>2. /\ DOMAIN channel'[w].commands = DOMAIN channel[w].commands \union {Len(channel[w].commands) + 1}
              /\ \A i \in DOMAIN channel[w].commands : channel'[w].commands[i] = channel[w].commands[i]
          BY <4>2, <5>1, AppendFacts
        <5> QED BY <1>6, <5>2 DEF WakePlaces
      <4> QED BY <1>9, <4>1, <4>2
    <3> QED BY <1>1, <1>6, <1>9, <2>1, <2>3, <3>1, <3>2 DEF WakesAt
  <2> QED BY <2>2, <2>3
<1> QED BY <1>1, <1>11, OwnerCounts

LEMMA TryDecodeCounts ==
  ASSUME PoolInv, CountInv, NEW key \in pool.limits.keys, TryDecode(key)
  PROVE  CountInv'
<1>1. PICK token \in Nat : token = history.tokens + 1 BY DEF PoolInv, Types
<1>2. key \in Keys BY LimitFacts DEF PoolInv, Types
<1>3. PICK w : /\ Chosen(key, w)
               /\ channel' = [channel EXCEPT ![w].commands = Append(@, Decode(token, key))]
               /\ pool' = [pool EXCEPT
                    !.spawned = IF w > @ THEN w ELSE @,
                    !.jobs[w] = Append(@, [token |-> token, key |-> key]),
                    !.generations = Charged(@, key, w)]
               /\ worker' = IF w > pool.spawned THEN [worker EXCEPT ![w].pc = "init"] ELSE worker
  BY <1>1, Zenon DEF TryDecode, Chosen
<1>4. Admits(key) /\ owner.pc = "idle" /\ owner' = owner /\ events' = events BY Zenon DEF TryDecode
<1>5. w \in Workers
  <2>1. CASE w \in Assignable BY <2>1, AssignedWorker
  <2>2. CASE w \in Home(key)
    <3>1. pool.generations \in [DOMAIN pool.generations -> Reservation] BY GenerationTypes DEF PoolInv, Types
    <3> QED BY <2>2, <3>1 DEF Home, Reservation
  <2> QED BY <1>3, <2>1, <2>2 DEF Chosen
<1>6. /\ pool \in [limits : Limits, spawned : Nat, jobs : [Workers -> Seq(Jobs)],
                   generations : UNION {[K -> Reservation] : K \in SUBSET Keys},
                   failure : {"none", "token", "acknowledgement", "worker"}]
      /\ channel \in [Workers -> Lanes] /\ worker \in [Workers -> Threads]
  BY DEF PoolInv, Types
<1> PICK g : g = Charged(pool.generations, key, w) OBVIOUS
<1>7. DOMAIN g = DOMAIN pool.generations \union {key} BY DEF Charged
<1>8. /\ pool'.limits = pool.limits /\ pool'.generations = g
      /\ pool'.jobs = [pool.jobs EXCEPT ![w] = Append(@, [token |-> token, key |-> key])]
  BY <1>3, <1>6
<1>9. /\ pool'.jobs[w] = Append(pool.jobs[w], [token |-> token, key |-> key])
      /\ \A v \in Workers : v # w => pool'.jobs[v] = pool.jobs[v]
  BY <1>5, <1>6, <1>8
<1>10. [token |-> token, key |-> key] \in Jobs /\ Decode(token, key) \in Commands /\ Decode(token, key) # Wake
  BY <1>2 DEF Jobs, Commands, Decode, Wake
<1>11. Admitted' BY <1>4, <1>5, <1>7, <1>8, <1>9, <1>10, AdmittedGrows DEF CountInv
<1>12. \A v \in Workers : FailsOnce(v)' BY <1>4 DEF CountInv, FailsOnce
<1>13. ASSUME NEW v \in Workers PROVE WakesAt(v)'
  <2>1. ~Signalling(v)' BY <1>4 DEF Signalling
  <2>2. channel[v] \in Lanes /\ worker[v] \in Threads BY <1>6
  <2>3. channel'[v].wake = channel[v].wake BY <1>3, <1>6, <2>2 DEF Lanes
  <2>4. NoWake(v)
    <3>1. CASE v = w
      <4>1. channel'[v].commands = Append(channel[v].commands, Decode(token, key)) BY <1>3, <1>6, <2>2, <3>1 DEF Lanes
      <4> QED BY <1>10, <4>1 DEF NoWake
    <3>2. CASE v # w BY <1>3, <1>6, <3>2 DEF NoWake
    <3> QED BY <3>1, <3>2
  <2>5. worker'[v].pc \in {worker[v].pc, "init"} BY <1>3, <1>6, <2>2 DEF Threads
  <2> QED BY <2>1, <2>3, <2>4, <2>5, WakesStay DEF CountInv
<1> QED BY <1>11, <1>12, <1>13 DEF CountInv

LEMMA SpawnFailsCounts ==
  ASSUME PoolInv, CountInv, NEW key \in pool.limits.keys, SpawnFails(key)
  PROVE  CountInv'
<1>1. PICK w \in Assignable : /\ w > pool.spawned /\ pool' = [pool EXCEPT !.spawned = w]
                              /\ Exit(w) /\ Emit([kind |-> "failed", worker |-> w])
  BY DEF SpawnFails
<1>2. owner' = owner /\ owner.pc = "idle" BY DEF SpawnFails
<1>3. w \in Workers BY AssignedWorker
<1>4. /\ pool \in [limits : Limits, spawned : Nat, jobs : [Workers -> Seq(Jobs)],
                   generations : UNION {[K -> Reservation] : K \in SUBSET Keys},
                   failure : {"none", "token", "acknowledgement", "worker"}]
      /\ channel \in [Workers -> Lanes] /\ worker \in [Workers -> Threads]
  BY DEF PoolInv, Types
<1>5. pool'.limits = pool.limits /\ pool'.jobs = pool.jobs /\ pool'.generations = pool.generations BY <1>1, <1>4
<1>6. Admitted' BY <1>5, AdmittedStays DEF CountInv
<1> PICK e : e = [kind |-> "failed", worker |-> w] OBVIOUS
<1>7. e \in Reports /\ events' = Append(events, e) BY <1>1, <1>3 DEF Reports, Emit
<1>8. worker[w].pc # "exited" BY <1>1, <1>3 DEF PoolInv, WorkerInv, RestingAt
<1>9. \A v \in Workers : FailsOnce(v)'
  <2>1. \A v \in Workers : From(e, v, "failed") => worker[v].pc # "exited" BY <1>8 DEF From
  <2> QED BY <1>7, <2>1, FailsOnceStays DEF CountInv
<1>10. ASSUME NEW v \in Workers PROVE WakesAt(v)'
  <2>1. ~Signalling(v)' BY <1>2 DEF Signalling
  <2>2. channel[v] \in Lanes BY <1>4
  <2>3. channel'[v].wake = channel[v].wake /\ channel'[v].commands \in {channel[v].commands, <<>>}
    BY <1>1, <1>4, <2>2 DEF Exit, Lanes
  <2>4. worker'[v].pc \in {worker[v].pc, "exited"}
    <3>1. worker' = [worker EXCEPT ![w] = [NoThread EXCEPT !.pc = "exited"]] BY <1>1 DEF Exit
    <3> QED BY <1>4, <3>1 DEF NoThread
  <2> QED BY <2>1, <2>3, <2>4, WakesStay DEF CountInv, NoWake
<1> QED BY <1>6, <1>9, <1>10 DEF CountInv

LEMMA DrainEventCounts ==
  ASSUME PoolInv, CountInv, DrainEvent
  PROVE  CountInv'
<1>1. /\ events # <<>> /\ events' = Tail(events) /\ owner.pc = "drain"
      /\ UNCHANGED <<owner, channel, worker>>
  BY DEF DrainEvent
<1>2. Head(events) \in Reports BY <1>1, ReportTaken
<1>3. PICK w \in Workers : w = Head(events).worker BY <1>2 DEF Reports
<1>4. Head(events).kind \in {"decoded", "retired", "failed"} BY <1>2 DEF Reports
<1>5. pool \in [limits : Limits, spawned : Nat, jobs : [Workers -> Seq(Jobs)],
                generations : UNION {[K -> Reservation] : K \in SUBSET Keys},
                failure : {"none", "token", "acknowledgement", "worker"}]
  BY DEF PoolInv, Types
<1>6. \/ pool' = [pool EXCEPT !.jobs[w] = Tail(@)] /\ pool.jobs[w] # <<>>
      \/ \E why : pool' = Failed(pool, why)
      \/ \E k : pool' = [pool EXCEPT !.generations = [m \in DOMAIN pool.generations \ {k} |-> pool.generations[m]]]
      \/ pool' = [Failed(pool, "worker") EXCEPT !.jobs[w] = <<>>]
  <2>1. CASE Head(events).kind = "decoded" BY <1>3, <2>1 DEF DrainEvent
  <2>2. CASE Head(events).kind = "retired"
    <3> PICK k : k = Head(events).key OBVIOUS
    <3>1. \/ pool' = [pool EXCEPT !.generations = [m \in DOMAIN @ \ {k} |-> @[m]]]
          \/ pool' = Failed(pool, "acknowledgement")
      BY <1>3, <2>2, Zenon DEF DrainEvent
    <3> QED BY <3>1
  <2>3. CASE Head(events).kind = "failed" BY <1>3, <2>3 DEF DrainEvent, JobsAfterFailure
  <2> QED BY <1>4, <2>1, <2>2, <2>3
<1>7. /\ pool'.limits = pool.limits
      /\ \A v \in Workers : DOMAIN pool'.jobs[v] \subseteq DOMAIN pool.jobs[v]
      /\ DOMAIN pool'.generations \subseteq DOMAIN pool.generations
  <2>1. CASE pool' = [pool EXCEPT !.jobs[w] = Tail(@)] /\ pool.jobs[w] # <<>>
    <3>1. pool'.limits = pool.limits /\ pool'.generations = pool.generations
          /\ pool'.jobs = [pool.jobs EXCEPT ![w] = Tail(@)]
      BY <1>5, <2>1
    <3>2. \A v \in Workers : v # w => pool'.jobs[v] = pool.jobs[v] BY <1>5, <3>1
    <3>3. pool'.jobs[w] = Tail(pool.jobs[w]) /\ pool.jobs[w] \in Seq(Jobs) BY <1>5, <3>1
    <3>4. DOMAIN pool'.jobs[w] \subseteq DOMAIN pool.jobs[w] BY <2>1, <3>3
    <3> QED BY <3>1, <3>2, <3>4
  <2>2. CASE \E why : pool' = Failed(pool, why) BY <1>5, <2>2 DEF Failed
  <2>3. CASE \E k : pool' = [pool EXCEPT !.generations = [m \in DOMAIN pool.generations \ {k} |-> pool.generations[m]]]
    BY <1>5, <2>3
  <2>4. CASE pool' = [Failed(pool, "worker") EXCEPT !.jobs[w] = <<>>]
    <3>1. pool'.limits = pool.limits /\ pool'.generations = pool.generations
          /\ pool'.jobs = [pool.jobs EXCEPT ![w] = <<>>]
      BY <1>5, <2>4 DEF Failed
    <3>2. \A v \in Workers : pool'.jobs[v] \in {pool.jobs[v], <<>>} BY <1>5, <3>1
    <3> QED BY <3>1, <3>2
  <2> QED BY <1>6, <2>1, <2>2, <2>3, <2>4
<1>8. Admitted' BY <1>7, AdmittedStays DEF CountInv
<1>9. \A v \in Workers : FailsOnce(v)' BY <1>1, FailsOnceStays DEF CountInv
<1>10. \A v \in Workers : WakesAt(v)' BY <1>1, WakesStay DEF CountInv, NoWake, Signalling
<1> QED BY <1>8, <1>9, <1>10 DEF CountInv

-----------------------------------------------------------------------------
LEMMA InitCounts == Init => CountInv
<1>1. SUFFICES ASSUME Init PROVE CountInv OBVIOUS
<1>2. /\ owner = [pc |-> "idle", todo |-> {}, key |-> <<>>] /\ events = <<>>
      /\ channel = [w \in Workers |-> [commands |-> <<>>, sender |-> TRUE, receiver |-> TRUE,
                                       keys |-> {}, wake |-> FALSE]]
      /\ worker = [w \in Workers |-> NoThread]
  BY <1>1 DEF Init
<1>3. PICK limits \in Limits :
        pool = [limits |-> limits, spawned |-> 0, jobs |-> [w \in Workers |-> <<>>],
                generations |-> Empty, failure |-> "none"]
  BY <1>1 DEF Init
<1>4. /\ pool.limits = limits /\ DOMAIN pool.generations = {} /\ \A w \in Workers : pool.jobs[w] = <<>>
      /\ limits.jobs \in Nat /\ limits.generations \in Nat
  BY <1>3, CountFacts DEF Empty
<1>5. JobPlaces(pool.jobs) = {} BY <1>4 DEF JobPlaces
<1>6. IsFiniteSet({}) /\ Cardinality({}) = 0 BY FS_EmptySet
<1>7. Admitted BY <1>4, <1>5, <1>6 DEF Admitted, JobCount
<1>8. \A w \in Workers : FailsOnce(w) BY <1>2 DEF FailsOnce
<1>9. ASSUME NEW w \in Workers PROVE WakesAt(w)
  <2>1. worker[w].pc = "absent" /\ channel[w].commands = <<>> /\ ~Signalling(w)
    BY <1>2 DEF NoThread, Signalling
  <2>2. WakePlaces(w) = {} BY <2>1 DEF WakePlaces
  <2> QED BY <2>1, <2>2 DEF WakesAt
<1> QED BY <1>7, <1>8, <1>9 DEF CountInv

LEMMA NextCounts ==
  ASSUME PoolInv, CountInv, [Next]_vars
  PROVE  CountInv'
<1>1. CASE UNCHANGED vars
  <2>1. UNCHANGED <<owner, pool, channel, worker, events>> BY <1>1 DEF vars
  <2>2. \A w \in Workers : WakesAt(w)'
    BY <2>1, WakesStay DEF CountInv, NoWake, Signalling
  <2> QED BY <2>1, <2>2, OwnerCounts
<1> QED BY <1>1, TryDecodeCounts, SpawnFailsCounts, RetireCounts, OwnerMovesCounts, PublishCounts, SwapCounts,
     SignalCounts, DrainEventCounts, WorkerStepCounts, Zenon DEF Next, OwnerStep

-----------------------------------------------------------------------------
(* The event channel, counted against what the owner has listed.           *)

ReportsOf(kind) == {i \in DOMAIN events : events[i].kind = kind}

\* One job in the owner's list for each result in the channel.
LEMMA ResultsWithin ==
  ASSUME PoolInv, CountInv
  PROVE  Cardinality(ReportsOf("decoded")) <= pool.limits.jobs
<1>1. events \in Seq(Reports) BY DEF PoolInv, Types
<1>2. \A i \in ReportsOf("decoded") : events[i] \in Reports /\ events[i].kind = "decoded" BY <1>1 DEF ReportsOf
<1>3. \A i \in ReportsOf("decoded") :
        /\ events[i].worker \in Workers /\ events[i].token \in Nat
        /\ From(events[i], events[i].worker, "decoded")
  BY <1>2 DEF Reports, From
<1>4. \A i \in ReportsOf("decoded") : events[i].token \in Outstanding(events[i].worker)
  <2>1. SUFFICES ASSUME NEW i \in ReportsOf("decoded") PROVE events[i].token \in Outstanding(events[i].worker)
    OBVIOUS
  <2>2. i \in DOMAIN events BY DEF ReportsOf
  <2>3. events[i].token \in Decoded(events[i].worker) BY <1>3, <2>2 DEF Decoded
  <2> QED BY <1>3, <2>3 DEF PoolInv, WorkerInv, TokensAt, ListedAt, UnderWay
<1> PICK f : f = [i \in ReportsOf("decoded") |->
              CHOOSE p \in JobPlaces(pool.jobs) :
                p[1] = events[i].worker /\ pool.jobs[p[1]][p[2]].token = events[i].token]
  OBVIOUS
<1>5. \A i \in ReportsOf("decoded") : /\ f[i] \in JobPlaces(pool.jobs) /\ f[i][1] = events[i].worker
                                     /\ pool.jobs[f[i][1]][f[i][2]].token = events[i].token
  <2>1. SUFFICES ASSUME NEW i \in ReportsOf("decoded")
                 PROVE  \E p \in JobPlaces(pool.jobs) :
                          p[1] = events[i].worker /\ pool.jobs[p[1]][p[2]].token = events[i].token
    OBVIOUS
  <2>2. PICK n \in DOMAIN pool.jobs[events[i].worker] : pool.jobs[events[i].worker][n].token = events[i].token
    BY <1>4 DEF Outstanding
  <2>3. <<events[i].worker, n>> \in JobPlaces(pool.jobs) BY <1>3 DEF JobPlaces
  <2> QED BY <2>2, <2>3
<1>6. \A i, j \in ReportsOf("decoded") : f[i] = f[j] => i = j
  <2>1. ASSUME NEW i \in ReportsOf("decoded"), NEW j \in ReportsOf("decoded"), i < j
        PROVE  f[i] # f[j]
    <3>1. SUFFICES ASSUME f[i] = f[j] PROVE FALSE OBVIOUS
    <3>2. events[i].worker = events[j].worker /\ events[i].token = events[j].token BY <1>5, <3>1
    <3>3. ReportsSortedAt(events[i].worker) BY <1>3 DEF PoolInv, WorkerInv, TokensAt
    <3>4. i \in DOMAIN events /\ j \in DOMAIN events BY DEF ReportsOf
    <3>5. From(events[i], events[i].worker, "decoded") /\ From(events[j], events[i].worker, "decoded")
      BY <1>3, <3>2
    <3>6. events[i].token < events[j].token BY <2>1, <3>3, <3>4, <3>5 DEF ReportsSortedAt
    <3>7. events[i].token \in Nat BY <1>3
    <3> QED BY <3>2, <3>6, <3>7
  <2>2. ReportsOf("decoded") \subseteq Nat BY <1>1 DEF ReportsOf
  <2>3. \A i, j \in Nat : i < j \/ j < i \/ i = j OBVIOUS
  <2> QED BY <2>1, <2>2, <2>3
<1>7. f \in Injection(ReportsOf("decoded"), JobPlaces(pool.jobs)) BY <1>5, <1>6 DEF Injection, IsInjective
<1>8. IsFiniteSet(JobPlaces(pool.jobs)) /\ JobCount \in Nat BY PlacesFinite
<1>9. IsFiniteSet(ReportsOf("decoded")) /\ Cardinality(ReportsOf("decoded")) <= JobCount
  BY <1>7, <1>8, FS_Injection DEF JobCount
<1>10. Cardinality(ReportsOf("decoded")) \in Nat BY <1>9, FS_CardinalityType
<1>11. pool.limits.jobs \in Nat /\ JobCount <= pool.limits.jobs BY CountFacts DEF PoolInv, Types, CountInv, Admitted
<1> QED BY <1>8, <1>9, <1>10, <1>11

\* One reservation for each acknowledgement in the channel.
LEMMA ReceiptsWithin ==
  ASSUME PoolInv, CountInv
  PROVE  Cardinality(ReportsOf("retired")) <= pool.limits.generations
<1>1. events \in Seq(Reports) BY DEF PoolInv, Types
<1>2. \A i \in ReportsOf("retired") : events[i] \in Reports /\ events[i].kind = "retired" /\ i \in DOMAIN events
  BY <1>1 DEF ReportsOf
<1>3. \A i \in ReportsOf("retired") :
        events[i].worker \in Workers /\ From(events[i], events[i].worker, "retired")
  BY <1>2 DEF Reports, From
<1>4. \A i \in ReportsOf("retired") : events[i].key \in Owned(events[i].worker)
  <2>1. SUFFICES ASSUME NEW i \in ReportsOf("retired") PROVE events[i].key \in Owned(events[i].worker)
    OBVIOUS
  <2>2. events[i].key \in Acknowledged(events[i].worker) BY <1>2, <1>3 DEF Acknowledged
  <2> QED BY <1>3, <2>2 DEF PoolInv, WorkerInv, MailAt
<1> PICK f : f = [i \in ReportsOf("retired") |-> events[i].key] OBVIOUS
<1>5. \A i \in ReportsOf("retired") :
        /\ f[i] = events[i].key /\ f[i] \in DOMAIN pool.generations
        /\ pool.generations[f[i]].worker = events[i].worker
  BY <1>4 DEF Owned
<1>6. \A i, j \in ReportsOf("retired") : f[i] = f[j] => i = j
  <2>1. SUFFICES ASSUME NEW i \in ReportsOf("retired"), NEW j \in ReportsOf("retired"), f[i] = f[j], i # j
                 PROVE  FALSE
    OBVIOUS
  <2>2. events[i].worker = events[j].worker /\ events[i].key = events[j].key BY <1>5, <2>1
  <2>3. ReceiptsDistinct(events[i].worker) BY <1>3 DEF PoolInv, WorkerInv, MailAt
  <2>4. From(events[i], events[i].worker, "retired") /\ From(events[j], events[i].worker, "retired") BY <1>3, <2>2
  <2> QED BY <1>2, <2>1, <2>2, <2>3, <2>4 DEF ReceiptsDistinct
<1>7. f \in Injection(ReportsOf("retired"), DOMAIN pool.generations) BY <1>5, <1>6 DEF Injection, IsInjective
<1>8. /\ IsFiniteSet(DOMAIN pool.generations)
      /\ Cardinality(DOMAIN pool.generations) <= pool.limits.generations
      /\ Cardinality(DOMAIN pool.generations) \in Nat
  BY FS_CardinalityType DEF CountInv, Admitted
<1>9. /\ IsFiniteSet(ReportsOf("retired"))
      /\ Cardinality(ReportsOf("retired")) <= Cardinality(DOMAIN pool.generations)
  BY <1>7, <1>8, FS_Injection
<1>10. Cardinality(ReportsOf("retired")) \in Nat BY <1>9, FS_CardinalityType
<1>11. pool.limits.generations \in Nat BY CountFacts DEF PoolInv, Types
<1> QED BY <1>8, <1>9, <1>10, <1>11

\* One spawned worker for each failure in the channel.
LEMMA FailuresWithin ==
  ASSUME PoolInv, CountInv
  PROVE  Cardinality(ReportsOf("failed")) <= pool.limits.workers
<1>1. events \in Seq(Reports) BY DEF PoolInv, Types
<1>2. \A i \in ReportsOf("failed") : events[i] \in Reports /\ events[i].kind = "failed" /\ i \in DOMAIN events
  BY <1>1 DEF ReportsOf
<1>3. \A i \in ReportsOf("failed") :
        events[i].worker \in Workers /\ From(events[i], events[i].worker, "failed")
  BY <1>2 DEF Reports, From
<1>4. \A i \in ReportsOf("failed") : events[i].worker \in 1 .. pool.spawned
  <2>1. SUFFICES ASSUME NEW i \in ReportsOf("failed") PROVE events[i].worker \in 1 .. pool.spawned OBVIOUS
  <2> PICK w \in Workers : w = events[i].worker BY <1>3
  <2>2. worker[w].pc = "exited" BY <1>2, <1>3 DEF PoolInv, WorkerInv, FailureAt
  <2>3. ~(w > pool.spawned) BY <2>2 DEF PoolInv, WorkerInv, RestingAt
  <2>4. w \in Nat \ {0} /\ pool.spawned \in Nat BY LimitFacts DEF PoolInv, Types
  <2> QED BY <2>3, <2>4
<1> PICK f : f = [i \in ReportsOf("failed") |-> events[i].worker] OBVIOUS
<1>5. \A i, j \in ReportsOf("failed") : f[i] = f[j] => i = j
  <2>1. SUFFICES ASSUME NEW i \in ReportsOf("failed"), NEW j \in ReportsOf("failed"), f[i] = f[j]
                 PROVE  i = j
    OBVIOUS
  <2>2. From(events[i], events[i].worker, "failed") /\ From(events[j], events[i].worker, "failed") BY <1>3, <2>1
  <2>3. FailsOnce(events[i].worker) BY <1>3 DEF CountInv
  <2> QED BY <1>2, <2>2, <2>3 DEF FailsOnce
<1>6. f \in Injection(ReportsOf("failed"), 1 .. pool.spawned) BY <1>4, <1>5 DEF Injection, IsInjective
<1>7. pool.spawned \in Nat /\ pool.limits.workers \in Nat /\ pool.spawned <= pool.limits.workers
  BY CountFacts DEF PoolInv, Types, OwnerInv
<1>8. IsFiniteSet(1 .. pool.spawned) /\ Cardinality(1 .. pool.spawned) = pool.spawned
  <2>1. PICK a \in Int, n \in Int : a = 1 /\ n = pool.spawned BY <1>7
  <2>2. IsFiniteSet(a .. n) /\ Cardinality(a .. n) = IF a > n THEN 0 ELSE n - a + 1 BY FS_Interval
  <2> QED BY <1>7, <2>1, <2>2
<1>9. IsFiniteSet(ReportsOf("failed")) /\ Cardinality(ReportsOf("failed")) <= pool.spawned
  BY <1>6, <1>8, FS_Injection
<1>10. Cardinality(ReportsOf("failed")) \in Nat BY <1>9, FS_CardinalityType
<1> QED BY <1>7, <1>9, <1>10

\* A Wake finds room: the worker's commands are jobs, of which there are no more
\* than its slots.
LEMMA SignalHasRoom ==
  ASSUME PoolInv, CountInv, owner.pc = "signal"
  PROVE  ~Full(pool.generations[owner.key].worker)
<1>1. owner.key \in DOMAIN pool.generations BY Zenon DEF PoolInv, OwnerInv, Publishing
<1>2. PICK w \in Workers : w = pool.generations[owner.key].worker
  <2>1. pool.generations \in [DOMAIN pool.generations -> Reservation] BY GenerationTypes DEF PoolInv, Types
  <2> QED BY <1>1, <2>1 DEF Reservation
<1>3. WakesAt(w) /\ Signalling(w) BY <1>2 DEF CountInv, Signalling
<1>4. WakePlaces(w) = {} BY <1>3 DEF WakesAt
<1>5. Len(channel[w].commands) <= Len(pool.jobs[w]) /\ Len(pool.jobs[w]) <= pool.limits.depth
  BY <1>4, RoomForWake
<1>6. channel[w].commands \in Seq(Commands) /\ pool.jobs[w] \in Seq(Jobs) /\ pool.limits.depth \in Nat
  BY CountFacts DEF PoolInv, Types, Lanes
<1>7. ~Full(w) BY <1>5, <1>6 DEF Full
<1> QED BY <1>2, <1>7

\* Every queue between the owner and its workers stays within what the pool was
\* given: the jobs, the commands with their Wake, and the event channel, which
\* has no limit of its own.
THEOREM PoolAlwaysWithinLimits == Spec => []PoolWithinLimits
<1>1. PoolInv /\ CountInv => PoolWithinLimits
  <2>1. SUFFICES ASSUME PoolInv, CountInv PROVE ContextsReserved /\ ChannelsBounded BY DEF PoolWithinLimits
  <2>2. ContextsReserved BY <2>1 DEF PoolInv, WorkerInv, MailAt, ContextsReserved
  <2>3. JobCount <= pool.limits.jobs BY <2>1 DEF CountInv, Admitted
  <2>4. \A w \in Workers : Len(pool.jobs[w]) <= pool.limits.depth /\ Len(worker[w].pending) <= pool.limits.depth
    BY <2>1 DEF PoolInv, WorkerInv, TokensAt, StagesAt
  <2>5. owner.pc = "signal" => ~Full(pool.generations[owner.key].worker) BY <2>1, SignalHasRoom
  <2>6. /\ Cardinality(ReportsOf("decoded")) <= pool.limits.jobs
        /\ Cardinality(ReportsOf("retired")) <= pool.limits.generations
        /\ Cardinality(ReportsOf("failed")) <= pool.limits.workers
    BY <2>1, ResultsWithin, ReceiptsWithin, FailuresWithin
  <2>7. ChannelsBounded BY <2>3, <2>4, <2>5, <2>6 DEF ChannelsBounded, ReportsOf
  <2> QED BY <2>2, <2>7
<1>2. Init => CountInv BY InitCounts
<1>3. PoolInv /\ CountInv /\ [Next]_vars => CountInv' BY NextCounts
<1> QED BY <1>1, <1>2, <1>3, PoolInvariant, PTL DEF Spec
=============================================================================
