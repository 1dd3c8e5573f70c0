--------------------------- MODULE EncodedSource ---------------------------
(***************************************************************************)
(* The source end of an encoded hoist: EncodedSourceState and              *)
(* EncodedSourcePort (weld-hoist-encoded state.rs, output.rs,              *)
(* state/source_budget.rs), driven by SourceRelayAdapter (weld-hoist-core  *)
(* relay.rs).                                                              *)
(*                                                                         *)
(* The helpers of the code are operators from a port state to a port       *)
(* state; a call composes them and ends in Progress, which flushes. What a *)
(* call published waits in outControl and outMedia. The loop of            *)
(* schedule_at is one step per iteration while src.call is not "idle". The *)
(* scheduler's choice of a surface, the pacing clock and the rates that    *)
(* rotate a stream are left open. admission_deferred is true only between  *)
(* the parts of SourcePoll.                                                *)
(***************************************************************************)
EXTENDS EncodedLanes, PendingEvents

CONSTANT NoSurface

Shapes == limits.shapes          \* the commits a client makes: [layers, replaced, mapped]
MaxPending == limits.pending     \* MAX_PENDING_SOURCE_EVENTS, for the pending queues
MaxBacklog == limits.backlog     \* the same number, for SourceOutput.control
MaxRevisions == limits.revisions \* bound: commits of one surface
MaxControls == limits.controls   \* bound: role and metadata changes of one surface
MaxSessions == limits.sessions   \* bound: hoist sessions issued
MaxResizes == limits.resizes     \* bound: resize gestures
MaxTurns == limits.turns         \* bound: generations of one stream

ASSUME SourceAssumption ==
  /\ NoSurface \notin Surfaces
  /\ \A l \in Links :
       /\ {l.pending, l.backlog, l.revisions, l.controls, l.sessions, l.resizes, l.turns} \subseteq Nat
       /\ \A shape \in l.shapes :
            /\ shape.replaced \subseteq shape.layers /\ shape.layers \subseteq Layers
            /\ Cardinality(shape.layers) <= l.batch

VARIABLES
  client,    \* what the relay has cached of each surface: what is to be shown
  replay,    \* events the call under way still has to submit
  bounds,    \* sessions and resize gestures used
  src        \* the port

sourceVars == <<client, replay, bounds, src>>

NoBatch == [surface |-> NoSurface]

SourceInit ==
  /\ client = [s \in Surfaces |-> [alive |-> s \in limits.surfaces, session |-> 0, rev |-> 0, mapped |-> FALSE,
                                   layers |-> Empty, role |-> 1, meta |-> 1]]
  /\ replay = <<>>
  /\ bounds = [sessions |-> 0, resizes |-> 0]
  /\ src = [pending |-> [s \in Surfaces |-> <<>>], resizing |-> {}, streams |-> Empty,
            nextStream |-> 1, batch |-> NoBatch, outControl |-> <<>>, outMedia |-> <<>>,
            encoders |-> {}, call |-> "idle", error |-> "none"]

-----------------------------------------------------------------------------
(* Helpers of EncodedSourceState.                                          *)

Send(st, e) == [st EXCEPT !.outControl = Append(@, e)]

\* retire_generation: not while the cancelled job may still create it.
RetirableAnyway(st, gens) == gens
Retirable(st, gens) ==
  gens \ {Generation(b.active) : b \in {x \in {st.batch} : x # NoBatch /\ x.cancelled}}
Retire(st, gens) == [st EXCEPT !.encoders = @ \ Retirable(st, gens)]

StreamsOf(st, s) == {k \in DOMAIN st.streams : k[1] = s}

\* cancel_encode
PurgedNone(q) == q
Purged(q) == <<>>
CancelledKept(b) == b
Cancelled(b) == [b EXCEPT !.cancelled = TRUE, !.todo = <<>>, !.done = <<>>]
CancelEncode(st, s) ==
  LET gone == StreamsOf(st, s)
      after == [st EXCEPT !.pending[s] = Purged(@), !.resizing = @ \ {s},
                          !.batch = IF @.surface = s THEN Cancelled(@) ELSE @,
                          !.streams = Without(@, gone)]
  IN Retire(after, {Generation(st.streams[k]) : k \in gone})

\* prepare_streams: layers that left the inventory lose their stream, layers
\* replaced for the first time get one.
PrepareStreams(st, e) ==
  LET gone == {k \in StreamsOf(st, e.surface) : k[2] \notin e.layers}
      new == {l \in DOMAIN e.buffers : <<e.surface, l>> \notin DOMAIN st.streams}
      fresh == [k \in {e.surface} \X new |->
                 [stream |-> st.nextStream + Rank(new, k[2]), gen |-> 1, next |-> 0]]
  IN [Retire(st, {Generation(st.streams[k]) : k \in gone}) EXCEPT
        !.streams = Over(Without(@, gone), fresh), !.nextStream = @ + Cardinality(new)]

\* allocate_frame: a new extent, rate or frame rate starts a new generation.
TurnedCounting(r) == [r EXCEPT !.gen = @ + 1]
Turned(r) == [r EXCEPT !.gen = @ + 1, !.next = 0]
Allocation(st, e, turned) ==
  [l \in DOMAIN e.buffers |-> LET r == st.streams[<<e.surface, l>>]
                              IN IF l \in turned THEN Turned(r) ELSE r]
SubmitBatch(st, e, turned) ==
  LET streams == Allocation(st, e, turned)
      frames == [l \in DOMAIN e.buffers |->
                  Frame(streams[l].stream, streams[l].gen, streams[l].next, e.buffers[l])]
      event == [e EXCEPT !.buffers = frames]
      jobs == Frames(event)
      used == [k \in {e.surface} \X DOMAIN e.buffers |-> [streams[k[2]] EXCEPT !.next = @ + 1]]
      old == Retire(st, {Generation(st.streams[<<e.surface, l>>]) : l \in turned})
  IN [old EXCEPT !.streams = Over(used, @), !.encoders = @ \union {Generation(Head(jobs))},
                 !.batch = [surface |-> e.surface, session |-> e.session, event |-> event,
                            active |-> Head(jobs), todo |-> Tail(jobs), done |-> <<>>,
                            cancelled |-> FALSE]]

SubmitOrSend(st, e, turned) ==
  IF e.kind # "commit" THEN Send(st, e)
  ELSE IF DOMAIN e.buffers = {} THEN Send(PrepareStreams(st, e), e)
  ELSE SubmitBatch(PrepareStreams(st, e), e, turned)

\* The streams that a scheduled commit may turn: those already in use.
Turnable(st, e) ==
  IF e.kind # "commit" THEN {}
  ELSE {l \in DOMAIN e.buffers : /\ <<e.surface, l>> \in DOMAIN st.streams
                                 /\ st.streams[<<e.surface, l>>].gen < MaxTurns}

\* queue_event: the limit counts the events of all surfaces.
QueueEvent(st, e) ==
  LET q == st.pending[e.surface]
      room == MaxPending - SumFunction([s \in Surfaces |-> Len(st.pending[s])])
  IN IF Refused(q, e, Len(q) + room) THEN [st EXCEPT !.error = "pending"]
     ELSE [st EXCEPT !.pending[e.surface] = Insert(q, e)]

NeedsPacing(e) == e.kind = "commit" /\ e.mapped /\ DOMAIN e.buffers # {}
Blocked(st) == st.outControl # <<>> \/ st.outMedia # <<>> \/ Len(media) >= MediaHeadroom
SurfaceBusyQueued(st, s) == st.pending[s] # <<>>
SurfaceBusy(st, s) == st.pending[s] # <<>> \/ st.batch.surface = s

\* A full unmap supersedes unpublished pixels, and no control. `layers' is the
\* inventory commit.buffers: every layer the surface has, whether its pixels are
\* replaced or retained, so that none is the code's buffers.is_empty().
Unmaps(e) == e.kind = "commit" /\ ~e.mapped /\ e.layers = {}
Surviving(q) == Dropping(q, {r \in ToSet(q) : r.event.kind = "commit"})
FullUnmap(st, e) ==
  LET kept == Surviving(st.pending[e.surface])
  IN Send([CancelEncode(st, e.surface) EXCEPT !.outControl = @ \o [i \in DOMAIN kept |-> kept[i].event]], e)

\* EncodedSourceState::enqueue; `ready' is the pacing clock's answer.
NoneWaiting(st) == FALSE
Waiting(st) == \E s \in Surfaces : st.pending[s] # <<>>
MustQueue(st, e, ready) ==
  \/ e.surface \in st.resizing \/ Blocked(st) \/ st.batch # NoBatch \/ Waiting(st)
  \/ NeedsPacing(e) /\ ~ready
Enqueue(st, e, ready, turned) ==
  CASE Unmaps(e) -> FullUnmap(st, e)
    [] e.kind = "commit" /\ ~Unmaps(e) ->
         IF MustQueue(st, e, ready) THEN QueueEvent(st, e) ELSE SubmitOrSend(st, e, turned)
    [] e.kind = "destroyed" -> Send(CancelEncode(st, e.surface), e)
    [] OTHER -> IF SurfaceBusy(st, e.surface) THEN QueueEvent(st, e) ELSE Send(st, e)

-----------------------------------------------------------------------------
(* EncodedSourcePort::flush and progress.                                  *)

Sendable(q, lane, room) == Min({Len(q), room - Len(lane)})
Drop(q, n) == SubSeq(q, n + 1, Len(q))

\* What flush leaves of the port, and what it has sent: p is a port state with
\* the lanes as the call found them. Each lane takes what it has room for.
Failure(st) ==
  IF st.error # "none" THEN st.error
  ELSE IF Len(st.outControl) > MaxBacklog THEN "backlog"
  ELSE IF Len(st.outMedia) > MaxBatch THEN "batch"
  ELSE "none"

Flush(p) ==
  LET c == Sendable(p.st.outControl, p.control, ControlRoom)
      m == Sendable(p.st.outMedia, p.media, MediaRoom)
  IN IF Failure(p.st) # "none" THEN [p EXCEPT !.st.error = Failure(p.st)]
     ELSE [st |-> [p.st EXCEPT !.outControl = Drop(@, c), !.outMedia = Drop(@, m)],
           control |-> p.control \o SubSeq(p.st.outControl, 1, c),
           media |-> p.media \o SubSeq(p.st.outMedia, 1, m)]

\* progress: flush, and enter schedule_at if it would not return at once.
Schedulable(p) ==
  /\ p.st.error = "none" /\ p.st.batch = NoBatch
  /\ p.st.outControl = <<>> /\ p.st.outMedia = <<>> /\ Len(p.media) < MediaHeadroom
  /\ \E s \in Surfaces : p.st.pending[s] # <<>>

ProgressFrom(p) ==
  LET q == Flush(p)
  IN /\ src' = [q.st EXCEPT !.call = IF Schedulable(q) THEN "pass" ELSE "idle"]
     /\ control' = q.control /\ media' = q.media

Call(st) == [st |-> st, control |-> control, media |-> media]
Progress(st) == ProgressFrom(Call(st))

\* One iteration of schedule_at: the front event of one surface.
Candidates ==
  {s \in Surfaces : /\ src.pending[s] # <<>>
                    /\ s \notin src.resizing \/ Head(src.pending[s]).event.kind # "commit"}

Pick(s) ==
  /\ src.call \in {"pass", "sent"} /\ s \in Candidates
  /\ LET e == Head(src.pending[s]).event
     IN \E turned \in SUBSET Turnable(src, e) :
          LET st == SubmitOrSend([src EXCEPT !.pending[s] = Tail(@)], e, turned)
          IN IF st.batch # NoBatch THEN Progress(st)
             ELSE src' = [st EXCEPT !.call = "sent"] /\ UNCHANGED <<control, media>>
  /\ UNCHANGED <<client, replay, bounds>>

\* The loop ends when pacing excludes every candidate that is left.
Excludable(s) ==
  /\ NeedsPacing(Head(src.pending[s]).event)
  /\ \A i \in DOMAIN src.pending[s] : LET e == src.pending[s][i].event
                                      IN e.kind = "commit" => e.mapped

PassEnds ==
  /\ src.call \in {"pass", "sent"} /\ \A s \in Candidates : Excludable(s)
  /\ IF src.call = "sent" THEN Progress(src)
     ELSE src' = [src EXCEPT !.call = "idle"] /\ UNCHANGED <<control, media>>
  /\ UNCHANGED <<client, replay, bounds>>

-----------------------------------------------------------------------------
(* The relay: what the compositor's clients do, and mapping.               *)

Idle == src.call = "idle" /\ src.error = "none"
Turn == Idle /\ replay = <<>>
Hoisted(s) == client[s].session # 0

Submit(e) ==
  \E ready \in BOOLEAN, turned \in SUBSET Turnable(src, e) :
    Progress(Enqueue(src, e, ready, turned))

Forward(s, e) == IF Hoisted(s) THEN Submit(e) ELSE UNCHANGED <<src, control, media>>

\* observe, for a commit with inventory inv that replaces rep.
ClientCommit(s, inv, rep, mapped) ==
  LET rev == client[s].rev + 1
      now == [l \in inv |-> IF l \in rep THEN rev ELSE client[s].layers[l]]
  IN /\ Turn /\ client[s].alive /\ rev <= MaxRevisions
     /\ inv \ rep \subseteq DOMAIN client[s].layers
     /\ client' = [client EXCEPT ![s].rev = rev, ![s].mapped = mapped, ![s].layers = now]
     /\ Forward(s, Commit(s, client[s].session, rev, mapped, inv, [l \in rep |-> rev],
                          [layers |-> now, role |-> client[s].role]))
     /\ UNCHANGED <<replay, bounds>>

ClientRole(s) ==
  /\ Turn /\ client[s].alive /\ client[s].role <= MaxControls
  /\ client' = [client EXCEPT ![s].role = @ + 1]
  /\ Forward(s, Record("role", s, client[s].session, client[s].role + 1))
  /\ UNCHANGED <<replay, bounds>>

ClientMetadata(s) ==
  /\ Turn /\ client[s].alive /\ client[s].meta <= MaxControls
  /\ client' = [client EXCEPT ![s].meta = @ + 1]
  /\ Forward(s, Record("metadata", s, client[s].session, client[s].meta + 1))
  /\ UNCHANGED <<replay, bounds>>

ClientDestroys(s) ==
  /\ Turn /\ client[s].alive
  /\ client' = [client EXCEPT ![s].alive = FALSE, ![s].session = 0]
  /\ Forward(s, Record("destroyed", s, client[s].session, 0))
  /\ UNCHANGED <<replay, bounds>>

\* SourceRelayAdapter::map: the cached role, metadata and commit are submitted
\* after the mapping, each by a call of its own. carry_unobserved_content_from
\* has kept the content of every layer in the cached commit.
Cached(s, session) ==
  LET c == client[s]
  IN <<Record("role", s, session, c.role), Record("metadata", s, session, c.meta)>> \o
     (IF c.rev = 0 THEN <<>>
      ELSE <<Commit(s, session, c.rev, c.mapped, DOMAIN c.layers, c.layers,
                    [layers |-> c.layers, role |-> c.role])>>)

Map(s) ==
  /\ Turn /\ client[s].alive /\ ~Hoisted(s) /\ bounds.sessions < MaxSessions
  /\ bounds' = [bounds EXCEPT !.sessions = @ + 1]
  /\ client' = [client EXCEPT ![s].session = bounds'.sessions]
  /\ replay' = Cached(s, bounds'.sessions)
  /\ Progress(Send(src, Record("map", s, bounds'.sessions, 0)))

Replay ==
  /\ Idle /\ replay # <<>>
  /\ Submit(Head(replay)) /\ replay' = Tail(replay)
  /\ UNCHANGED <<client, bounds>>

\* SourceRelayAdapter::unmap
WithdrawSurface(st, s) == CancelEncode(Send(st, Record("withdraw", s, client[s].session, 0)), s)

Withdraw(s) ==
  /\ Turn /\ Hoisted(s)
  /\ client' = [client EXCEPT ![s].session = 0]
  /\ Progress(WithdrawSurface(src, s))
  /\ UNCHANGED <<replay, bounds>>

-----------------------------------------------------------------------------
(* SourceRelayAdapter::poll: the port's poll, one request of the peer, and *)
(* progress_after_destination.                                             *)

\* EncodedSourceState::drain
Completed(st) ==
  LET b == st.batch
      done == Append(b.done, b.active)
      packet(f) == [session |-> b.session, frame |-> f]
  IN CASE b.cancelled -> Retire([st EXCEPT !.batch = NoBatch], {Generation(b.active)})
       [] ~b.cancelled /\ b.todo # <<>> ->
            [st EXCEPT !.batch = [b EXCEPT !.active = Head(b.todo), !.todo = Tail(@), !.done = done],
                       !.encoders = @ \union {Generation(Head(b.todo))}]
       [] OTHER ->
            Send([st EXCEPT !.batch = NoBatch,
                            !.outMedia = @ \o [i \in DOMAIN done |-> packet(done[i])]], b.event)

Polled(done) == Flush(Call(IF done THEN Completed(src) ELSE src))
CanPoll(done) == Turn /\ (done => src.batch # NoBatch)

SourcePoll(done) ==
  /\ CanPoll(done) /\ ProgressFrom(Polled(done))
  /\ UNCHANGED <<client, replay, bounds>>

\* accept_destination for a Configure request, which starts or ends a resize; a
\* Reclaim is left to the hoist policy, which withdraws the surface
PollConfigure(done, s) ==
  LET p == Polled(done)
  IN /\ CanPoll(done) /\ Hoisted(s)
     /\ s \in src.resizing \/ bounds.resizes < MaxResizes
     /\ bounds' = [bounds EXCEPT !.resizes = IF s \in src.resizing THEN @ ELSE @ + 1]
     /\ ProgressFrom([p EXCEPT !.st.resizing = IF s \in @ THEN @ \ {s} ELSE @ \union {s}])
     /\ UNCHANGED <<client, replay>>

SourceNext ==
  \/ \E s \in Surfaces :
       \/ \E shape \in Shapes : ClientCommit(s, shape.layers, shape.replaced, shape.mapped)
       \/ ClientRole(s) \/ ClientMetadata(s) \/ ClientDestroys(s)
       \/ Map(s) \/ Withdraw(s) \/ Pick(s)
       \/ \E done \in BOOLEAN : PollConfigure(done, s)
  \/ Replay \/ PassEnds
  \/ \E done \in BOOLEAN : SourcePoll(done)
=============================================================================
