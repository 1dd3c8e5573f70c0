------------------------ MODULE EncodedDestination -------------------------
(***************************************************************************)
(* The destination end of an encoded hoist: EncodedDestinationState and    *)
(* EncodedDestinationPort (weld-hoist-encoded state.rs), presenting to     *)
(* DestinationRelayAdapter (weld-hoist-core relay.rs). The decode pool     *)
(* (weld-media decode.rs) is reduced to what it accepts: a bounded number  *)
(* of jobs and of generations, first in first out within a generation.     *)
(*                                                                         *)
(* `shown' is what the relay presents of each surface. Its fields `got'    *)
(* and `want' are not in the code: what was shown when the latest commit   *)
(* was presented, and what the client's surface was when it committed.     *)
(***************************************************************************)
EXTENDS EncodedLanes

MaxReferenced == limits.referenced     \* MAX_REFERENCED_FRAMES
MaxEvents == limits.events             \* MAX_DESTINATION_EVENTS
MaxMedia == limits.media               \* MAX_PENDING_MEDIA_FRAMES
MaxJobs == limits.jobs                 \* decode jobs the pool admits
MaxGenerations == limits.generations   \* decoder contexts the pool holds

ASSUME DestinationAssumption ==
  \A l \in Links :
    /\ {l.referenced, l.events, l.media, l.jobs, l.generations} \subseteq Nat \ {0}
    /\ l.referenced >= l.batch

VARIABLES shown, dst

destinationVars == <<shown, dst>>

Nothing == [layers |-> Empty, role |-> 0]
NotShown == [session |-> 0, rev |-> 0, mapped |-> FALSE, layers |-> Empty, role |-> 0, meta |-> 0,
             got |-> Nothing, want |-> Nothing]

DestinationInit ==
  /\ shown = [s \in Surfaces |-> NotShown]
  /\ dst = [queues |-> [s \in Surfaces |-> <<>>],
            arrived |-> {},      \* media_frames
            decoded |-> {},
            jobs |-> {},         \* decode_in_flight
            tombs |-> {},        \* cancelled_frames
            streams |-> Empty,
            retiring |-> {},     \* pending_retirement
            decoders |-> Empty,  \* the pool's contexts: the next sequence of each generation
            call |-> "idle", error |-> "none"]

Fail(d, why) == [d EXCEPT !.error = IF @ = "none" THEN why ELSE @]

-----------------------------------------------------------------------------
(* Frames and generations in use.                                          *)

Queued(d) == UNION {ToSet(d.queues[s]) : s \in Surfaces}
FramesOf(e) == IF e.kind = "commit" THEN {e.buffers[l] : l \in DOMAIN e.buffers} ELSE {}
ArrivedFrames(d) == {p.frame : p \in d.arrived}
JobFrames(d) == {j.frame : j \in d.jobs}

\* sweep_retirement: an undecoded reference keeps its context alive; a decoded
\* frame does not.
Awaiting(d) == (UNION {FramesOf(e) : e \in Queued(d)}) \ d.decoded
InUse(d) ==
  {d.streams[k] : k \in DOMAIN d.streams} \union
  {Generation(f) : f \in Awaiting(d) \union ArrivedFrames(d) \union JobFrames(d)}
RetirableWhenIdle(d) == IF DOMAIN d.streams = {} THEN d.retiring \ InUse(d) ELSE {}
RetirableContexts(d) == d.retiring \ InUse(d)
Sweep(d) ==
  LET ready == RetirableContexts(d)
  IN [d EXCEPT !.retiring = @ \ ready, !.decoders = Without(@, ready)]

\* cancel_surface: a frame whose media has not arrived leaves a tombstone.
Tombs(d, s, missing) ==
  UNION {{[frame |-> f, session |-> e.session] : f \in FramesOf(e) \cap missing} : e \in ToSet(d.queues[s])}
CancelSurface(d, s) ==
  LET gone == UNION {FramesOf(e) : e \in ToSet(d.queues[s])}
      keys == {k \in DOMAIN d.streams : k[1] = s}
      missing == gone \ (ArrivedFrames(d) \union d.decoded \union JobFrames(d))
      after == [d EXCEPT
        !.queues[s] = <<>>,
        !.arrived = {p \in @ : p.frame \notin gone},
        !.decoded = @ \ gone,
        !.jobs = {IF j.frame \in gone THEN [j EXCEPT !.cancelled = TRUE] ELSE j : j \in @},
        !.tombs = @ \union Tombs(d, s, missing),
        !.streams = Without(@, keys),
        !.retiring = @ \union {Generation(f) : f \in gone} \union {d.streams[k] : k \in keys}]
  IN Sweep(IF Cardinality(after.tombs) > MaxReferenced THEN Fail(after, "tombs") ELSE after)

\* update_stream_generations, when a commit is received
NoneReplaced(d, next) == {}
Replaced(d, next) == {k \in DOMAIN d.streams \cap DOMAIN next : d.streams[k] # next[k]}
UpdateStreams(d, e) ==
  LET gone == {k \in DOMAIN d.streams : k[1] = e.surface /\ k[2] \notin e.layers}
      next == [k \in {e.surface} \X DOMAIN e.buffers |-> Generation(e.buffers[k[2]])]
  IN [d EXCEPT !.streams = Over(next, Without(@, gone)),
               !.retiring = @ \union {d.streams[k] : k \in gone \union Replaced(d, next)}]

-----------------------------------------------------------------------------
(* Publication.                                                            *)

Ready(d, e) == FramesOf(e) \subseteq d.decoded

\* DestinationRelayAdapter::apply_record for a surface event; retained layers
\* keep the content they show (0 stands for none).
Present(view, e) ==
  CASE e.kind = "role"     -> [view EXCEPT !.role = e.value]
    [] e.kind = "metadata" -> [view EXCEPT !.meta = e.value]
    [] e.kind = "commit"   ->
         LET now == [l \in e.layers |-> CASE l \in DOMAIN e.buffers -> e.buffers[l].content
                                          [] l \notin DOMAIN e.buffers /\ l \in DOMAIN view.layers
                                               -> view.layers[l]
                                          [] OTHER -> 0]
         IN [view EXCEPT !.rev = e.rev, !.mapped = e.mapped, !.layers = now, !.want = e.want,
                         !.got = [layers |-> now, role |-> view.role]]

\* Present for each of the events of q, in their order
PresentEach(view, q) ==
  LET after[n \in 0 .. Len(q)] == IF n = 0 THEN view ELSE Present(after[n - 1], q[n])
  IN after[Len(q)]

\* publish_ready: every surface presents its events up to the first that waits
\* for a frame.
ReadyPrefix(d, s) ==
  LET waits == {i \in DOMAIN d.queues[s] : ~Ready(d, d.queues[s][i])}
  IN IF waits = {} THEN d.queues[s] ELSE SubSeq(d.queues[s], 1, Min(waits) - 1)

Crossed(d, view) == \E s \in Surfaces : \E e \in ToSet(ReadyPrefix(d, s)) : e.session # view[s].session

\* The port and the relay after publish_ready.
Publish(d, view) ==
  LET out == [s \in Surfaces |-> ReadyPrefix(d, s)]
      used == UNION {FramesOf(e) : e \in UNION {ToSet(out[s]) : s \in Surfaces}}
      kept == [d EXCEPT !.queues = [s \in Surfaces |-> SubSeq(@[s], Len(out[s]) + 1, Len(@[s]))],
                        !.decoded = @ \ used]
  IN IF Crossed(d, view) THEN [d |-> Fail(d, "crossed"), view |-> view]
     ELSE [d |-> Sweep(kept), view |-> [s \in Surfaces |-> PresentEach(view[s], out[s])]]

-----------------------------------------------------------------------------
(* Reception.                                                              *)

\* enqueue: newer metadata of a session replaces what is queued.
OnlyOthers(q, e) == Dropping(q, {x \in ToSet(q) : x.kind = "metadata" /\ x.session = e.session})
Superseded(q, e) == IF e.kind = "metadata" THEN OnlyOthers(q, e) ELSE q

EventCount(d) == SumFunction([s \in Surfaces |-> Len(d.queues[s])])

EnqueueSurface(p, e) ==
  LET s == e.surface
      d == IF e.kind = "commit" THEN UpdateStreams(p.d, e) ELSE p.d
      room == [d EXCEPT !.queues[s] = Superseded(@, e)]
      full == EventCount(room) >= MaxEvents
  IN IF full THEN [p EXCEPT !.d = Fail(room, "events")]
     ELSE Publish([room EXCEPT !.queues[s] = Append(@, e)], p.view)

\* apply_source_packet and apply_record for a control record, on the pair of
\* the port d and the relay's view.
Remapped(view, e) == [view EXCEPT ![e.surface] = [NotShown EXCEPT !.session = e.session]]
ApplyControl(p, e) ==
  LET s == e.surface
      closed == [d |-> CancelSurface(p.d, s), view |-> [p.view EXCEPT ![s] = NotShown]]
  IN IF p.d.error # "none" THEN p
     ELSE CASE e.kind = "map" ->
                 IF p.view[s].session = 0 THEN [p EXCEPT !.view = Remapped(@, e)]
                 ELSE [p EXCEPT !.d = Fail(@, "crossed")]
            [] e.kind = "withdraw" -> closed
            [] e.kind = "destroyed" ->
                 IF p.view[s].session = e.session THEN closed ELSE [closed EXCEPT !.d = Fail(@, "crossed")]
            [] OTHER -> EnqueueSurface(p, e)

\* the control records of q, in their order
ApplyControls(p, q) ==
  LET after[n \in 0 .. Len(q)] == IF n = 0 THEN p ELSE ApplyControl(after[n - 1], q[n])
  IN after[Len(q)]

\* enqueue_media
ApplyMedia(d, packet) ==
  LET tomb == {t \in d.tombs : t.frame = packet.frame}
  IN IF d.error # "none" THEN d
     ELSE IF tomb # {} THEN IF \A t \in tomb : t.session = packet.session THEN [d EXCEPT !.tombs = @ \ tomb]
                            ELSE Fail(d, "session")
     ELSE IF Cardinality(d.arrived) >= MaxMedia THEN Fail(d, "media")
     ELSE IF packet.frame \in ArrivedFrames(d) THEN Fail(d, "twice")
     ELSE [d EXCEPT !.arrived = @ \union {packet}]

\* the media records of q, in their order
ApplyMedias(d, q) ==
  LET after[n \in 0 .. Len(q)] == IF n = 0 THEN d ELSE ApplyMedia(after[n - 1], q[n])
  IN after[Len(q)]

\* receive_budget: a control record reserves the frames of a whole commit, and
\* media that frees a tombstone is never held back by it.
References(d) ==
  Cardinality(d.tombs) + MapThenSumSet(LAMBDA e : Cardinality(FramesOf(e)), Queued(d))
Room(limit, used) == IF used < limit THEN limit - used ELSE 0
ControlBudget(d) ==
  Min({Room(MaxReferenced, References(d)) \div MaxBatch, Room(MaxEvents, EventCount(d))})
MediaBudgetShared(d) == Room(MaxMedia, Cardinality(d.arrived) + Cardinality(d.tombs))
MediaBudget(d) == Room(MaxMedia, Cardinality(d.arrived))

-----------------------------------------------------------------------------
(* EncodedDestinationPort::poll.                                           *)

\* drain: the worker finishes the jobs of a generation in order.
Finishable(d, done) ==
  \A j \in done, k \in d.jobs \ done :
    Generation(j.frame) = Generation(k.frame) => j.frame.seq < k.frame.seq
Drained(d, done) ==
  [d EXCEPT !.jobs = @ \ done,
            !.decoded = @ \union {j.frame : j \in {x \in done : ~x.cancelled}},
            !.retiring = @ \union {Generation(j.frame) : j \in {x \in done : x.cancelled}}]

\* A poll that receives n control and m media records and the completions
\* `done', and then advances. A poll that brings nothing changes nothing.
Receive(n, m, done) ==
  LET taken == ApplyControls([d |-> dst, view |-> shown], SubSeq(control, 1, n))
      fed == ApplyMedias(taken.d, SubSeq(media, 1, m))
      \* a job that this poll cancelled completes as cancelled
      finished == {j \in fed.jobs : j.frame \in {x.frame : x \in done}}
  IN /\ control' = SubSeq(control, n + 1, Len(control))
     /\ media' = SubSeq(media, m + 1, Len(media))
     /\ IF fed.error # "none" THEN dst' = fed /\ shown' = taken.view
        ELSE LET p == Publish(Drained(fed, finished), taken.view)
             IN dst' = [p.d EXCEPT !.call = "advance"] /\ shown' = p.view

DestinationPoll(n, m, done) ==
  /\ dst.call = "idle" /\ dst.error = "none" /\ Finishable(dst, done)
  /\ n + m > 0 \/ done # {}
  /\ Receive(n, m, done)

\* compatible_decode_lookahead
Compatible(e, next) ==
  /\ e.kind = "commit" /\ next.kind = "commit" /\ e.mapped /\ next.mapped
  /\ e.session = next.session /\ e.layers = next.layers
  /\ DOMAIN next.buffers \subseteq DOMAIN e.buffers
  /\ \A l \in DOMAIN next.buffers : Generation(e.buffers[l]) = Generation(next.buffers[l])

\* decode_candidate: the first unsubmitted frame that has arrived, of the front
\* commit or, when all of that is submitted, of its successor.
Submitted(d, f) == f \in d.decoded \union JobFrames(d)
Lookahead(d, s) ==
  LET q == d.queues[s]
  IN IF /\ FramesOf(Head(q)) # {} /\ \A f \in FramesOf(Head(q)) : Submitted(d, f)
        /\ Len(q) > 1 /\ Compatible(Head(q), q[2])
       THEN q[2] ELSE Head(q)
DecodeCandidate(d, s) ==
  IF d.queues[s] = <<>> THEN {}
  ELSE LET fs == Frames(Lookahead(d, s))
           i == SelectInSeq(fs, LAMBDA f : ~Submitted(d, f) /\ f \in ArrivedFrames(d))
       IN IF i = 0 THEN {} ELSE {fs[i]}

\* The decode pool: jobs and contexts are bounded.
Accepts(d, f) ==
  /\ Cardinality(d.jobs) < MaxJobs
  /\ Generation(f) \in DOMAIN d.decoders \/ Cardinality(DOMAIN d.decoders) < MaxGenerations

\* schedule_decode. A frame decodes against its predecessor, or starts a generation.
ScheduleDecode(s, f) ==
  LET g == Generation(f)
      expected == IF g \in DOMAIN dst.decoders THEN dst.decoders[g] ELSE 0
      submitted == [dst EXCEPT !.arrived = {p \in @ : p.frame # f},
                               !.jobs = @ \union {[frame |-> f, cancelled |-> FALSE]},
                               !.decoders = Over([x \in {g} |-> f.seq + 1], @)]
      session == (CHOOSE p \in dst.arrived : p.frame = f).session
  IN dst' = IF session # Head(dst.queues[s]).session THEN Fail(dst, "session")
            ELSE IF f.seq # expected THEN Fail(dst, "reference")
            ELSE submitted

Advance(s) ==
  /\ dst.call = "advance" /\ dst.error = "none"
  /\ \E f \in DecodeCandidate(dst, s) : Accepts(dst, f) /\ ScheduleDecode(s, f)
  /\ UNCHANGED <<shown, control, media>>

AdvanceEnds ==
  /\ dst.call = "advance" /\ dst.error = "none"
  /\ \A s \in Surfaces : \A f \in DecodeCandidate(dst, s) : ~Accepts(dst, f)
  /\ dst' = [Sweep(dst) EXCEPT !.call = "idle"]
  /\ UNCHANGED <<shown, control, media>>

DestinationNext ==
  \/ \E n \in 0 .. Len(control), m \in 0 .. Len(media), done \in SUBSET dst.jobs :
       n <= ControlBudget(dst) /\ m <= MediaBudget(dst) /\ DestinationPoll(n, m, done)
  \/ \E s \in Surfaces : Advance(s)
  \/ AdvanceEnds
=============================================================================
