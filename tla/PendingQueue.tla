---------------------------- MODULE PendingQueue ----------------------------
(***************************************************************************)
(* PendingClientEvents (weld-client pending.rs) as a queue on its own,     *)
(* shared by several surfaces: any producer, and a consumer that takes     *)
(* events at its own pace. The reference is the queue that coalesces       *)
(* nothing: `truth' is each surface after every event pushed, `seen' after *)
(* every event consumed. Events carry the time of their push (`at') and    *)
(* controls the truth of that moment (`then'), which the code does not     *)
(* have.                                                                   *)
(***************************************************************************)
EXTENDS PendingEvents

CONSTANTS
  QueuedSurfaces, Layers,
  MaxQueue,     \* the limit the owner gives to try_push
  MaxPushes     \* bound: events pushed

ASSUME QueueAssumption == MaxQueue \in Nat \ {0} /\ MaxPushes \in Nat

SurfaceSymmetry == Permutations(QueuedSurfaces)

VARIABLES queue, truth, seen, pushes

queueVars == <<queue, truth, seen, pushes>>

Blank == [session |-> 1, mapped |-> FALSE, layers |-> [l \in {} |-> 0], meta |-> 0, control |-> 0]

QueueInit ==
  /\ queue = <<>> /\ pushes = 0
  /\ truth = [s \in QueuedSurfaces |-> Blank] /\ seen = [s \in QueuedSurfaces |-> Blank]

\* What a consumer makes of an event: retained layers keep their content.
Consume(view, e) ==
  CASE e.kind = "metadata" -> [view EXCEPT !.meta = e.at]
    [] e.kind = "control"  -> [view EXCEPT !.control = e.at]
    [] e.kind = "commit"   ->
         [view EXCEPT !.session = e.session, !.mapped = e.mapped,
                      !.layers = [l \in e.layers |-> IF l \in DOMAIN e.buffers THEN e.buffers[l]
                                                     ELSE IF l \in DOMAIN @ THEN @[l] ELSE 0]]

\* try_push
Push(e) ==
  /\ pushes < MaxPushes /\ ~Refused(queue, e, MaxQueue)
  /\ queue' = Insert(queue, e)
  /\ truth' = [truth EXCEPT ![e.surface] = Consume(@, e)]
  /\ pushes' = pushes + 1
  /\ UNCHANGED seen

\* A client retains only what the surface has in this session; a new session
\* starts from a full replay.
PushCommit(s, session, inv, rep, mapped) ==
  /\ session \in truth[s].session .. truth[s].session + 1
  /\ inv \ rep \subseteq IF session = truth[s].session THEN DOMAIN truth[s].layers ELSE {}
  /\ Push([kind |-> "commit", surface |-> s, session |-> session, mapped |-> mapped, layers |-> inv,
           buffers |-> [l \in rep |-> pushes + 1], at |-> pushes + 1])

PushMetadata(s) ==
  Push([kind |-> "metadata", surface |-> s, session |-> truth[s].session, at |-> pushes + 1])

PushControl(s) ==
  Push([kind |-> "control", surface |-> s, session |-> truth[s].session, at |-> pushes + 1,
        then |-> truth])

PopFront ==
  /\ queue # <<>>
  /\ LET e == Head(queue).event IN seen' = [seen EXCEPT ![e.surface] = Consume(@, e)]
  /\ queue' = Tail(queue)
  /\ UNCHANGED <<truth, pushes>>

QueueNext ==
  \/ \E s \in QueuedSurfaces :
       \/ \E inv \in SUBSET Layers : \E rep \in SUBSET inv, mapped \in BOOLEAN, session \in 1 .. 2 :
            PushCommit(s, session, inv, rep, mapped)
       \/ PushMetadata(s) \/ PushControl(s)
  \/ PopFront

QueueSpec == QueueInit /\ [][QueueNext]_queueVars

-----------------------------------------------------------------------------
\* What a consumer of the surface s that has `view' makes of the first n records.
Consumed(view, q, s) ==
  LET after[n \in 0 .. Len(q)] ==
        IF n = 0 THEN view
        ELSE IF q[n].event.surface = s THEN Consume(after[n - 1], q[n].event) ELSE after[n - 1]
  IN after

\* Coalescing loses nothing: a consumer that takes what is queued arrives where
\* one that took every event pushed would be, down to the pixels of every layer.
QueueHoldsTheRest == \A s \in QueuedSurfaces : Consumed(seen[s], queue, s)[Len(queue)] = truth[s]

\* A consumer that reaches a control has, on every surface, what one that took
\* every event would have had then: no title or commit was superseded across it.
ControlsSeeTheirMoment ==
  \A i \in DOMAIN queue : IsControl(queue[i].event) =>
    \A s \in QueuedSurfaces : Consumed(seen[s], queue, s)[i - 1] = queue[i].event.then[s]

\* A consumer cannot tell the queue from one that coalesces nothing, neither at
\* its end nor at the controls it meets on the way.
QueueIsTransparent == QueueHoldsTheRest /\ ControlsSeeTheirMoment

\* Repainting cannot grow the queue: between two commits of one surface, session
\* and mapping there is a control or an ordered transition.
RepaintsCoalesce ==
  \A i, j \in DOMAIN queue :
    LET e == queue[i].event f == queue[j].event
    IN (/\ i < j /\ e.kind = "commit" /\ f.kind = "commit" /\ e.surface = f.surface
        /\ e.session = f.session /\ e.mapped = f.mapped) =>
         \E k \in i + 1 .. j : IsControl(queue[k].event) \/ queue[k].barrier
=============================================================================
