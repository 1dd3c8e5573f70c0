---------------------------- MODULE PendingEvents ----------------------------
(***************************************************************************)
(* weld-client: PendingClientEvents (pending.rs) and its ordering plan     *)
(* (pending_order.rs), shared by the encoded source and the presenter. A   *)
(* queue holds records [event, barrier]; an event has a kind, a surface    *)
(* and a session (the scope). A commit lists its inventory `layers' and,   *)
(* for the layers it replaces, their new content in `buffers'.             *)
(***************************************************************************)
EXTENDS Integers, SequencesExt

IsControl(e) == e.kind \notin {"commit", "metadata"}

\* carry_unobserved_content_from: pixels nobody consumed move into the commit
\* that retains their layer.
CarryNothing(e, old) == e
Carry(e, old) ==
  [e EXCEPT !.buffers = [l \in DOMAIN @ \union (e.layers \cap DOMAIN old.buffers) |->
                           IF l \in DOMAIN @ THEN @[l] ELSE old.buffers[l]]]

\* plan for a commit, read from the back: metadata is passed over, as are the
\* other surfaces' commits up to a barrier; the surface's own commit decides.
OwnCommit(r, e) == r.event.kind = "commit" /\ r.event.surface = e.surface
StopsAtAnyCommit(r) == IsControl(r.event) \/ r.event.kind = "commit"
StopsCommit(r) == IsControl(r.event) \/ (r.event.kind = "commit" /\ r.barrier)
CommitPlan(q, e) ==
  LET i == SelectLastInSeq(q, LAMBDA r : OwnCommit(r, e) \/ StopsCommit(r))
  IN IF i = 0 \/ ~OwnCommit(q[i], e)
       THEN [at |-> 0, barrier |-> ~e.mapped]
       ELSE LET compatible == q[i].event.session = e.session /\ q[i].event.mapped = e.mapped
            IN [at |-> IF compatible THEN i ELSE 0, barrier |-> ~compatible \/ q[i].barrier]

\* plan for metadata: superseded unless a control or a barrier came later.
StopsAtBarrier(r) == r.barrier
StopsMetadata(r) == r.barrier \/ IsControl(r.event)
MetadataPlan(q, e) ==
  LET own(r) == /\ r.event.kind = "metadata" /\ r.event.surface = e.surface
                /\ r.event.session = e.session
      i == SelectLastInSeq(q, LAMBDA r : own(r) \/ StopsMetadata(r))
  IN [at |-> IF i # 0 /\ own(q[i]) THEN i ELSE 0, barrier |-> FALSE]

Plan(q, e) ==
  CASE e.kind = "commit"   -> CommitPlan(q, e)
    [] e.kind = "metadata" -> MetadataPlan(q, e)
    [] OTHER               -> [at |-> 0, barrier |-> FALSE]

\* PendingClientEvents::insert. A superseded commit that is a barrier is
\* replaced in its place; anything else moves to the back.
Insert(q, e) ==
  LET p == Plan(q, e)
      merged == IF p.at # 0 /\ e.kind = "commit" THEN Carry(e, q[p.at].event) ELSE e
  IN IF p.at = 0 THEN Append(q, [event |-> e, barrier |-> p.barrier])
     ELSE IF q[p.at].barrier THEN [q EXCEPT ![p.at].event = merged]
     ELSE Append(RemoveAt(q, p.at), [event |-> merged, barrier |-> p.barrier])

\* try_push refuses an event that would grow a full queue.
Refused(q, e, limit) == Plan(q, e).at = 0 /\ Len(q) >= limit
=============================================================================
