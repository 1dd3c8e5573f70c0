-------------------------- MODULE DestinationRelay --------------------------
(***************************************************************************)
(* The relay of the device that shows the windows (weld-hoist-core         *)
(* relay.rs DestinationRelayAdapter) and the cursors that its client       *)
(* runtime keeps for the surfaces it knows (weld-client adapter.rs). The   *)
(* relocation of identifiers into the destination's namespace is a         *)
(* bijection and is left out.                                              *)
(***************************************************************************)
EXTENDS RemoteInput

VARIABLES
  dst,      \* the relay
  viewer    \* cursors: the surfaces the runtime knows, with the cursor of each

DestinationRelayInit ==
  /\ dst = [failed |-> None, sessions |-> Empty, roles |-> Empty, ledger |-> NoInput,
            updates |-> Empty, events |-> <<>>, sent |-> <<>>]
  /\ viewer = [cursors |-> Empty]

Envelope(kind, session, s, value) ==
  [kind |-> kind, session |-> session, surface |-> s, value |-> value]
SurfaceEvent(kind, s) == [kind |-> kind, surface |-> s]

Send(d, m) == [d EXCEPT !.sent = Append(@, m)]
Push(d, e) == [d EXCEPT !.events = Append(@, e)]

\* destroy_surface, for each of the surfaces S. The source has settled what they
\* held; the ledger forgets it without a message.
DestroySurface(d, S) ==
  LET known == S \intersect DOMAIN d.sessions
  IN [d EXCEPT !.updates = Without(@, S), !.sessions = Without(@, known), !.roles = Without(@, known),
               !.ledger = Retained(@, known),
               !.events = @ \o SetToSeq({SurfaceEvent("destroyed", s) : s \in known})]

FailDestination(d, why) ==
  IF d.failed # None THEN d ELSE DestroySurface([d EXCEPT !.failed = why], DOMAIN d.sessions)

\* relocated_role: a popup has one only while its owner is mapped.
HasRole(d, s) ==
  s \in DOMAIN d.roles /\ (d.roles[s] = "popup" => Owner[s] \in DOMAIN d.sessions)

PublishRole(d, s) == IF HasRole(d, s) THEN Push(d, SurfaceEvent("role", s)) ELSE d

\* refresh_children_of
Children(d, s) == {p \in DOMAIN d.roles \intersect DOMAIN d.sessions : d.roles[p] = "popup" /\ Owner[p] = s}

MapSurface(d, m) ==
  LET s == m.surface
  IN CASE s \notin DOMAIN d.sessions ->
            [d EXCEPT !.sessions = Put(@, s, m.session),
                      !.events = @ \o SetToSeq({SurfaceEvent("role", p) : p \in Children(d, s)})]
       [] s \in DOMAIN d.sessions ->
            IF d.sessions[s] = m.session THEN d ELSE FailDestination(d, "mapping crossed")

ApplyCursor(d, m) ==
  LET s == m.surface
      cached == IF s \in DOMAIN d.sessions THEN [d EXCEPT !.updates = Put(@, s, m.value.cursor)] ELSE d
  IN IF s \in DOMAIN d.sessions /\ d.sessions[s] # m.session THEN FailDestination(d, "cursor crossed")
     ELSE Send(cached, Envelope("ack", m.session, s, m.value.seq))

ApplySurface(d, m) ==
  LET s == m.surface
  IN CASE s \notin DOMAIN d.sessions \/ d.sessions[s] # m.session -> FailDestination(d, "event crossed")
       [] OTHER ->
            CASE m.kind = "destroyed" -> DestroySurface(d, {s})
              [] m.kind = "role" /\ m.value = "layer" -> FailDestination(d, "layer")
              [] m.kind = "role" /\ m.value # "layer" ->
                   PublishRole([d EXCEPT !.roles = Put(@, s, m.value)], s)
              [] m.kind = "commit" -> Push(d, SurfaceEvent("commit", s))

\* apply_record, which poll stops calling after a failure
ApplyRecord(d, m) ==
  CASE d.failed # None -> d
    [] d.failed = None /\ m.kind = "mapped" -> MapSurface(d, m)
    [] d.failed = None /\ m.kind = "cursor" -> ApplyCursor(d, m)
    [] d.failed = None /\ m.kind = "withdraw" -> DestroySurface(d, {m.surface})
    [] OTHER -> ApplySurface(d, m)

\* poll: the records of q, in their order
ApplyEach(d, q) ==
  LET after[n \in 0 .. Len(q)] == IF n = 0 THEN d ELSE ApplyRecord(after[n - 1], q[n])
  IN after[Len(q)]

-----------------------------------------------------------------------------
(* The client runtime: events first, then the cursor updates, of which it  *)
(* keeps those for surfaces it knows.                                      *)

TrackSurface(cursors, e) ==
  CASE e.kind = "destroyed" -> Without(cursors, {e.surface})
    [] OTHER -> IF e.surface \in DOMAIN cursors THEN cursors ELSE Put(cursors, e.surface, None)

Tracked(d) ==
  LET known == FoldLeft(TrackSurface, viewer.cursors, d.events)
  IN [s \in DOMAIN known |-> IF s \in DOMAIN d.updates THEN d.updates[s] ELSE known[s]]

DrainInto(d) ==
  /\ dst' = [d EXCEPT !.events = <<>>, !.updates = Empty, !.sent = <<>>]
  /\ viewer' = [cursors |-> Tracked(d)]

-----------------------------------------------------------------------------
(* What the destination's user does.                                       *)

Routed(s) == dst.failed = None /\ s \in DOMAIN dst.sessions

\* apply_input
ApplyInput(e) ==
  /\ Routed(e.surface) /\ Accepts(dst.ledger, e)
  /\ dst' = [dst EXCEPT !.ledger = Observe(@, e)]

\* apply_request: focus on a surface, or away from the focused one
ApplyFocus(s) ==
  /\ Routed(IF s = None THEN dst.ledger.focus ELSE s)
  /\ dst' = [dst EXCEPT !.ledger = Focused(@, s)]

\* host_focus_lost: everything held is released, for the surfaces still routed.
FocusLostMessages ==
  LET all == ReleaseEffects(dst.ledger, Surfaces)
      ends == Dropping(all, {e \in ToSet(all) : e.kind = "input" /\ e.surface \notin DOMAIN dst.sessions})
      session(e) == dst.sessions[IF e.kind = "focus" THEN dst.ledger.focus ELSE e.surface]
  IN [i \in DOMAIN ends |->
        LET e == ends[i]
        IN Envelope(e.kind, session(e), e.surface, IF e.kind = "input" THEN e ELSE None)]
=============================================================================
