---------------------------- MODULE SourceRelay -----------------------------
(***************************************************************************)
(* The relay of the device whose windows are shown elsewhere               *)
(* (weld-hoist-core relay.rs SourceRelayAdapter): which surfaces are       *)
(* mapped, the role, commit and cursor it caches for each, the frame       *)
(* callback claims it makes for its viewer, and the viewer's input, which  *)
(* it plays to the native seat.                                            *)
(*                                                                         *)
(* Every operator takes the relay's state r and returns the next one; what *)
(* a call submits to the port is collected in r.sent. `r.failed' keeps the *)
(* reason. Titles, interactions and buffers are in EncodedSource, the      *)
(* gamepad and the two second warning about a cursor are left out. The     *)
(* access flag is read once per call.                                      *)
(***************************************************************************)
EXTENDS RemoteInput

VARIABLES
  src,        \* the relay
  upstream    \* what its effects and claims have made of the local host

NoCache == [role |-> None, commit |-> None, cursor |-> None, sentCursor |-> None]
Known(s) == [NoCache EXCEPT !.role = IF Owner[s] = None THEN "toplevel" ELSE "popup"]

\* new, and fork with the inventory of an observed host. SourceAdmission is
\* "manual" or "all"; the port is ready at once, or authorizes first.
SourceRelayInit(admission, ready, inventory) ==
  /\ src = [admission |-> admission, failed |-> None, revoked |-> FALSE, ready |-> ready, connected |-> FALSE,
            admitting |-> FALSE, mappings |-> Empty, reserved |-> Empty,
            cache |-> [s \in inventory |-> [Known(s) EXCEPT !.commit = "mapped"]], claims |-> Empty, updates |-> <<>>,
            ledger |-> NoInput, effects |-> <<>>, inflight |-> Empty, nextCursor |-> 1, cursors |-> <<>>, nextSession |-> 1,
            sent |-> <<>>]
  /\ upstream = [seat |-> NoSeat, claims |-> Empty, scaled |-> {}, gone |-> {}]

Mapped(s) == s \in DOMAIN src.mappings
Up(r) == r.failed = None

Message(kind, session, s, value) ==
  [kind |-> kind, session |-> session, surface |-> s, value |-> value]
Effect(kind, s) == [kind |-> kind, surface |-> s]
Claim(s, claim) == [surface |-> s, claim |-> claim]

Submit(r, m) == [r EXCEPT !.sent = Append(@, m)]

Cached(r, s) == IF s \in DOMAIN r.cache THEN r.cache[s] ELSE NoCache
Cache(r, s, c) == [r EXCEPT !.cache = Put(@, s, c)]

Popups(r, s) == {p \in DOMAIN r.cache : r.cache[p].role = "popup" /\ Owner[p] = s}

Fail(r, why) ==
  IF ~Up(r) THEN r
  ELSE [r EXCEPT
         !.failed = why,
         !.updates = @ \o SetToSeq({Claim(s, "release") : s \in DOMAIN r.claims}),
         !.claims = Empty, !.inflight = Empty, !.cursors = <<>>, !.reserved = Empty,
         !.effects = @ \o ReleaseEffects(r.ledger, Surfaces) \o <<Effect("disconnected", None)>>
                       \o SetToSeq({Effect("unscale", s) : s \in DOMAIN r.mappings}),
         !.ledger = Retained(@, Surfaces),
         !.cache = Empty]

\* check_access: queued operations lose their authority before fail adds the
\* releases.
CheckAccess(r) ==
  IF Up(r) /\ r.revoked
    THEN Fail([r EXCEPT !.effects = <<>>, !.updates = <<>>], "revoked")
    ELSE r

Checked(r, Op(_)) == LET c == CheckAccess(r) IN IF Up(c) THEN Op(c) ELSE c

-----------------------------------------------------------------------------
(* Presentation claims.                                                    *)

\* set_presentation: the popups of a root follow it, unless nothing changes.
SetPresentation(r, s, claim) ==
  LET new == {t \in ({s} \union Popups(r, s)) \intersect DOMAIN r.mappings :
                ~(t \in DOMAIN r.claims /\ r.claims[t] = claim)}
  IN IF s \notin new THEN r
     ELSE [r EXCEPT !.claims = [t \in DOMAIN @ \union new |-> IF t \in new THEN claim ELSE @[t]],
                    !.updates = @ \o SetToSeq({Claim(t, claim) : t \in new})]

\* Mutant: the claims are forgotten without telling the host.
ReleaseQuietly(r, S) == [r EXCEPT !.claims = Without(@, S)]

\* release_presentation, for each of the surfaces S
ReleasePresentation(r, S) ==
  [r EXCEPT !.claims = Without(@, S),
            !.updates = @ \o SetToSeq({Claim(s, "release") : s \in S \intersect DOMAIN r.claims})]

-----------------------------------------------------------------------------
(* Cursor feedback: one update in flight, the latest cursor of the others. *)

Sendable(r, s) ==
  /\ s \in DOMAIN r.mappings /\ s \in DOMAIN r.cache
  /\ r.cache[s].cursor \notin {None, r.cache[s].sentCursor}

SendNextCursor(r) ==
  LET ready == {i \in DOMAIN r.cursors : Sendable(r, r.cursors[i])}
      first == Min(ready)
      s == r.cursors[first]
      update == [session |-> r.mappings[s], surface |-> s, seq |-> r.nextCursor]
  IN CASE DOMAIN r.inflight # {} -> r
       [] DOMAIN r.inflight = {} /\ ready = {} -> [r EXCEPT !.cursors = <<>>]
       [] OTHER ->
            Submit([r EXCEPT !.cursors = SubSeq(@, first + 1, Len(@)),
                             !.cache[s].sentCursor = r.cache[s].cursor,
                             !.nextCursor = @ + 1, !.inflight = update],
                   Message("cursor", r.mappings[s], s,
                           [cursor |-> r.cache[s].cursor, seq |-> r.nextCursor]))

QueueCursor(r, s) ==
  IF s \notin DOMAIN r.mappings \/ ~Up(r) THEN r
  ELSE SendNextCursor([r EXCEPT !.cursors = IF s \in ToSet(@) THEN @ ELSE Append(@, s)])

ForgetCursor(r, S) == [r EXCEPT !.cursors = Dropping(@, S)]

-----------------------------------------------------------------------------
(* Mapping.                                                                *)

\* Mutant: the surface is announced after its role.
MapOneLate(r, session, s) ==
  LET c == r.cache[s]
      claimed == SetPresentation([r EXCEPT !.mappings = Put(@, s, session)], s, "active")
  IN QueueCursor(Submit(Submit(claimed, Message("role", session, s, c.role)),
                        Message("mapped", session, s, None)), s)

\* What map does for one surface: it claims the callbacks, and replays the
\* cached role, commit and cursor.
MapOne(r, session, s) ==
  LET c == r.cache[s]
      claim == IF c.role = "popup" /\ Owner[s] \in DOMAIN r.claims THEN r.claims[Owner[s]] ELSE "active"
      claimed == SetPresentation([r EXCEPT !.mappings = Put(@, s, session)], s, claim)
      opened == Submit(Submit(claimed, Message("mapped", session, s, None)),
                       Message("role", session, s, c.role))
  IN QueueCursor(IF c.commit = None THEN opened
                 ELSE Submit(opened, Message("commit", session, s, c.commit)), s)

\* Mutant: popups wait for their own events.
FollowersNone(r, s) == {}

\* The popups that follow their root.
Followers(r, s) ==
  {p \in Popups(r, s) : p \notin DOMAIN r.mappings /\ (r.admission = "manual" \/ r.cache[p].commit = "mapped")}

\* MapOne for each of the surfaces of q, in their order
MapEach(r, session, q) ==
  LET mapped[n \in 0 .. Len(q)] == IF n = 0 THEN r ELSE MapOne(mapped[n - 1], session, q[n])
  IN mapped[Len(q)]

Map(r, session, s) ==
  LET role == Cached(r, s).role
  IN CASE ~r.ready \/ s \in DOMAIN r.mappings -> r
       [] r.ready /\ s \notin DOMAIN r.mappings /\ role = None ->
            [r EXCEPT !.reserved = IF s \in DOMAIN @ THEN @ ELSE Put(@, s, session)]
       [] r.ready /\ s \notin DOMAIN r.mappings
            /\ (role = "toplevel" \/ (role = "popup" /\ Owner[s] \in DOMAIN r.mappings)) ->
            MapEach(r, session, <<s>> \o SetToSeq(Followers(r, s)))
       [] OTHER -> r

\* admit: with AllToplevels a surface is mapped when it has content.
Admit(r, s) ==
  LET c == Cached(r, s)
  IN CASE r.admission # "all" \/ ~Up(r) \/ ~r.ready \/ s \in DOMAIN r.mappings \/ c.commit # "mapped" -> r
       [] OTHER ->
            CASE c.role = "toplevel" -> Map([r EXCEPT !.nextSession = @ + 1], r.nextSession, s)
              [] c.role = "popup" /\ Owner[s] \in DOMAIN r.mappings -> Map(r, r.mappings[Owner[s]], s)
              [] OTHER -> r

\* unmap for each of the mapped surfaces of q
Withdrawn(r, q) ==
  LET S == ToSet(q)
      released == ForgetCursor(ReleasePresentation([r EXCEPT !.mappings = Without(@, S)], S), S)
  IN [released EXCEPT
       !.reserved = Without(@, S),
       !.cache = [s \in DOMAIN @ |-> IF s \in S THEN [@[s] EXCEPT !.sentCursor = None] ELSE @[s]],
       !.ledger = Retained(@, S),
       !.effects = @ \o ReleaseEffects(r.ledger, S) \o [i \in DOMAIN q |-> Effect("unscale", q[i])],
       !.sent = @ \o [i \in DOMAIN q |-> Message("withdraw", r.mappings[q[i]], q[i], None)]]

\* unmap of a surface and, after it, of the popups it owns
Unmap(r, s) ==
  LET unreserved == [r EXCEPT !.reserved = Without(@, {s})]
  IN IF s \notin DOMAIN r.mappings THEN unreserved
     ELSE Withdrawn(unreserved, <<s>> \o SetToSeq(Popups(r, s) \intersect DOMAIN r.mappings))

-----------------------------------------------------------------------------
(* observe: the events of the local clients.                               *)

DesktopSurface(r, s) ==
  LET role == Cached(r, s).role
  IN role = "layer" \/ (role = "popup" /\ Cached(r, Owner[s]).role = "layer")

ObserveRole(r, s, role) ==
  LET known == Cache(r, s, [Cached(r, s) EXCEPT !.role = role])
      away == Unmap(known, s)
      session == known.reserved[s]
  IN CASE DesktopSurface(known, s) ->
            [away EXCEPT !.cache = [t \in DOMAIN @ |->
               IF t \in {s} \union Popups(away, s) THEN [@[t] EXCEPT !.commit = None] ELSE @[t]]]
       [] ~DesktopSurface(known, s) /\ s \in DOMAIN known.reserved ->
            Map([known EXCEPT !.reserved = Without(@, {s})], session, s)
       [] OTHER ->
            CASE s \in DOMAIN known.mappings -> Submit(known, Message("role", known.mappings[s], s, role))
              [] s \notin DOMAIN known.mappings /\ r.admission = "manual" /\ role = "popup"
                   /\ Owner[s] \in DOMAIN known.mappings -> Map(known, known.mappings[Owner[s]], s)
              [] OTHER -> Admit(known, s)

ObserveCommit(r, s, commit) ==
  LET known == Cache(r, s, [Cached(r, s) EXCEPT !.commit = commit])
      kept == IF commit = "mapped" THEN known
              ELSE ForgetCursor([known EXCEPT !.cache[s].cursor = None, !.cache[s].sentCursor = None], {s})
  IN CASE DesktopSurface(r, s) -> r
       [] ~DesktopSurface(r, s) /\ s \in DOMAIN r.mappings ->
            Submit(kept, Message("commit", r.mappings[s], s, commit))
       [] OTHER -> Admit(kept, s)

ObserveDestroyed(r, s) ==
  LET orphaned == Withdrawn([r EXCEPT !.reserved = Without(@, {s} \union Popups(r, s))],
                            SetToSeq(Popups(r, s) \intersect DOMAIN r.mappings))
      released == ReleasePresentation(orphaned, {s})
      settled == [released EXCEPT !.effects = @ \o ReleaseEffects(released.ledger, {s}),
                                  !.ledger = Retained(@, {s})]
      told == IF s \in DOMAIN settled.mappings
                THEN Submit([settled EXCEPT !.mappings = Without(@, {s})],
                            Message("destroyed", settled.mappings[s], s, None))
                ELSE settled
  IN ForgetCursor([told EXCEPT !.cache = Without(@, {s})], {s})

ObserveCursor(r, s, cursor) ==
  IF Cached(r, s).cursor = cursor THEN r
  ELSE QueueCursor(Cache(r, s, [Cached(r, s) EXCEPT !.cursor = cursor]), s)

-----------------------------------------------------------------------------
(* accept_destination: a message of the viewer.                            *)

\* Mutant: an acknowledgement of a surface that is no longer mapped is ignored.
AcceptMappedCursor(r, m) ==
  IF m.surface \notin DOMAIN r.mappings THEN r
  ELSE SendNextCursor([r EXCEPT !.inflight = Empty])

AcceptCursor(r, m) ==
  CASE DOMAIN r.inflight = {} ->
         IF m.value >= r.nextCursor THEN Fail(r, "acknowledgement precedes transmission") ELSE r
    [] OTHER ->
         CASE m.value < r.inflight.seq -> r
           [] [session |-> m.session, surface |-> m.surface, seq |-> m.value] = r.inflight ->
                SendNextCursor([r EXCEPT !.inflight = Empty])
           [] OTHER -> Fail(r, "acknowledgement mismatch")

\* The surface whose session the message must name.
Target(r, m) == IF m.kind = "focus" /\ m.surface = None THEN r.ledger.focus ELSE m.surface

\* SetPresentation { rate }: a request names a rate or asks for a pause.
Requested(claim) == IF claim = "paused" THEN "paused" ELSE "active"

AcceptRouted(r, m) ==
  CASE m.kind = "input" ->
         LET e == m.value
         IN IF Accepts(r.ledger, e)
              THEN [r EXCEPT !.ledger = Observe(@, e), !.effects = Append(@, Input(e.op, e.code, e.surface))]
              ELSE r
    [] m.kind = "focus" ->
         [r EXCEPT !.ledger = Focused(@, m.surface), !.effects = Append(@, Focus(m.surface))]
    [] m.kind = "claim" -> SetPresentation(r, m.surface, Requested(m.value))
    [] OTHER -> [r EXCEPT !.effects = Append(@, Effect("scale", m.surface))]

Accept(r, m) ==
  LET s == Target(r, m)
  IN CASE m.kind = "ack" -> AcceptCursor(r, m)
       [] m.kind # "ack" /\ s \notin DOMAIN r.mappings -> r
       [] m.kind # "ack" /\ s \in DOMAIN r.mappings ->
            IF r.mappings[s] # m.session THEN Fail(r, "crossed") ELSE AcceptRouted(r, m)

\* Admit for each of the surfaces of q
AdmitEach(r, q) ==
  LET admitted[n \in 0 .. Len(q)] == IF n = 0 THEN r ELSE Admit(admitted[n - 1], q[n])
  IN admitted[Len(q)]

\* The start of poll, once the port is ready.
Connect(r) ==
  LET told == IF r.ready /\ ~r.connected
                THEN [r EXCEPT !.connected = TRUE, !.effects = Append(@, Effect("connected", None))]
                ELSE r
  IN IF r.ready /\ ~r.admitting /\ r.admission = "all"
       THEN AdmitEach([told EXCEPT !.admitting = TRUE], SetToSeq(DOMAIN r.cache))
       ELSE told

-----------------------------------------------------------------------------
(* The local host.                                                         *)

\* apply_pending_effects
Apply(u, e) ==
  CASE e.kind = "input" -> [u EXCEPT !.seat = Played(@, e)]
    [] e.kind = "focus" -> [u EXCEPT !.seat.focus = e.surface]
    [] e.kind = "scale" -> [u EXCEPT !.scaled = (@ \union {e.surface}) \ u.gone]
    [] e.kind = "unscale" -> [u EXCEPT !.scaled = @ \ {e.surface}]
    [] e.kind = "disconnected" -> [u EXCEPT !.seat = NoSeat]
    [] OTHER -> u

\* apply_presentation_claim
ApplyClaim(u, c) ==
  [u EXCEPT !.claims = IF c.claim = "release" \/ c.surface \in u.gone
                         THEN Without(@, {c.surface}) ELSE Put(@, c.surface, c.claim)]

\* The host forgets a destroyed surface.
Forget(u, s) ==
  [u EXCEPT !.gone = @ \union {s}, !.scaled = @ \ {s}, !.claims = Without(@, {s}),
            !.seat = Retire(@, s)]

\* apply_pending_effects and apply_pending_presentations: all that waits, in order
AfterEffects(u, q) ==
  LET after[n \in 0 .. Len(q)] == IF n = 0 THEN u ELSE Apply(after[n - 1], q[n])
  IN after[Len(q)]

AfterClaims(u, q) ==
  LET after[n \in 0 .. Len(q)] == IF n = 0 THEN u ELSE ApplyClaim(after[n - 1], q[n])
  IN after[Len(q)]

Drained(u, r) == AfterClaims(AfterEffects(u, r.effects), r.updates)
=============================================================================
