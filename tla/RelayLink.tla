----------------------------- MODULE RelayLink ------------------------------
(***************************************************************************)
(* A hoist end to end at the level of the relays: SourceRelay and          *)
(* DestinationRelay over one ordered lane each way, with the clients, the  *)
(* hoist commands and the local host on one side and the user on the       *)
(* other.                                                                  *)
(*                                                                         *)
(* The local and the loopback transport keep all records in order. An      *)
(* encoded port holds a surface's own events back while another surface's  *)
(* batch is encoded or the transport is full, and lets mappings,           *)
(* withdrawals and cursors pass (encoded).                                 *)
(***************************************************************************)
EXTENDS SourceRelay, DestinationRelay

\* What a relay may be created with and meet: its admission, whether it is ready,
\* the inventory it starts with, whether its port is encoded; the codes and
\* contacts a user can hold, the claims the viewer makes, the cursors and roles of
\* the clients; and bounds on the events, commands, inputs, revocations and losses.
CONSTANT Environments

ASSUME LinkAssumption ==
  /\ \A e \in Environments :
       /\ "encoded" \in DOMAIN e /\ {e.encoded, e.ready} \subseteq BOOLEAN /\ e.inventory \subseteq Surfaces
       /\ e.admission \in {"manual", "all"}
       /\ {e.events, e.commands, e.inputs, e.revocations, e.losses} \subseteq Nat
  /\ IsFiniteSet(Surfaces) /\ None \notin Surfaces
  /\ Owner \in [Surfaces -> Surfaces \union {None}]
  /\ \A s \in Surfaces : Owner[s] # None => Owner[Owner[s]] = None

VARIABLES
  down, up,   \* records and messages under way
  delayed,    \* per surface, the events the encoded port holds back
  budget      \* the environment, and what it may still do

relays == <<src, dst, upstream, viewer>>
vars == <<relays, down, up, delayed, budget>>

Init ==
  /\ \E e \in Environments :
       SourceRelayInit(e.admission, e.ready, e.inventory) /\ budget = e
  /\ DestinationRelayInit
  /\ down = <<>> /\ up = <<>> /\ delayed = [s \in Surfaces |-> <<>>]

Spend(what) == budget[what] > 0 /\ budget' = [budget EXCEPT ![what] = @ - 1]

-----------------------------------------------------------------------------
(* The port of the source: what one call has submitted.                    *)

HeldBack(m) == budget.encoded /\ m.kind \in {"role", "commit", "destroyed"}

\* submit: a message waits behind the others of its surface, or passes them.
Hold(p, m) ==
  IF HeldBack(m) THEN [p EXCEPT !.held[m.surface] = Append(@, m)]
  ELSE [lane |-> Append(p.lane, m),
        held |-> IF m.kind = "withdraw" THEN [p.held EXCEPT ![m.surface] = <<>>] ELSE p.held]

HoldEach(p, q) ==
  LET after[n \in 0 .. Len(q)] == IF n = 0 THEN p ELSE Hold(after[n - 1], q[n])
  IN after[Len(q)]

\* A call of the relay. The runtime drains the effects and claims of one call
\* before the next; only revocation comes between.
Become(r) ==
  LET port == HoldEach([lane |-> down, held |-> delayed], r.sent)
  IN /\ src.effects = <<>> /\ src.updates = <<>>
     /\ src' = [r EXCEPT !.sent = <<>>]
     /\ down' = port.lane /\ delayed' = port.held

PortSends(s) ==
  /\ delayed[s] # <<>>
  /\ down' = Append(down, Head(delayed[s]))
  /\ delayed' = [delayed EXCEPT ![s] = Tail(@)]
  /\ UNCHANGED <<relays, up, budget>>

-----------------------------------------------------------------------------
(* Authorization, and its revocation by another thread.                    *)

Authorize ==
  /\ ~src.ready /\ src' = [src EXCEPT !.ready = TRUE]
  /\ UNCHANGED <<dst, upstream, viewer, down, up, delayed, budget>>

Revoke ==
  /\ ~src.revoked /\ Spend("revocations") /\ src' = [src EXCEPT !.revoked = TRUE]
  /\ UNCHANGED <<dst, upstream, viewer, down, up, delayed>>

\* apply_command: the hoist policy maps a root under a session of its own.
CommandMap(s) ==
  /\ src.admission = "manual" /\ Owner[s] = None /\ s \notin upstream.gone
  /\ Spend("commands")
  /\ Become(Checked([src EXCEPT !.nextSession = @ + 1], LAMBDA r : Map(r, src.nextSession, s)))
  /\ UNCHANGED <<dst, upstream, viewer, up>>

CommandUnmap(s) ==
  /\ src.admission = "manual" /\ Owner[s] = None
  /\ Mapped(s) \/ s \in DOMAIN src.reserved
  /\ Spend("commands") /\ Become(Unmap(src, s))
  /\ UNCHANGED <<dst, upstream, viewer, up>>

-----------------------------------------------------------------------------
(* The clients. A popup takes its role after its root has one.             *)

Client(s, Op(_)) ==
  /\ s \notin upstream.gone /\ Spend("events") /\ Become(Checked(src, Op))
  /\ UNCHANGED <<dst, viewer, up>>

ClientRole(s) ==
  \E role \in IF Owner[s] = None THEN budget.roles ELSE {"popup"} :
    /\ Cached(src, s).role \in {None, role}
    /\ role = "popup" => Cached(src, Owner[s]).role # None
    /\ Client(s, LAMBDA r : ObserveRole(r, s, role)) /\ UNCHANGED upstream

ClientCommit(s) ==
  \E commit \in {"mapped", "unmapped"} :
    /\ Cached(src, s).role # None /\ Cached(src, s).commit # commit
    /\ Client(s, LAMBDA r : ObserveCommit(r, s, commit)) /\ UNCHANGED upstream

ClientCursor(s) ==
  \E cursor \in budget.cursors :
    /\ Cached(src, s).role # None
    /\ Client(s, LAMBDA r : ObserveCursor(r, s, cursor)) /\ UNCHANGED upstream

ClientDestroyed(s) ==
  /\ Cached(src, s).role # None
  /\ Client(s, LAMBDA r : ObserveDestroyed(r, s)) /\ upstream' = Forget(upstream, s)

-----------------------------------------------------------------------------
(* The source's turns.                                                     *)

SourcePoll ==
  /\ Up(src)
  /\ src.revoked \/ up # <<>> \/ Connect(src) # src
  /\ Become(Checked(src, LAMBDA r : LET c == Connect(r) IN IF up = <<>> THEN c ELSE Accept(c, Head(up))))
  /\ up' = IF up = <<>> THEN up ELSE Tail(up)
  /\ UNCHANGED <<dst, upstream, viewer, budget>>

\* The transport is lost: the next poll reports it.
SourceClosed ==
  /\ Up(src) /\ Spend("losses") /\ Become(Fail(src, "closed"))
  /\ UNCHANGED <<dst, upstream, viewer, up>>

\* drain_effects and drain_presentation_claims, and what the host does with them
Drain ==
  LET r == CheckAccess(src)
  IN /\ r.effects # <<>> \/ r.updates # <<>>
     /\ src' = [r EXCEPT !.effects = <<>>, !.updates = <<>>]
     /\ upstream' = Drained(upstream, r)
     /\ UNCHANGED <<dst, viewer, down, up, delayed, budget>>

-----------------------------------------------------------------------------
(* The destination's turns. A poll finds one record, or all of them.       *)

DestinationPoll ==
  \E n \in {1, Len(down)} \ {0} :
    LET d == ApplyEach(dst, SubSeq(down, 1, n))
    IN /\ down # <<>> /\ dst.failed = None
       /\ DrainInto(d) /\ up' = up \o d.sent
       /\ down' = SubSeq(down, n + 1, Len(down))
       /\ UNCHANGED <<src, upstream, delayed, budget>>

DestinationClosed ==
  /\ dst.failed = None /\ ~Up(src) /\ DrainInto(FailDestination(dst, "closed"))
  /\ UNCHANGED <<src, upstream, down, up, delayed, budget>>

User(messages) ==
  /\ Spend("inputs") /\ up' = up \o messages
  /\ UNCHANGED <<src, upstream, viewer, down, delayed>>

Shown(s) == Routed(s) /\ s \in DOMAIN viewer.cursors

\* The runtime ends a held code before it begins again.
UserInput(s) ==
  \E op \in {"press", "release", "repeat", "down", "up", "frame", "cancel"} :
  \E code \in CASE op \in {"press", "release", "repeat"} -> budget.codes
                [] op \in {"down", "up"} -> budget.contacts
                [] OTHER -> {x \in {None} : budget.contacts # {}} :
    LET e == Input(op, code, s)
    IN /\ Shown(s) /\ (op = "press" => code \notin DOMAIN dst.ledger.held)
       /\ ApplyInput(e) /\ User(<<Envelope("input", dst.sessions[s], s, e)>>)

UserFocus(s) ==
  /\ Shown(s) /\ dst.ledger.focus # s /\ ApplyFocus(s)
  /\ User(<<Envelope("focus", dst.sessions[s], s, None)>>)

UserUnfocus ==
  /\ dst.ledger.focus # None /\ ApplyFocus(None)
  /\ User(<<Envelope("focus", dst.sessions[dst.ledger.focus], None, None)>>)

UserFocusLost ==
  /\ dst.failed = None /\ FocusLostMessages # <<>>
  /\ dst' = [dst EXCEPT !.ledger = NoInput] /\ User(FocusLostMessages)

UserPresents(s) ==
  \E claim \in budget.claims : \E kind \in {"claim", "scale"} :
    /\ Shown(s) /\ UNCHANGED dst
    /\ User(<<Envelope(kind, dst.sessions[s], s, claim)>>)

-----------------------------------------------------------------------------
SourceNext ==
  \/ Authorize \/ Revoke \/ SourcePoll \/ SourceClosed \/ Drain
  \/ \E s \in Surfaces :
       \/ CommandMap(s) \/ CommandUnmap(s) \/ PortSends(s)
       \/ ClientRole(s) \/ ClientCommit(s) \/ ClientCursor(s) \/ ClientDestroyed(s)

DestinationNext ==
  \/ DestinationPoll \/ DestinationClosed \/ UserUnfocus \/ UserFocusLost
  \/ \E s \in Surfaces : UserInput(s) \/ UserFocus(s) \/ UserPresents(s)

Next == SourceNext \/ DestinationNext

Spec == Init /\ [][Next]_vars

-----------------------------------------------------------------------------
\* What the user holds on the source, once the queued effects are played, is
\* exactly what the ledger says, and the ledger names mapped surfaces only: a
\* withdrawn, destroyed, revoked or failed surface keeps nothing pressed,
\* touched or focused, and nothing held is released behind the user's back.
HeldInputSettled ==
  LET seat == Drained(upstream, src).seat
      ledger == src.ledger
  IN /\ seat.held = [c \in DOMAIN ledger.held |-> ledger.held[c].surface]
     /\ seat.contacts = ledger.contacts
     /\ seat.focus = ledger.focus
     /\ Range(seat.held) \union Range(seat.contacts) \union ledger.frames \union {seat.focus}
          \subseteq DOMAIN src.mappings \union {None}
     /\ ~Up(src) => seat = NoSeat

\* The claims that the host knows are those of the relay, one for each mapped
\* surface, and only mapped surfaces keep the viewer's scale; a failed relay
\* leaves neither. (A revocation clears
\* the updates that wait.)
ClaimsSettled ==
  LET u == Drained(upstream, src)
  IN ~src.revoked =>
       /\ u.claims = src.claims
       /\ DOMAIN src.claims = IF Up(src) THEN DOMAIN src.mappings ELSE {}
       /\ u.scaled \subseteq DOMAIN src.claims

Quiet == down = <<>> /\ up = <<>> /\ \A s \in Surfaces : delayed[s] = <<>>

\* There is one credit for cursors. It is back when nothing is under way, also
\* from a surface that was withdrawn or destroyed meanwhile, over any transport.
CreditReturned == down = <<>> /\ up = <<>> /\ Up(src) /\ dst.failed = None => src.inflight = Empty

\* The latest cursor arrives: the credit comes back, and when nothing is under
\* way every mapped surface is shown with the cursor its client asked for. (Over
\* an encoded port a cursor may pass the role of its surface.)
CursorSettled ==
  /\ CreditReturned
  /\ ~budget.encoded /\ Quiet /\ Up(src) /\ dst.failed = None =>
       \A s \in DOMAIN src.mappings :
         Cached(src, s).cursor # None =>
           s \in DOMAIN viewer.cursors /\ viewer.cursors[s] = src.cache[s].cursor

\* No order of mapping, withdrawal, destruction and acknowledgement makes an end
\* report a protocol error, except for messages of a session that has ended.
OnlyStaleSessionsFail ==
  /\ src.failed \in {None, "crossed", "revoked", "closed"}
  /\ dst.failed \in {None, "closed"}

\* With AllToplevels every window that has content is mapped, and so is every
\* popup with content whose root is mapped, whatever the order of roles,
\* commits and authorization.
EveryWindowAdmitted ==
  Up(src) /\ src.admitting =>
    \A s \in DOMAIN src.cache :
      LET c == src.cache[s]
      IN c.commit = "mapped" /\ (c.role = "toplevel" \/ (c.role = "popup" /\ Mapped(Owner[s]))) => Mapped(s)
=============================================================================
