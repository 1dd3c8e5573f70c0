---------------------------- MODULE RemoteControl ---------------------------
(***************************************************************************)
(* Remote control of local windows (weld-remote-control): requests of      *)
(* other threads press, release and play sequences through a source relay  *)
(* of their own (SourceRelay), under a grant that the local user can       *)
(* revoke, or suspend by taking the window over.                           *)
(*                                                                         *)
(* The host's thread takes turns. Between two of them it issues grants and *)
(* hands windows over; in a turn (ClientRuntime::drain_events) the adapter *)
(* drains its commands, the clients' events come, it drains once more if   *)
(* there were any, and the effects are played. Requests, revocations and   *)
(* deadlines come at any moment.                                           *)
(*                                                                         *)
(* A code is a key; held buttons, kept in a set of the same form, are left *)
(* out, and so are captures, recordings and their replies, cursors,        *)
(* capabilities, resizing, the pacing of steps and the routing inside a    *)
(* view. A queue of 64 commands and 64 grants are not reached. A turn      *)
(* retires once more before the claims are drained: here the next one does.*)
(***************************************************************************)
EXTENDS SourceRelay

\* What a behaviour may meet: the requests that callers make ([kind, steps, keep],
\* see below), and bounds on the grants issued, the requests sent, the changes of
\* hands of a grant and the events of the clients.
CONSTANT Controls

ASSUME ControlAssumption ==
  \A e \in Controls : {e.grants, e.asks, e.handovers, e.events} \subseteq Nat

VARIABLES
  phase,     \* where the host's thread is in its turn
  grants,    \* the GrantStates issued; the index is the session
  commands,  \* the channel to the adapter
  answers,   \* per request: "waiting", "ok" or "error"
  late,      \* the requests whose deadline has passed
  ctl,       \* the adapter
  around,    \* what this behaviour may meet
  receipts   \* history: [grant, epoch, code] of the presses that were receipted

remote == <<phase, grants, commands, answers, late, ctl, around, receipts>>

NoBatch == <<>>

RemoteInit ==
  /\ phase = "host" /\ grants = <<>> /\ commands = <<>> /\ answers = <<>>
  /\ late = {} /\ around \in Controls /\ receipts = {}
  /\ ctl = [grants |-> Empty, epochs |-> Empty, held |-> [s \in Surfaces |-> {}],
            position |-> [s \in Surfaces |-> None], batch |-> NoBatch, accepted |-> <<>>, messages |-> <<>>]

Even(n) == n % 2 = 0
Live(g) == grants[g].live
Members(w) == {s \in Surfaces : s = w \/ Owner[s] = w}

-----------------------------------------------------------------------------
(* The callers' threads, and the host's between two turns.                 *)

\* RemoteControlClient::grant: one live grant for a window. It starts in the
\* hands of the remote side.
IssueGrant(w) ==
  /\ phase = "host" /\ Len(grants) < around.grants
  /\ Owner[w] = None /\ w \notin upstream.gone
  /\ \A g \in DOMAIN grants : grants[g].surface = w => ~Live(g)
  /\ grants' = Append(grants, [surface |-> w, live |-> TRUE, epoch |-> 0, applied |-> 0])
  /\ commands' = Append(commands, [kind |-> "grant", grant |-> Len(grants) + 1])
  /\ UNCHANGED <<phase, answers, late, ctl, around, receipts, src, upstream>>

\* Grant::revoke and drop, and a revocation by the access authority.
Withdraw(g) ==
  /\ Live(g) /\ grants' = [grants EXCEPT ![g].live = FALSE]
  /\ UNCHANGED <<phase, commands, answers, late, ctl, around, receipts, src, upstream>>

\* Grant::set_local_input: an odd epoch is local.
SetLocalInput(g) ==
  /\ phase = "host" /\ grants[g].epoch < around.handovers
  /\ grants' = [grants EXCEPT ![g].epoch = @ + 1]
  /\ UNCHANGED <<phase, commands, answers, late, ctl, around, receipts, src, upstream>>

\* Grant::local_input_ready
LocalInputReady(g) == ~Even(grants[g].epoch) /\ grants[g].applied = grants[g].epoch

\* RemoteControlClient::request, up to its wait for the answer
Request(g, r) ==
  /\ Len(answers) < around.asks /\ Live(g) /\ Even(grants[g].epoch)
  /\ answers' = Append(answers, "waiting")
  /\ commands' = Append(commands, [kind |-> r.kind, steps |-> r.steps, keep |-> r.keep, grant |-> g,
                                   epoch |-> grants[g].epoch, id |-> Len(answers) + 1])
  /\ UNCHANGED <<phase, grants, late, ctl, around, receipts, src, upstream>>

\* A deadline matters until the request is executed.
DeadlinePasses(p) ==
  /\ p.kind # "grant" /\ p.id \notin late /\ late' = late \union {p.id}
  /\ UNCHANGED <<phase, grants, commands, answers, ctl, around, receipts, src, upstream>>

-----------------------------------------------------------------------------
(* A turn begins: what was revoked is withdrawn, what changed hands let go.*)

Released(r, S) ==
  [r EXCEPT !.effects = @ \o ReleaseEffects(r.ledger, S), !.ledger = Retained(@, S)]

LetGo(c, W) ==
  [c EXCEPT !.held = [s \in Surfaces |-> IF s \in W THEN {} ELSE @[s]],
            !.position = [s \in Surfaces |-> IF s \in W THEN None ELSE @[s]]]

\* retire, with the port's answer to a withdrawal: the grant is forgotten.
Dead == {w \in DOMAIN ctl.grants : ~Live(ctl.grants[w])}
RetiredRelay == FoldSet(LAMBDA w, r : Unmap(r, w), src, Dead)
RetiredControl ==
  LET c == LetGo(ctl, Dead)
  IN [c EXCEPT !.grants = Without(@, Dead \intersect DOMAIN src.mappings), !.epochs = Without(@, Dead)]

\* Mutant: only the side that owns the window is compared.
SideChanged(c) ==
  {w \in DOMAIN c.grants \intersect DOMAIN c.epochs : Even(c.epochs[w]) # Even(grants[c.grants[w]].epoch)}

\* synchronize_input_ownership: the windows that changed hands since the last time.
HandedOver(c) ==
  {w \in DOMAIN c.grants \intersect DOMAIN c.epochs : c.epochs[w] # grants[c.grants[w]].epoch}

Synchronize ==
  LET c == RetiredControl
      given == HandedOver(c)
  IN /\ ctl' = [LetGo(c, given) EXCEPT
                  !.epochs = [w \in DOMAIN @ \union DOMAIN c.grants |->
                                IF w \in DOMAIN c.grants THEN grants[c.grants[w]].epoch ELSE @[w]]]
     /\ src' = [Released(RetiredRelay, UNION {Members(w) : w \in given}) EXCEPT !.sent = <<>>]
     /\ UNCHANGED <<grants, commands, answers, late, around, receipts, upstream>>

DrainEvents ==
  /\ phase \in {"host", "observed"}
  /\ phase' = IF phase = "host" THEN "commands" ELSE "recheck"
  /\ Synchronize

-----------------------------------------------------------------------------
(* The operations. A step is [op, code]; `tap' is a chord, `point' a click *)
(* or a scroll where the pointer is, which holds nothing.                  *)

\* Mutant: ownership is checked when the request is made, not when it runs.
ValidWhenSent(p) ==
  /\ Live(p.grant) /\ p.id \notin late
  /\ LET w == grants[p.grant].surface IN w \in DOMAIN ctl.grants /\ ctl.grants[w] = p.grant

\* validate_pending
Valid(p) ==
  /\ Live(p.grant) /\ p.id \notin late
  /\ Even(grants[p.grant].epoch) /\ grants[p.grant].epoch = p.epoch
  /\ LET w == grants[p.grant].surface IN w \in DOMAIN ctl.grants /\ ctl.grants[w] = p.grant

\* execute: its conditions,
Executable(p, step) ==
  LET w == grants[p.grant].surface
  IN /\ Valid(p) /\ Mapped(w) /\ Cached(src, w).commit = "mapped"
     /\ CASE step.op = "tap" -> step.code \notin ctl.held[w]
          [] step.op = "point" -> ctl.position[w] = "inside"
          [] step.op = "text" -> \A s \in Surfaces : ctl.held[s] = {}
          [] OTHER -> TRUE

\* the messages it queues for the relay,
StepMessages(p, step) ==
  LET w == grants[p.grant].surface
      edge(op) == Message("input", p.grant, w, Input(op, step.code, w))
      focus == Message("focus", p.grant, w, None)
  IN CASE step.op = "press" -> <<focus, edge("press")>>
       [] step.op = "release" -> <<edge("release")>>
       [] step.op = "tap" -> <<focus, edge("press"), edge("release")>>
       [] step.op \in {"point", "text"} -> <<focus>>
       [] step.op = "move" -> <<>>

\* and what it keeps. The receipt is due when the effects are drained.
Executed(c, p, step, inSequence) ==
  LET w == grants[p.grant].surface
  IN [c EXCEPT
       !.messages = @ \o StepMessages(p, step),
       !.held[w] = CASE step.op = "press" -> @ \union {step.code}
                     [] step.op = "release" -> @ \ {step.code}
                     [] OTHER -> @,
       !.position[w] = IF step.op = "move" THEN "inside" ELSE @,
       !.accepted = Append(@, [id |-> p.id, grant |-> p.grant, epoch |-> p.epoch, step |-> step,
                               inSequence |-> inSequence])]

Answer(id, status) == answers' = [answers EXCEPT ![id] = status] /\ late' = late \ {id}
NoAnswer == UNCHANGED <<answers, late>>

Draining == phase \in {"commands", "recheck"}

Take(kinds) ==
  /\ Draining /\ commands # <<>> /\ Head(commands).kind \in kinds /\ commands' = Tail(commands)
  /\ UNCHANGED <<phase, grants, around, receipts, upstream>>

\* Command::Grant. One that was revoked while it waited is dropped.
TakeGrant ==
  /\ Take({"grant"}) /\ NoAnswer
  /\ LET g == Head(commands).grant
         w == grants[g].surface
     IN IF Live(g)
          THEN /\ ctl' = [ctl EXCEPT !.epochs = Put(@, w, grants[g].epoch), !.grants = Put(@, w, g),
                                     !.messages = Append(@, Message("claim", g, w, "active"))]
               /\ src' = [Map(src, g, w) EXCEPT !.sent = <<>>]
          ELSE UNCHANGED <<ctl, src>>

\* Command::Operation while a sequence runs
TakeBusy ==
  /\ ctl.batch # NoBatch /\ Take({"direct", "sequence"})
  /\ Answer(Head(commands).id, "error") /\ UNCHANGED <<ctl, src>>

TakeDirect ==
  /\ ctl.batch = NoBatch /\ Take({"direct"}) /\ UNCHANGED src
  /\ LET p == Head(commands)
     IN IF Executable(p, p.steps[1])
          THEN ctl' = Executed(ctl, p, p.steps[1], FALSE) /\ NoAnswer
          ELSE Answer(p.id, "error") /\ UNCHANGED ctl

\* start_sequence: text waits for the keys of the other windows here.
TakeSequence ==
  /\ ctl.batch = NoBatch /\ Take({"sequence"}) /\ UNCHANGED src
  /\ LET p == Head(commands)
         w == grants[p.grant].surface
         typing == \E i \in DOMAIN p.steps : p.steps[i].op = "text"
     IN IF Valid(p) /\ (typing => \A s \in Surfaces \ {w} : ctl.held[s] = {})
          THEN /\ ctl' = [ctl EXCEPT !.batch = <<[p EXCEPT !.kind = "plan"] @@ [initial |-> ctl.held[w], flight |-> "none"]>>]
               /\ NoAnswer
          ELSE Answer(p.id, "error") /\ UNCHANGED ctl

-----------------------------------------------------------------------------
(* progress_sequence, and the relay's poll that ends drain_events.         *)

Batch == ctl.batch[1]

EndDrain(c, r) ==
  /\ Draining /\ commands = <<>>
  /\ phase' = IF phase = "commands" THEN "observe" ELSE "settle"
  /\ ctl' = [c EXCEPT !.messages = <<>>]
  /\ src' = [FoldLeft(Accept, Connect(r), c.messages) EXCEPT !.sent = <<>>]
  /\ UNCHANGED <<grants, commands, around, receipts, upstream>>

NoSequence == ctl.batch = NoBatch /\ EndDrain(ctl, src) /\ NoAnswer

Running == ctl.batch # NoBatch /\ Batch.flight # "error" /\ Valid(Batch)

Ended(c) == [c EXCEPT !.batch = NoBatch]

\* abort_sequence
Abort ==
  LET w == grants[Batch.grant].surface
  IN /\ EndDrain([Ended(ctl) EXCEPT !.held[w] = {}], Released(src, Members(w)))
     /\ Answer(Batch.id, "error")

AbortSequence == ctl.batch # NoBatch /\ ~Running /\ Abort

\* A step is in flight, the next one is not due, or names are being resolved.
SequenceWaits ==
  /\ Running /\ NoAnswer
  /\ EndDrain(IF Batch.flight = "ok" THEN [ctl EXCEPT !.batch[1].flight = "none"] ELSE ctl, src)

\* Plan::resolve: whether the steps balance, and what is held after them
Balance(b, step) ==
  CASE step.op = "press" -> [sound |-> b.sound /\ step.code \notin b.held, held |-> b.held \union {step.code}]
    [] step.op = "release" -> [sound |-> b.sound /\ step.code \in b.held, held |-> b.held \ {step.code}]
    [] step.op = "tap" -> [b EXCEPT !.sound = @ /\ step.code \notin b.held]
    [] step.op = "text" -> [b EXCEPT !.sound = @ /\ b.held = {}]
    [] OTHER -> b

\* Plan::resolve and validate_pointer_steps
Sound(b) ==
  LET w == grants[b.grant].surface
      last == FoldLeft(Balance, [sound |-> TRUE, held |-> b.initial], b.steps)
  IN /\ last.sound /\ (b.keep \/ last.held \subseteq b.initial)
     /\ Mapped(w) /\ Cached(src, w).commit # None
     /\ \A i \in DOMAIN b.steps :
          b.steps[i].op = "point" =>
            ctl.position[w] # None \/ \E j \in 1 .. i - 1 : b.steps[j].op = "move"

\* The plan does not resolve, or a key name is unknown to the keymap.
SequenceRefused ==
  /\ Running /\ Batch.kind = "plan"
  /\ EndDrain(Ended(ctl), src) /\ Answer(Batch.id, "error")

CanStep == Running /\ Batch.flight # "waiting" /\ (Batch.kind = "plan" => Sound(Batch))

SequenceFinished ==
  /\ CanStep /\ Batch.steps = <<>>
  /\ EndDrain(Ended(ctl), src) /\ Answer(Batch.id, "ok")

SequenceStep ==
  /\ CanStep /\ Batch.steps # <<>>
  /\ LET step == Head(Batch.steps)
         next == [ctl EXCEPT !.batch[1] = [@ EXCEPT !.kind = "steps", !.steps = Tail(@), !.flight = "waiting"]]
     IN IF Executable(Batch, step)
          THEN EndDrain(Executed(next, Batch, step, TRUE), src) /\ NoAnswer
          ELSE Abort

-----------------------------------------------------------------------------
(* The clients' events, and the port: a window that goes ends its grant.   *)

\* observe_event, for events that the relay submits to the port
WindowEvent(w, r, ends) ==
  /\ phase \in {"observe", "observed"} /\ around.events > 0 /\ w \notin upstream.gone
  /\ phase' = "observed" /\ around' = [around EXCEPT !.events = @ - 1]
  /\ src' = [r EXCEPT !.sent = <<>>]
  /\ grants' = IF ends /\ Mapped(w) /\ w \in DOMAIN ctl.grants
                 THEN [grants EXCEPT ![ctl.grants[w]].live = FALSE] ELSE grants
  /\ UNCHANGED <<commands, answers, late, receipts>>

WindowCommits(w, commit) ==
  /\ Cached(src, w).commit # commit
  /\ WindowEvent(w, ObserveCommit(src, w, commit), commit # "mapped") /\ UNCHANGED <<ctl, upstream>>

WindowDestroyed(w) ==
  /\ WindowEvent(w, ObserveDestroyed(src, w), TRUE) /\ upstream' = Forget(upstream, w) /\ UNCHANGED ctl

\* A commit makes the window smaller than where the pointer was left.
WindowShrinks(w) ==
  /\ ctl.position[w] = "inside" /\ Cached(src, w).commit = "mapped"
  /\ WindowEvent(w, ObserveCommit(src, w, "mapped"), FALSE)
  /\ ctl' = [ctl EXCEPT !.position[w] = "outside"] /\ UNCHANGED upstream

-----------------------------------------------------------------------------
(* drain_effects.                                                          *)

Settle == phase \in {"observe", "settle"} /\ phase' = "deliver" /\ Synchronize

\* Port::effects_drained: the receipts
Receipted(p) == Live(p.grant) /\ grants[p.grant].epoch = p.epoch
ReceiptOf(p) == IF Receipted(p) THEN "ok" ELSE "error"

Deliver ==
  /\ phase = "deliver" /\ phase' = "host"
  /\ upstream' = Drained(upstream, src)
  /\ src' = [src EXCEPT !.effects = <<>>, !.updates = <<>>]
  /\ answers' = [i \in DOMAIN answers |->
       LET own == SelectSeq(ctl.accepted, LAMBDA p : p.id = i /\ ~p.inSequence)
       IN IF own = <<>> THEN answers[i] ELSE ReceiptOf(own[1])]
  /\ LET steps == SelectSeq(ctl.accepted, LAMBDA p : p.inSequence)
         landed == ctl.batch # NoBatch /\ \E i \in DOMAIN steps : steps[i].id = Batch.id
     IN ctl' = [ctl EXCEPT !.accepted = <<>>,
                           !.batch = IF landed THEN <<[Batch EXCEPT !.flight = ReceiptOf(steps[1])]>> ELSE @]
  /\ receipts' = receipts \union {[grant |-> p.grant, epoch |-> p.epoch, code |-> p.step.code] :
                                    p \in {q \in ToSet(ctl.accepted) : q.step.op = "press" /\ Receipted(q)}}
  /\ grants' = [g \in DOMAIN grants |->
       LET w == grants[g].surface
       IN IF w \in DOMAIN ctl.grants \intersect DOMAIN ctl.epochs /\ ctl.grants[w] = g
            THEN [grants[g] EXCEPT !.applied = ctl.epochs[w]] ELSE grants[g]]
  /\ UNCHANGED <<commands, late, around>>

-----------------------------------------------------------------------------
AdapterNext ==
  \/ DrainEvents \/ TakeGrant \/ TakeBusy \/ TakeDirect \/ TakeSequence
  \/ NoSequence \/ AbortSequence \/ SequenceWaits \/ SequenceRefused \/ SequenceFinished \/ SequenceStep
  \/ Settle \/ Deliver

RemoteNext ==
  \/ AdapterNext
  \/ \E g \in DOMAIN grants :
       Withdraw(g) \/ SetLocalInput(g) \/ \E r \in around.requests : Request(g, r)
  \/ \E p \in ToSet(commands \o ctl.batch) : DeadlinePasses(p)
  \/ \E w \in Surfaces :
       \/ IssueGrant(w) \/ WindowDestroyed(w) \/ WindowShrinks(w)
       \/ \E commit \in {"mapped", "unmapped"} : WindowCommits(w, commit)

-----------------------------------------------------------------------------
\* While the local user may use a window that was taken over, nothing that was
\* begun remotely is held there or still on its way to it, and nothing queued
\* or scheduled before can begin again.
TakeoverIsClean ==
  \A g \in DOMAIN grants :
    Live(g) /\ LocalInputReady(g) =>
      LET W == Members(grants[g].surface)
      IN /\ \A c \in DOMAIN src.ledger.held : src.ledger.held[c].surface \notin W
         /\ \A i \in DOMAIN ctl.messages : ctl.messages[i].kind = "input" => ctl.messages[i].surface \notin W
         /\ \A c \in DOMAIN Drained(upstream, src).seat.held : Drained(upstream, src).seat.held[c] \notin W

\* Between two turns, whatever a live grant holds was pressed under this very
\* grant and in the current period of remote ownership, and its caller was told
\* so: an input that was refused, or accepted before a handover or for the
\* window's earlier grant, leaves nothing down. No order of grants, revocations
\* and requests crosses the relay's sessions.
HeldIsReceipted ==
  phase = "host" /\ grants # <<>> =>
    /\ src.failed = None
    /\ \A c \in DOMAIN src.ledger.held :
         LET w == src.ledger.held[c].surface
             g == src.mappings[w]
         IN Live(g) => [grant |-> g, epoch |-> ctl.epochs[w], code |-> c] \in receipts

\* The interruption of a sequence releases what its window retains: between two
\* turns the adapter knows of everything that is held for a live grant.
NothingHeldUnknown ==
  phase = "host" /\ grants # <<>> =>
    \A c \in DOMAIN src.ledger.held :
      LET w == src.ledger.held[c].surface IN Live(src.mappings[w]) => c \in ctl.held[w]
=============================================================================
