---------------------------- MODULE RemoteInput -----------------------------
(***************************************************************************)
(* The ledger of held input that both relays keep (weld-hoist-core         *)
(* relay.rs RemoteInputState, touch.rs TouchLedger), and the native seat   *)
(* that the source relay plays it to (weld-core server/input_admission.rs  *)
(* and input_seat.rs).                                                     *)
(*                                                                         *)
(* `held' is what was pressed and not released: a key, a pointer button, a *)
(* gesture and a finger scroll behave alike, each is begun on a target,    *)
(* ended, and cancelled when its target goes; only a key repeats. Targets  *)
(* are surfaces; positions, layers and times are left out.                 *)
(***************************************************************************)
EXTENDS Integers, SequencesExt

CONSTANTS
  Surfaces,
  Owner,        \* PopupState.owner: the root of a popup, None for a root
  MaxContacts   \* MAX_TOUCH_CONTACTS

None == "none"
Empty == [x \in {} |-> x]
Without(f, S) == [x \in DOMAIN f \ S |-> f[x]]
Put(f, x, v) == [y \in DOMAIN f \union {x} |-> IF y = x THEN v ELSE f[y]]

\* q without the members of S
Dropping(q, S) ==
  LET kept[n \in 0 .. Len(q)] ==
        IF n = 0 THEN <<>> ELSE IF q[n] \in S THEN kept[n - 1] ELSE Append(kept[n - 1], q[n])
  IN kept[Len(q)]

NoInput == [held |-> Empty, contacts |-> Empty, frames |-> {}, focus |-> None]

Input(op, code, s) == [kind |-> "input", op |-> op, code |-> code, surface |-> s]
Focus(s) == [kind |-> "focus", surface |-> s]

\* RemoteInputState::accepts_input
Accepts(l, e) ==
  LET touched == {l.contacts[c] : c \in DOMAIN l.contacts}
  IN CASE e.op = "repeat" ->
            /\ e.code \in DOMAIN l.held
            /\ l.held[e.code] = [surface |-> e.surface, repeats |-> TRUE]
       [] e.op = "down" ->
            /\ e.code \notin DOMAIN l.contacts /\ Cardinality(DOMAIN l.contacts) < MaxContacts
            /\ e.surface \in l.frames \/ Cardinality(l.frames) < MaxContacts
       [] e.op = "up" -> e.code \in DOMAIN l.contacts /\ l.contacts[e.code] = e.surface
       [] e.op = "frame" -> e.surface \in l.frames
       [] e.op = "cancel" -> e.surface \in l.frames \union touched
       [] OTHER -> TRUE

\* RemoteInputState::observe_input, for an event that is accepted
Observe(l, e) ==
  CASE e.op = "press" -> [l EXCEPT !.held = Put(@, e.code, [surface |-> e.surface, repeats |-> TRUE])]
    [] e.op = "release" -> [l EXCEPT !.held = Without(@, {e.code})]
    [] e.op = "down" -> [l EXCEPT !.contacts = Put(@, e.code, e.surface), !.frames = @ \union {e.surface}]
    [] e.op = "up" -> [l EXCEPT !.contacts = Without(@, {e.code}), !.frames = @ \union {e.surface}]
    [] e.op = "frame" -> [l EXCEPT !.frames = @ \ {e.surface}]
    [] e.op = "cancel" ->
         [l EXCEPT !.contacts = Without(@, {c \in DOMAIN @ : @[c] = e.surface}),
                   !.frames = @ \ {e.surface}]
    [] OTHER -> l

\* RemoteInputState::observe_request: a change of focus ends repeats.
Focused(l, s) ==
  [l EXCEPT !.focus = s,
            !.held = IF l.focus = s THEN @ ELSE [c \in DOMAIN @ |-> [@[c] EXCEPT !.repeats = FALSE]]]

\* RemoteInputState::release_effects for the surfaces S: one end for each thing
\* held there, and the focus cleared. The order is the one of a hash map.
Retained(l, S) ==
  [held |-> Without(l.held, {c \in DOMAIN l.held : l.held[c].surface \in S}),
   contacts |-> Without(l.contacts, {c \in DOMAIN l.contacts : l.contacts[c] \in S}),
   frames |-> l.frames \ S,
   focus |-> IF l.focus \in S THEN None ELSE l.focus]

\* Mutant: only what can still repeat is released.
ReleaseRepeating(l, S) ==
  SetToSeq({Input("release", c, l.held[c].surface) :
              c \in {d \in DOMAIN l.held : l.held[d].surface \in S /\ l.held[d].repeats}})

ReleaseHeld(l, S) ==
  LET codes == {c \in DOMAIN l.held : l.held[c].surface \in S}
  IN SetToSeq({Input("release", c, l.held[c].surface) : c \in codes})

ReleaseEffects(l, S) ==
  LET touched == ({l.contacts[c] : c \in DOMAIN l.contacts} \union l.frames) \intersect S
  IN SetToSeq({Input("cancel", None, s) : s \in touched})
       \o ReleaseHeld(l, S)
       \o IF l.focus \in S THEN <<Focus(None)>> ELSE <<>>

-----------------------------------------------------------------------------
(* The native seat of the source's viewer.                                 *)

NoSeat == [held |-> Empty, contacts |-> Empty, focus |-> None]

\* InputAdmission::allows and observe: a press takes a free code, an end needs
\* one that is taken.
Played(seat, e) ==
  CASE e.op = "press" /\ e.code \notin DOMAIN seat.held ->
         [seat EXCEPT !.held = Put(@, e.code, e.surface)]
    [] e.op = "release" -> [seat EXCEPT !.held = Without(@, {e.code})]
    [] e.op = "down" -> [seat EXCEPT !.contacts = Put(@, e.code, e.surface)]
    [] e.op = "up" -> [seat EXCEPT !.contacts = Without(@, {e.code})]
    [] e.op = "cancel" -> [seat EXCEPT !.contacts = Without(@, {c \in DOMAIN @ : @[c] = e.surface})]
    [] OTHER -> seat

\* InputAdmission::retire_surface
Retire(seat, s) ==
  [held |-> Without(seat.held, {c \in DOMAIN seat.held : seat.held[c] = s}),
   contacts |-> Without(seat.contacts, {c \in DOMAIN seat.contacts : seat.contacts[c] = s}),
   focus |-> IF seat.focus = s THEN None ELSE seat.focus]
=============================================================================
