--------------------------- MODULE PointerRouting ---------------------------
(***************************************************************************)
(* Pointer and touch routing of the client runtime (weld-client adapter.rs *)
(* ClientRuntime, adapter/local_input.rs, touch.rs): the surface that holds*)
(* the pointer while a button is down, a gesture, a finger scroll or a     *)
(* contact keeps its events, whatever route the shell publishes meanwhile. *)
(*                                                                         *)
(* Positions, transforms, layers and times are left out; a gesture and a   *)
(* finger scroll are `swipes' that begin, move and end on one route. Route *)
(* aliases are left out as in KeyboardRouting.                             *)
(***************************************************************************)
EXTENDS FiniteSets, Naturals

CONSTANTS
  Targets,       \* the surfaces that a pointer or a contact may be on
  Buttons, Contacts,
  Swipes,        \* "gesture", "scroll"
  MaxContacts,   \* MAX_TOUCH_CONTACTS
  NoTarget, Idle, NoPending

\* The values that stand for an absent route are none of the surfaces, and
\* buttons, contacts and swipes are told apart.
Separate ==
  /\ NoTarget \notin Targets /\ Idle \notin Targets \union {NoTarget}
  /\ NoPending \notin Targets \union {NoTarget}
  /\ Buttons \intersect Contacts = {} /\ Buttons \intersect Swipes = {}
  /\ Contacts \intersect Swipes = {}

ASSUME PointerAssumption == Separate

VARIABLES
  pointerRoute,   \* pointer_route
  pendingRoute,   \* pending_pointer_route: published while a button is down
  capture,        \* pointer_capture: Idle, or the route of the first press
  pressed,        \* pressed_buttons
  retiredButtons, \* retired_local_buttons
  swipe,          \* per kind: Idle, or the route of its begin
  moving,         \* the swipes with a moving axis: only those are cancelled
  contacts,       \* TouchRouting.contacts: the route of each contact
  frames,         \* TouchRouting.pending: the routes owed a frame
  pointable,      \* the surfaces not yet destroyed
  buttons,        \* the buttons that are physically down
  wanted,         \* the route the shell last asked for
  begun,          \* <<button, swipe or contact, surface>>: begun at a client, not ended
  owed,           \* the clients that have touch events without a frame
  late            \* the buttons still down whose press a handoff has ended

pointerVars == <<pointerRoute, pendingRoute, capture, pressed, retiredButtons>>
swipeVars == <<swipe, moving>>
touchVars == <<contacts, frames>>
pointerState == <<pointerVars, swipeVars, touchVars, pointable, buttons, wanted, begun, owed, late>>

PointerInit ==
  /\ pointerRoute = NoTarget /\ pendingRoute = NoPending
  /\ capture = Idle /\ pressed = {} /\ retiredButtons = {}
  /\ swipe = [w \in Swipes |-> Idle] /\ moving = {}
  /\ contacts = [c \in Contacts |-> NoTarget] /\ frames = {}
  /\ pointable = Targets /\ buttons = {} /\ wanted = NoTarget /\ begun = {} /\ owed = {} /\ late = {}

BegunAt(x, s) == {x} \X ({s} \intersect Targets)

\* captured_or_current_pointer_route
Current == IF capture = Idle THEN pointerRoute ELSE capture

\* set_pointer_route, and a PointerLeft with none
Published(r) ==
  \/ capture = Idle /\ pointerRoute' = r /\ UNCHANGED pendingRoute
  \/ capture # Idle /\ pendingRoute' = r /\ UNCHANGED pointerRoute

Publish(r) ==
  /\ Published(r) /\ wanted' = r
  /\ UNCHANGED <<capture, pressed, retiredButtons, swipeVars, touchVars,
                 pointable, buttons, begun, owed, late>>

-----------------------------------------------------------------------------
(* Buttons. A shortcut or the shell may consume an edge.                   *)

ButtonPressed(b) ==
  /\ b \notin buttons /\ buttons' = buttons \union {b} /\ late' = late \ {b}
  /\ retiredButtons' = retiredButtons \ {b}
  /\ capture' = IF pressed = {} THEN pointerRoute ELSE capture
  /\ pressed' = pressed \union {b}
  /\ begun' = begun \union BegunAt(b, capture')
  /\ UNCHANGED <<pointerRoute, pendingRoute, swipeVars, touchVars, pointable, wanted, owed>>

\* Mutant: the pending route waits for the next capture.
SettledStale == UNCHANGED <<pointerRoute, pendingRoute>>

\* The last release ends the capture and lets the pending route in.
Settled ==
  /\ pointerRoute' = IF pendingRoute = NoPending THEN pointerRoute ELSE pendingRoute
  /\ pendingRoute' = NoPending

ButtonReleased(b) ==
  /\ b \in buttons \ retiredButtons /\ buttons' = buttons \ {b} /\ late' = late \ {b}
  /\ begun' = begun \ BegunAt(b, Current)
  /\ pressed' = pressed \ {b}
  /\ IF pressed' = {} /\ capture # Idle
       THEN capture' = Idle /\ Settled
       ELSE UNCHANGED <<capture, pointerRoute, pendingRoute>>
  /\ UNCHANGED <<retiredButtons, swipeVars, touchVars, pointable, wanted, owed>>

ButtonSwallowed(b) ==
  /\ b \in buttons \intersect retiredButtons /\ buttons' = buttons \ {b} /\ late' = late \ {b}
  /\ retiredButtons' = retiredButtons \ {b}
  /\ UNCHANGED <<pointerRoute, pendingRoute, capture, pressed, swipeVars, touchVars,
                 pointable, wanted, begun, owed>>

ShellConsumes(b) ==
  /\ buttons' = IF b \in buttons THEN buttons \ {b} ELSE buttons \union {b}
  /\ late' = late \ {b}
  /\ UNCHANGED <<pointerVars, swipeVars, touchVars, pointable, wanted, begun, owed>>

-----------------------------------------------------------------------------
(* dispatch_gesture and dispatch_axis. A begin cancels what it replaces; a *)
(* finger scroll without a moving axis has nothing to cancel.              *)

Replaced(w) == IF w \in moving THEN BegunAt(w, swipe[w]) ELSE {}

SwipeBegins(w) ==
  \E moves \in BOOLEAN :
    /\ w = "gesture" => moves
    /\ swipe' = [swipe EXCEPT ![w] = Current]
    /\ moving' = IF moves THEN moving \union {w} ELSE moving \ {w}
    /\ begun' = (begun \ Replaced(w)) \union (IF moves THEN BegunAt(w, Current) ELSE {})
    /\ UNCHANGED <<pointerVars, touchVars, pointable, buttons, wanted, owed, late>>

ScrollMoves ==
  /\ "scroll" \in Swipes /\ swipe["scroll"] # Idle
  /\ \E moves \in BOOLEAN :
       /\ moving' = IF moves THEN moving \union {"scroll"} ELSE moving \ {"scroll"}
       /\ begun' = IF moves THEN begun \union BegunAt("scroll", swipe["scroll"])
                           ELSE begun \ BegunAt("scroll", swipe["scroll"])
  /\ UNCHANGED <<pointerVars, swipe, touchVars, pointable, buttons, wanted, owed, late>>

SwipeEnds(w) ==
  /\ swipe[w] # Idle
  /\ begun' = begun \ BegunAt(w, swipe[w])
  /\ swipe' = [swipe EXCEPT ![w] = Idle] /\ moving' = moving \ {w}
  /\ UNCHANGED <<pointerVars, touchVars, pointable, buttons, wanted, owed, late>>

-----------------------------------------------------------------------------
(* dispatch_touch: only down reads the pointer route.                      *)

CanTouch(c) ==
  /\ contacts[c] = NoTarget /\ pointerRoute # NoTarget
  /\ Cardinality({d \in Contacts : contacts[d] # NoTarget}) < MaxContacts
  /\ pointerRoute \in frames \/ Cardinality(frames) < MaxContacts

TouchDown(c) ==
  /\ CanTouch(c)
  /\ contacts' = [contacts EXCEPT ![c] = pointerRoute] /\ frames' = frames \union {pointerRoute}
  /\ begun' = begun \union BegunAt(c, pointerRoute) /\ owed' = owed \union {pointerRoute}
  /\ UNCHANGED <<pointerVars, swipeVars, pointable, buttons, wanted, late>>

TouchMotion(c) ==
  /\ contacts[c] # NoTarget /\ frames' = frames \union {contacts[c]}
  /\ owed' = owed \union {contacts[c]}
  /\ UNCHANGED <<pointerVars, swipeVars, contacts, pointable, buttons, wanted, begun, late>>

TouchUp(c) ==
  /\ contacts[c] # NoTarget /\ contacts' = [contacts EXCEPT ![c] = NoTarget]
  /\ frames' = frames \union {contacts[c]} /\ owed' = owed \union {contacts[c]}
  /\ begun' = begun \ BegunAt(c, contacts[c])
  /\ UNCHANGED <<pointerVars, swipeVars, pointable, buttons, wanted, late>>

TouchFrame ==
  /\ frames # {} /\ frames' = {} /\ owed' = owed \ frames
  /\ UNCHANGED <<pointerVars, swipeVars, contacts, pointable, buttons, wanted, begun, late>>

Touched == {contacts[c] : c \in Contacts} \ {NoTarget}

TouchCancel ==
  /\ frames \union Touched # {}
  /\ contacts' = [c \in Contacts |-> NoTarget] /\ frames' = {}
  /\ begun' = begun \ (Contacts \X (frames \union Touched))
  /\ owed' = owed \ (frames \union Touched)
  /\ UNCHANGED <<pointerVars, swipeVars, pointable, buttons, wanted, late>>

\* cancel_surface_touch
CancelTouch(s) ==
  /\ contacts' = [c \in Contacts |-> IF contacts[c] = s THEN NoTarget ELSE contacts[c]]
  /\ frames' = frames \ {s}

\* A down or a motion that the transform maps to no valid position
TouchUnmapped(c) ==
  LET s == IF contacts[c] = NoTarget THEN pointerRoute ELSE contacts[c]
  IN /\ contacts[c] # NoTarget \/ CanTouch(c)
     /\ CancelTouch(s)
     /\ begun' = begun \ (Contacts \X {s}) /\ owed' = owed \ {s}
     /\ UNCHANGED <<pointerVars, swipeVars, pointable, buttons, wanted, late>>

-----------------------------------------------------------------------------
CancelSwipes(s) ==
  /\ swipe' = [w \in Swipes |-> IF swipe[w] = s THEN Idle ELSE swipe[w]]
  /\ moving' = {w \in moving : swipe[w] # s}

Forgotten(r, s) == IF r = s THEN NoTarget ELSE r

\* The route once s is gone: what was pending enters if the capture ends.
Rerouted(s) ==
  LET next == Forgotten(pendingRoute, s)
      ends == capture \in {s, Idle} /\ pendingRoute # NoPending
  IN /\ pointerRoute' = IF ends THEN next ELSE Forgotten(pointerRoute, s)
     /\ pendingRoute' = IF ends THEN NoPending ELSE next
     /\ capture' = IF capture = s THEN Idle ELSE capture

\* forget_surface: a destroyed client needs no release.
PointerDestroyed(s) ==
  /\ s \in pointable /\ pointable' = pointable \ {s}
  /\ CancelTouch(s) /\ CancelSwipes(s) /\ Rerouted(s)
  /\ pressed' = IF capture = s THEN {} ELSE pressed
  /\ wanted' = Forgotten(wanted, s)
  /\ begun' = begun \ ((Buttons \union Contacts \union Swipes) \X {s}) /\ owed' = owed \ {s}
  /\ UNCHANGED <<retiredButtons, buttons, late>>

\* Mutant: the buttons are released, and their physical release not awaited.
HandedNothing(s) == {}

HandedOff(s) == IF Current = s THEN pressed ELSE {}

\* retire_local_input: the surface's sequences are ended, and the late release
\* of its buttons is swallowed.
RetirePointer(s) ==
  /\ s \in pointable
  /\ CancelTouch(s) /\ CancelSwipes(s) /\ Rerouted(s)
  /\ retiredButtons' = retiredButtons \union HandedOff(s)
  /\ pressed' = IF Current = s THEN {} ELSE pressed
  /\ wanted' = Forgotten(wanted, s)
  /\ begun' = begun \ ((HandedOff(s) \X {s}) \union (Contacts \X {s})
                       \union {<<w, s>> : w \in {v \in Swipes : swipe[v] = s}})
  /\ owed' = owed \ {s}
  /\ late' = late \union (IF Current = s THEN pressed \intersect buttons ELSE {})
  /\ UNCHANGED <<pointable, buttons>>

\* host_focus_lost, before which the input source cancels the swipes: every
\* adapter releases what it holds.
PointerFocusLost ==
  /\ pointerRoute' = NoTarget /\ pendingRoute' = NoPending
  /\ capture' = Idle /\ pressed' = {} /\ retiredButtons' = {}
  /\ swipe' = [w \in Swipes |-> Idle] /\ moving' = {}
  /\ contacts' = [c \in Contacts |-> NoTarget] /\ frames' = {}
  /\ buttons' = {} /\ wanted' = NoTarget /\ begun' = {} /\ owed' = {} /\ late' = {}
  /\ UNCHANGED pointable

PointerNext ==
  \/ \E r \in pointable \union {NoTarget} : Publish(r)
  \/ \E b \in Buttons : ButtonPressed(b) \/ ButtonReleased(b)
                        \/ ButtonSwallowed(b) \/ ShellConsumes(b)
  \/ \E w \in Swipes : SwipeBegins(w) \/ SwipeEnds(w)
  \/ \E c \in Contacts : TouchDown(c) \/ TouchMotion(c) \/ TouchUp(c) \/ TouchUnmapped(c)
  \/ \E s \in Targets : PointerDestroyed(s) \/ RetirePointer(s)
  \/ ScrollMoves \/ TouchFrame \/ TouchCancel \/ PointerFocusLost

PointerSpec == PointerInit /\ [][PointerNext]_pointerState

-----------------------------------------------------------------------------
\* What a client believes to be pressed, swiping or touching is exactly what
\* the runtime will end there: the buttons at the captured surface, each swipe
\* and contact at its own, and every client with touch events is owed a frame.
\* The release of a new press is not swallowed by an earlier handoff, and the
\* late release of a handed button is.
SequencesSettled ==
  /\ begun = UNION ({BegunAt(b, capture) : b \in pressed} \union {BegunAt(w, swipe[w]) : w \in moving}
                     \union {BegunAt(c, contacts[c]) : c \in Contacts})
  /\ owed = frames
  /\ pressed \intersect retiredButtons = {} /\ late \subseteq retiredButtons

\* The pointer is captured exactly while a button is down, and the shell's last
\* wish is kept meanwhile: it is the route as soon as the capture ends, by a
\* release, a destruction, a handoff or a loss of focus.
PointerFollowsShell ==
  /\ capture = Idle <=> pressed = {}
  /\ capture = Idle => pendingRoute = NoPending
  /\ wanted = IF pendingRoute = NoPending THEN pointerRoute ELSE pendingRoute
=============================================================================
