-------------------------- MODULE KeyboardRouting ---------------------------
(***************************************************************************)
(* Keyboard focus and key capture of the client runtime (weld-client       *)
(* adapter.rs ClientRuntime, adapter/local_input.rs): where a key edge that*)
(* no shortcut consumed goes, while focus moves between the surfaces of    *)
(* several adapters, a surface is destroyed, handed to a remote            *)
(* controller, or the host loses focus.                                    *)
(*                                                                         *)
(* Every adapter is registered. Route aliases are left out: no adapter of  *)
(* the repository publishes one, so that every surface resolves to itself. *)
(***************************************************************************)
EXTENDS FiniteSets

CONSTANTS
  Surfaces, Keys,
  Sources,   \* the adapters
  Source,    \* ClientSurfaceId::source
  None

ASSUME KeyboardAssumption == None \notin Surfaces /\ Source \in [Surfaces -> Sources]

VARIABLES
  route,      \* keyboard_route
  captures,   \* keyboard_captures: where each key was pressed
  repeats,    \* the captures with repeat_allowed
  retired,    \* retired_local_keys
  alive,      \* the surfaces not yet destroyed
  down,       \* the keys that are physically down
  told,       \* <<key, surface>>: presses delivered and not released
  focus,      \* per adapter, the surface it was told to focus
  moved,      \* the keys pressed before the focus last changed
  handed      \* the keys still down whose press a handoff has ended

routing == <<route, captures, repeats, retired>>
world == <<alive, down, told, focus, moved, handed>>
vars == <<routing, world>>

Init ==
  /\ route = None /\ captures = [k \in Keys |-> None] /\ repeats = {} /\ retired = {}
  /\ alive = Surfaces /\ down = {} /\ told = {} /\ focus = [a \in Sources |-> None]
  /\ moved = {} /\ handed = {}

At(k, s) == {k} \X ({s} \ {None})
CapturedBy(s) == {k \in Keys : captures[k] = s}

\* Mutant: a change of focus leaves the repeats of what is held.
RepeatsKept(s) == repeats

\* set_keyboard_route: a change ends the repeats of what is held.
RepeatsAfter(s) == IF s = route THEN repeats ELSE {}

SetRoute(s) ==
  /\ repeats' = RepeatsAfter(s) /\ route' = s
  /\ moved' = IF s = route THEN moved ELSE Keys

\* apply_request with Focus: the adapter that had the focus loses it. A Focus for
\* no surface, from an adapter that does not have the focus, would take it from
\* the one that has and leave the route. Nobody sends it: the shell's is a
\* ClearFocus (shell.rs:1317), and a relay's goes to apply_remote_focus.
Refocused(s) ==
  [a \in Sources |-> CASE a = Source[s] -> s
                       [] a # Source[s] /\ route # None /\ a = Source[route] -> None
                       [] OTHER -> focus[a]]

Focus(s) ==
  /\ s \in alive /\ focus' = Refocused(s) /\ SetRoute(s)
  /\ UNCHANGED <<captures, retired, alive, down, told, handed>>

Unfocused == IF route = None THEN focus ELSE [focus EXCEPT ![Source[route]] = None]

ClearFocus ==
  /\ focus' = Unfocused /\ SetRoute(None)
  /\ UNCHANGED <<captures, retired, alive, down, told, handed>>

-----------------------------------------------------------------------------
(* dispatch_unconsumed_input, and the edges that a shortcut consumes.      *)

\* Mutant: only a release ends the suppression.
StillRetired(k) == retired

\* consume_retired_local_edge: a fresh press ends the suppression.
RetiredAfterPress(k) == retired \ {k}

\* A press first settles the capture it replaces.
Pressed(k) ==
  /\ k \notin down /\ down' = down \union {k}
  /\ retired' = RetiredAfterPress(k)
  /\ captures' = [captures EXCEPT ![k] = route]
  /\ repeats' = IF route = None THEN repeats \ {k} ELSE repeats \union {k}
  /\ told' = (told \ At(k, captures[k])) \union At(k, route)
  /\ moved' = moved \ {k} /\ handed' = handed \ {k}
  /\ UNCHANGED <<route, alive, focus>>

\* Where a release goes: to the press, whatever has the focus now.
ReleaseTarget(k) == IF captures[k] # None THEN captures[k] ELSE route

Released(k) ==
  /\ k \in down \ retired /\ down' = down \ {k} /\ handed' = handed \ {k}
  /\ told' = told \ At(k, ReleaseTarget(k))
  /\ captures' = [captures EXCEPT ![k] = None] /\ repeats' = repeats \ {k}
  /\ UNCHANGED <<route, retired, alive, focus, moved>>

ReleaseSwallowed(k) ==
  /\ k \in down \intersect retired /\ down' = down \ {k} /\ handed' = handed \ {k}
  /\ retired' = retired \ {k}
  /\ UNCHANGED <<route, captures, repeats, alive, told, focus, moved>>

ShortcutConsumes(k) ==
  /\ down' = IF k \in down THEN down \ {k} ELSE down \union {k}
  /\ handed' = handed \ {k}
  /\ UNCHANGED <<routing, alive, told, focus, moved>>

\* Where a repeat of k goes.
RepeatTarget(k) ==
  IF k \in repeats \ retired /\ captures[k] = route THEN captures[k] ELSE None

-----------------------------------------------------------------------------
\* forget_surface
Destroyed(s) ==
  /\ s \in alive /\ alive' = alive \ {s}
  /\ captures' = [k \in Keys |-> IF captures[k] = s THEN None ELSE captures[k]]
  /\ repeats' = repeats \ CapturedBy(s)
  /\ route' = IF route = s THEN None ELSE route
  /\ told' = told \ (Keys \X {s})
  /\ focus' = [a \in Sources |-> IF focus[a] = s THEN None ELSE focus[a]]
  /\ moved' = IF route = s THEN Keys ELSE moved
  /\ UNCHANGED <<retired, down, handed>>

\* retire_local_input: the surface's keys are released and their late edges
\* swallowed, and its focus is cleared.
RetireLocalInput(s) ==
  LET keys == CapturedBy(s)
      next == IF route = s THEN None ELSE route
  IN /\ s \in alive
     /\ captures' = [k \in Keys |-> IF k \in keys THEN None ELSE captures[k]]
     /\ retired' = retired \union keys
     /\ told' = told \ (keys \X {s})
     /\ focus' = IF route = s THEN Unfocused ELSE focus
     /\ route' = next /\ repeats' = RepeatsAfter(next) \ keys
     /\ moved' = IF route = s THEN Keys ELSE moved
     /\ handed' = handed \union (keys \intersect down)
     /\ UNCHANGED <<alive, down>>

\* host_focus_lost: every adapter releases what it holds.
HostFocusLost ==
  /\ route' = None /\ captures' = [k \in Keys |-> None] /\ repeats' = {} /\ retired' = {}
  /\ down' = {} /\ told' = {} /\ focus' = [a \in Sources |-> None] /\ moved' = {} /\ handed' = {}
  /\ UNCHANGED alive

Next ==
  \/ ClearFocus \/ HostFocusLost
  \/ \E s \in Surfaces : Focus(s) \/ Destroyed(s) \/ RetireLocalInput(s)
  \/ \E k \in Keys : Pressed(k) \/ Released(k) \/ ReleaseSwallowed(k) \/ ShortcutConsumes(k)

Spec == Init /\ [][Next]_vars

-----------------------------------------------------------------------------
KeyTypes ==
  /\ route \in alive \union {None} /\ captures \in [Keys -> alive \union {None}]
  /\ repeats \subseteq Keys /\ retired \subseteq Keys
  /\ alive \subseteq Surfaces /\ down \subseteq Keys /\ told \subseteq Keys \X Surfaces
  /\ focus \in [Sources -> Surfaces \union {None}]
  /\ moved \subseteq Keys /\ handed \subseteq Keys

\* What a client believes to be held is exactly what the runtime has captured
\* there, so that the release will find it: never a key stuck in a surface that
\* lost the focus. The release of a new press is not swallowed by an earlier
\* handoff, and the late edge of a handed key is.
KeysSettled ==
  /\ told = UNION {At(k, captures[k]) : k \in Keys}
  /\ \A k \in Keys : captures[k] # None => k \notin retired
  /\ handed \subseteq retired

RepeatsFollowFocus ==
  \A k \in Keys : RepeatTarget(k) # None => k \notin moved /\ <<k, RepeatTarget(k)>> \in told

OneFocus ==
  \A a \in Sources : focus[a] = IF route # None /\ Source[route] = a THEN route ELSE None

\* A repeat only goes to the surface that holds the key and has had the focus
\* ever since the press, not when the focus went away and came back; and the
\* adapters agree on the focus: only that of the routed surface has one.
KeyboardFollowsFocus == RepeatsFollowFocus /\ OneFocus
=============================================================================
