------------------------ MODULE ClientRoutingProofs -------------------------
(***************************************************************************)
(* Proofs about the input routing of the client runtime: keyboard focus    *)
(* and key capture for any surfaces, adapters and keys, and pointer and    *)
(* touch routing for any surfaces, buttons, contacts and limit of          *)
(* contacts.                                                               *)
(***************************************************************************)
EXTENDS KeyboardRouting, PointerRouting, TLAPS

-----------------------------------------------------------------------------
(* The keyboard.                                                           *)

\* What is held at a client is what is captured there, key by key.
ToldByCapture ==
  \A k \in Keys, s \in Surfaces : <<k, s>> \in told <=> captures[k] = s

\* A handoff swallows the late edges of the keys it ended, and of no others.
HandoffSwallows ==
  /\ \A k \in Keys : captures[k] # None => k \notin retired
  /\ handed \subseteq retired

\* Only a key pressed at the current route repeats: every change of the route
\* has ended the repeats of what was held before.
RepeatsAtRoute ==
  \A k \in repeats : captures[k] = route /\ route # None /\ k \notin moved

\* The inductive invariant.
KeyInv == KeyTypes /\ ToldByCapture /\ HandoffSwallows /\ RepeatsAtRoute /\ OneFocus

LEMMA KeysStart == Init => KeyInv
<1> SUFFICES ASSUME Init PROVE KeyInv
  OBVIOUS
<1> USE KeyboardAssumption DEF Init
<1>1. KeyTypes BY DEF KeyTypes
<1>2. ToldByCapture BY DEF ToldByCapture
<1>3. HandoffSwallows /\ RepeatsAtRoute /\ OneFocus
  BY DEF HandoffSwallows, RepeatsAtRoute, OneFocus
<1> QED BY <1>1, <1>2, <1>3 DEF KeyInv

\* A change of focus keeps the invariant: it ends the repeats of what is held.
LEMMA FocusMoves ==
  ASSUME KeyInv, ClearFocus \/ \E s \in Surfaces : Focus(s)
  PROVE  KeyInv'
<1> USE KeyboardAssumption DEF KeyInv
<1>1. CASE ClearFocus
  <2> USE <1>1 DEF ClearFocus, SetRoute, RepeatsAfter, Unfocused
  <2>1. KeyTypes' BY DEF KeyTypes
  <2>2. ToldByCapture' /\ HandoffSwallows' BY DEF ToldByCapture, HandoffSwallows
  <2>3. RepeatsAtRoute' BY DEF RepeatsAtRoute
  <2>4. OneFocus' BY DEF OneFocus, KeyTypes
  <2> QED BY <2>1, <2>2, <2>3, <2>4
<1>2. ASSUME NEW s \in Surfaces, Focus(s) PROVE KeyInv'
  <2> USE <1>2 DEF Focus, SetRoute, RepeatsAfter, Refocused
  <2>1. KeyTypes' BY DEF KeyTypes
  <2>2. ToldByCapture' /\ HandoffSwallows' BY DEF ToldByCapture, HandoffSwallows
  <2>3. RepeatsAtRoute' BY DEF RepeatsAtRoute, KeyTypes
  <2>4. OneFocus' BY DEF OneFocus, KeyTypes
  <2> QED BY <2>1, <2>2, <2>3, <2>4
<1> QED BY <1>1, <1>2

\* A key edge keeps it: a press replaces the capture of its key, a release
\* finds the surface of the press.
LEMMA KeyEdges ==
  ASSUME KeyInv, NEW k \in Keys,
         Pressed(k) \/ Released(k) \/ ReleaseSwallowed(k) \/ ShortcutConsumes(k)
  PROVE  KeyInv'
<1> USE KeyboardAssumption DEF KeyInv
<1>1. CASE Pressed(k)
  <2> USE <1>1 DEF Pressed, RetiredAfterPress, At
  <2>1. KeyTypes' BY DEF KeyTypes
  <2>2. ToldByCapture'
    <3> SUFFICES ASSUME NEW j \in Keys, NEW s \in Surfaces
                 PROVE  <<j, s>> \in told' <=> captures'[j] = s
      BY DEF ToldByCapture
    <3>1. CASE j # k
      <4>1. <<j, s>> \in told' <=> <<j, s>> \in told
        BY <3>1
      <4> QED BY <3>1, <4>1 DEF ToldByCapture, KeyTypes
    <3>2. CASE j = k
      <4>1. captures'[k] = route
        BY DEF KeyTypes
      <4>2. <<k, s>> \notin told \ At(k, captures[k])
        BY DEF ToldByCapture
      <4>3. <<k, s>> \in At(k, route) <=> route = s
        OBVIOUS
      <4> QED BY <3>2, <4>1, <4>2, <4>3
    <3> QED BY <3>1, <3>2
  <2>3. HandoffSwallows' BY DEF HandoffSwallows, KeyTypes
  <2>4. RepeatsAtRoute' BY DEF RepeatsAtRoute, KeyTypes
  <2>5. OneFocus' BY DEF OneFocus
  <2> QED BY <2>1, <2>2, <2>3, <2>4, <2>5
<1>2. CASE Released(k)
  <2> USE <1>2 DEF Released, ReleaseTarget, At
  <2>1. KeyTypes' BY DEF KeyTypes
  <2>2. ToldByCapture'
    <3> SUFFICES ASSUME NEW j \in Keys, NEW s \in Surfaces
                 PROVE  <<j, s>> \in told' <=> captures'[j] = s
      BY DEF ToldByCapture
    <3>1. CASE j # k
      <4>1. <<j, s>> \in told' <=> <<j, s>> \in told
        BY <3>1
      <4> QED BY <3>1, <4>1 DEF ToldByCapture, KeyTypes
    <3>2. CASE j = k
      <4>1. captures'[k] = None
        BY DEF KeyTypes
      <4>2. <<k, s>> \notin told'
        BY DEF ToldByCapture
      <4> QED BY <3>2, <4>1, <4>2
    <3> QED BY <3>1, <3>2
  <2>3. HandoffSwallows' BY DEF HandoffSwallows, KeyTypes
  <2>4. RepeatsAtRoute' BY DEF RepeatsAtRoute, KeyTypes
  <2>5. OneFocus' BY DEF OneFocus
  <2> QED BY <2>1, <2>2, <2>3, <2>4, <2>5
<1>3. CASE ReleaseSwallowed(k) \/ ShortcutConsumes(k)
  <2> USE <1>3 DEF ReleaseSwallowed, ShortcutConsumes, routing
  <2>1. KeyTypes' BY DEF KeyTypes
  <2>2. ToldByCapture' /\ RepeatsAtRoute' /\ OneFocus'
    BY DEF ToldByCapture, RepeatsAtRoute, OneFocus
  <2>3. HandoffSwallows' BY DEF HandoffSwallows, KeyTypes
  <2> QED BY <2>1, <2>2, <2>3
<1> QED BY <1>1, <1>2, <1>3

\* The end of a surface's local input keeps it: the surface takes its captures,
\* their repeats and the focus with it.
LEMMA InputEnds ==
  ASSUME KeyInv, HostFocusLost \/ \E s \in Surfaces : Destroyed(s) \/ RetireLocalInput(s)
  PROVE  KeyInv'
<1> USE KeyboardAssumption DEF KeyInv
<1>1. CASE HostFocusLost
  <2> USE <1>1 DEF HostFocusLost
  <2>1. KeyTypes' BY DEF KeyTypes
  <2>2. ToldByCapture' BY DEF ToldByCapture
  <2>3. HandoffSwallows' /\ RepeatsAtRoute' /\ OneFocus'
    BY DEF HandoffSwallows, RepeatsAtRoute, OneFocus
  <2> QED BY <2>1, <2>2, <2>3
<1>2. ASSUME NEW s \in Surfaces, Destroyed(s) PROVE KeyInv'
  <2> USE <1>2 DEF Destroyed, CapturedBy
  <2>1. KeyTypes' BY DEF KeyTypes
  <2>2. ToldByCapture' BY DEF ToldByCapture, KeyTypes
  <2>3. HandoffSwallows' BY DEF HandoffSwallows, KeyTypes
  <2>4. RepeatsAtRoute' BY DEF RepeatsAtRoute, KeyTypes
  <2>5. OneFocus' BY DEF OneFocus, KeyTypes
  <2> QED BY <2>1, <2>2, <2>3, <2>4, <2>5
<1>3. ASSUME NEW s \in Surfaces, RetireLocalInput(s) PROVE KeyInv'
  <2> USE <1>3 DEF RetireLocalInput, CapturedBy, RepeatsAfter, Unfocused
  <2>1. KeyTypes' BY DEF KeyTypes
  <2>2. ToldByCapture' BY DEF ToldByCapture, KeyTypes
  <2>3. HandoffSwallows' BY DEF HandoffSwallows, KeyTypes
  <2>4. RepeatsAtRoute' BY DEF RepeatsAtRoute, KeyTypes
  <2>5. OneFocus' BY DEF OneFocus, KeyTypes
  <2> QED BY <2>1, <2>2, <2>3, <2>4, <2>5
<1> QED BY <1>1, <1>2, <1>3

LEMMA KeyStep == KeyInv /\ [Next]_vars => KeyInv'
<1> SUFFICES ASSUME KeyInv, [Next]_vars PROVE KeyInv'
  OBVIOUS
<1>1. CASE UNCHANGED vars
  BY <1>1 DEF vars, routing, world, KeyInv, KeyTypes, ToldByCapture, HandoffSwallows,
              RepeatsAtRoute, OneFocus
<1>2. CASE Next
  BY <1>2, FocusMoves, KeyEdges, InputEnds DEF Next
<1> QED BY <1>1, <1>2

\* The invariant gives the two properties of a state.
LEMMA KeyInvImplies == KeyInv => KeysSettled /\ KeyboardFollowsFocus
<1> SUFFICES ASSUME KeyInv PROVE KeysSettled /\ KeyboardFollowsFocus
  OBVIOUS
<1> USE KeyboardAssumption DEF KeyInv
<1>1. told = UNION {At(k, captures[k]) : k \in Keys}
  <2>1. ASSUME NEW e \in told PROVE e \in UNION {At(k, captures[k]) : k \in Keys}
    <3>1. PICK k \in Keys, s \in Surfaces : e = <<k, s>>
      BY DEF KeyTypes
    <3>2. e \in At(k, captures[k])
      BY <2>1, <3>1 DEF ToldByCapture, At
    <3> QED BY <3>2
  <2>2. ASSUME NEW k \in Keys, NEW e \in At(k, captures[k]) PROVE e \in told
    BY DEF At, KeyTypes, ToldByCapture
  <2> QED BY <2>1, <2>2
<1>2. KeysSettled
  BY <1>1 DEF KeysSettled, HandoffSwallows
<1>3. RepeatsFollowFocus
  BY DEF RepeatsFollowFocus, RepeatTarget, RepeatsAtRoute, ToldByCapture, KeyTypes
<1> QED BY <1>2, <1>3 DEF KeyboardFollowsFocus

\* The routes and captures of adapter.rs only ever name surfaces that exist.
THEOREM KeyTypesHold == Spec => []KeyTypes
<1>1. KeyInv => KeyTypes BY DEF KeyInv
<1> QED BY <1>1, KeysStart, KeyStep, PTL DEF Spec

\* What a client believes to be held is what the runtime has captured there, and
\* a handoff swallows exactly the late edges (retire_local_input, dispatch_key).
THEOREM KeysAlwaysSettled == Spec => []KeysSettled
<1> QED BY KeysStart, KeyStep, KeyInvImplies, PTL DEF Spec

\* Repeats go to the surface that has had the focus since the press, and only
\* the adapter of the routed surface has a focus (set_keyboard_route).
THEOREM KeyboardAlwaysFollowsFocus == Spec => []KeyboardFollowsFocus
<1> QED BY KeysStart, KeyStep, KeyInvImplies, PTL DEF Spec

-----------------------------------------------------------------------------
(* The pointer, its gestures and the touch contacts.                       *)

Sequences == Buttons \union Contacts \union Swipes

\* Every route names a surface that exists.
RouteTypes ==
  /\ pointable \subseteq Targets
  /\ pointerRoute \in pointable \union {NoTarget}
  /\ pendingRoute \in pointable \union {NoTarget, NoPending}
  /\ capture \in pointable \union {NoTarget, Idle}
  /\ pressed \subseteq Buttons /\ retiredButtons \subseteq Buttons
  /\ buttons \subseteq Buttons /\ late \subseteq Buttons

SequenceTypes ==
  /\ swipe \in [Swipes -> pointable \union {NoTarget, Idle}] /\ moving \subseteq Swipes
  /\ contacts \in [Contacts -> pointable \union {NoTarget}] /\ frames \subseteq Targets
  /\ begun \subseteq Sequences \X Targets

\* What has begun at a client, button by button, swipe by swipe and contact by
\* contact.
ToldButtons ==
  \A b \in Buttons, s \in Targets : <<b, s>> \in begun <=> b \in pressed /\ capture = s
ToldSwipes ==
  \A w \in Swipes, s \in Targets : <<w, s>> \in begun <=> w \in moving /\ swipe[w] = s
ToldContacts ==
  \A c \in Contacts, s \in Targets : <<c, s>> \in begun <=> contacts[c] = s

FramesOwed == owed = frames
ReleasesSwallowed == pressed \intersect retiredButtons = {} /\ late \subseteq retiredButtons

\* The inductive invariant.
PointerInv ==
  /\ RouteTypes /\ SequenceTypes /\ ToldButtons /\ ToldSwipes /\ ToldContacts
  /\ FramesOwed /\ ReleasesSwallowed /\ PointerFollowsShell

LEMMA PointerStarts ==
  ASSUME Separate, PointerInit PROVE PointerInv
<1> USE DEF PointerInit, Separate
<1>1. RouteTypes /\ SequenceTypes BY DEF RouteTypes, SequenceTypes
<1>2. ToldButtons /\ ToldSwipes BY DEF ToldButtons, ToldSwipes
<1>3. ToldContacts BY DEF ToldContacts
<1>4. FramesOwed /\ ReleasesSwallowed /\ PointerFollowsShell
  BY DEF FramesOwed, ReleasesSwallowed, PointerFollowsShell
<1> QED BY <1>1, <1>2, <1>3, <1>4 DEF PointerInv

\* A route that the shell publishes keeps the invariant, captured or not.
LEMMA PublishKeeps ==
  ASSUME Separate, PointerInv, NEW r \in pointable \union {NoTarget}, Publish(r)
  PROVE  PointerInv'
<1> USE DEF PointerInv, Separate, Publish, Published, swipeVars, touchVars
<1>1. RouteTypes' /\ SequenceTypes' BY DEF RouteTypes, SequenceTypes
<1>2. ToldButtons' /\ ToldSwipes' /\ ToldContacts'
  BY DEF ToldButtons, ToldSwipes, ToldContacts
<1>3. FramesOwed' /\ ReleasesSwallowed' BY DEF FramesOwed, ReleasesSwallowed
<1>4. PointerFollowsShell' BY DEF PointerFollowsShell, RouteTypes
<1> QED BY <1>1, <1>2, <1>3, <1>4

\* A button edge keeps it: the first press captures the route, the last release
\* lets the pending one in.
LEMMA ButtonsKeep ==
  ASSUME Separate, PointerInv, NEW b \in Buttons,
         ButtonPressed(b) \/ ButtonReleased(b) \/ ButtonSwallowed(b) \/ ShellConsumes(b)
  PROVE  PointerInv'
<1> USE DEF PointerInv, Separate, swipeVars, touchVars
<1>1. CASE ButtonPressed(b)
  <2> USE <1>1 DEF ButtonPressed
  <2>1. RouteTypes' BY DEF RouteTypes, PointerFollowsShell
  <2>2. SequenceTypes' BY DEF SequenceTypes, BegunAt, Sequences
  <2>3. ToldButtons'
    <3> SUFFICES ASSUME NEW a \in Buttons, NEW s \in Targets
                 PROVE  <<a, s>> \in begun' <=> a \in pressed' /\ capture' = s
      BY DEF ToldButtons
    <3>1. CASE pressed = {}
      <4>1. <<a, s>> \notin begun BY <3>1 DEF ToldButtons
      <4> QED BY <3>1, <4>1 DEF BegunAt
    <3>2. CASE pressed # {}
      <4>1. capture' = capture BY <3>2
      <4>2. <<a, s>> \in begun <=> a \in pressed /\ capture = s BY DEF ToldButtons
      <4>3. <<a, s>> \in BegunAt(b, capture) <=> a = b /\ capture = s BY DEF BegunAt
      <4>4. begun' = begun \union BegunAt(b, capture) BY <4>1
      <4> QED BY <4>1, <4>2, <4>3, <4>4
    <3> QED BY <3>1, <3>2
  <2>4. ToldSwipes' /\ ToldContacts' BY DEF ToldSwipes, ToldContacts, BegunAt
  <2>5. FramesOwed' /\ ReleasesSwallowed' BY DEF FramesOwed, ReleasesSwallowed
  <2>6. PointerFollowsShell' BY DEF PointerFollowsShell, RouteTypes
  <2> QED BY <2>1, <2>2, <2>3, <2>4, <2>5, <2>6
<1>2. CASE ButtonReleased(b)
  <2> USE <1>2 DEF ButtonReleased, Settled
  <2>1. RouteTypes' BY DEF RouteTypes
  <2>2. SequenceTypes' BY DEF SequenceTypes
  <2>3. ToldButtons'
    <3> SUFFICES ASSUME NEW a \in Buttons, NEW s \in Targets
                 PROVE  <<a, s>> \in begun' <=> a \in pressed' /\ capture' = s
      BY DEF ToldButtons
    <3>1. <<a, s>> \in begun <=> a \in pressed /\ capture = s BY DEF ToldButtons
    <3>2. capture = s => capture # Idle OBVIOUS
    <3>3. <<a, s>> \in begun' <=> a \in pressed \ {b} /\ capture = s
      BY <3>1, <3>2 DEF BegunAt, Current
    <3>4. pressed' # {} => capture' = capture OBVIOUS
    <3> QED BY <3>3, <3>4
  <2>4. ToldSwipes' /\ ToldContacts' BY DEF ToldSwipes, ToldContacts, BegunAt
  <2>5. FramesOwed' /\ ReleasesSwallowed' BY DEF FramesOwed, ReleasesSwallowed
  <2>6. PointerFollowsShell' BY DEF PointerFollowsShell, RouteTypes
  <2> QED BY <2>1, <2>2, <2>3, <2>4, <2>5, <2>6
<1>3. CASE ButtonSwallowed(b) \/ ShellConsumes(b)
  <2> USE <1>3 DEF ButtonSwallowed, ShellConsumes, pointerVars
  <2>1. RouteTypes' /\ SequenceTypes' BY DEF RouteTypes, SequenceTypes
  <2>2. ToldButtons' /\ ToldSwipes' /\ ToldContacts'
    BY DEF ToldButtons, ToldSwipes, ToldContacts
  <2>3. FramesOwed' /\ ReleasesSwallowed' BY DEF FramesOwed, ReleasesSwallowed
  <2>4. PointerFollowsShell' BY DEF PointerFollowsShell
  <2> QED BY <2>1, <2>2, <2>3, <2>4
<1> QED BY <1>1, <1>2, <1>3

\* A step that leaves the buttons alone and touches no button in told keeps what
\* concerns them.
LEMMA ButtonsUntouched ==
  ASSUME PointerInv, UNCHANGED <<pointerVars, pointable, buttons, wanted, late>>,
         \A b \in Buttons, s \in Targets : <<b, s>> \in begun' <=> <<b, s>> \in begun
  PROVE  RouteTypes' /\ ToldButtons' /\ ReleasesSwallowed' /\ PointerFollowsShell'
<1> USE DEF PointerInv, pointerVars
<1>1. RouteTypes' /\ ReleasesSwallowed' BY DEF RouteTypes, ReleasesSwallowed
<1>2. ToldButtons' BY DEF ToldButtons
<1>3. PointerFollowsShell' BY DEF PointerFollowsShell
<1> QED BY <1>1, <1>2, <1>3

\* A gesture or a scroll keeps the invariant: it ends where it began.
LEMMA SwipesKeep ==
  ASSUME Separate, PointerInv, ScrollMoves \/ \E w \in Swipes : SwipeBegins(w) \/ SwipeEnds(w)
  PROVE  PointerInv'
<1> USE DEF PointerInv, Separate, touchVars
<1>1. ASSUME NEW w \in Swipes, SwipeBegins(w) PROVE PointerInv'
  <2> USE DEF Replaced
  <2>0. PICK moves \in BOOLEAN :
          /\ swipe' = [swipe EXCEPT ![w] = Current]
          /\ moving' = IF moves THEN moving \union {w} ELSE moving \ {w}
          /\ begun' = (begun \ Replaced(w)) \union (IF moves THEN BegunAt(w, Current) ELSE {})
          /\ UNCHANGED <<pointerVars, touchVars, pointable, buttons, wanted, owed, late>>
    BY <1>1 DEF SwipeBegins
  <2>1. \A b \in Buttons, s \in Targets : <<b, s>> \in begun' <=> <<b, s>> \in begun
    BY <2>0 DEF BegunAt
  <2>2. RouteTypes' /\ ToldButtons' /\ ReleasesSwallowed' /\ PointerFollowsShell'
    BY <2>0, <2>1, ButtonsUntouched
  <2>3. SequenceTypes'
    BY <2>0 DEF SequenceTypes, RouteTypes, BegunAt, Sequences, Current
  <2>4. ToldSwipes'
    <3> SUFFICES ASSUME NEW v \in Swipes, NEW s \in Targets
                 PROVE  <<v, s>> \in begun' <=> v \in moving' /\ swipe'[v] = s
      BY DEF ToldSwipes
    <3>1. CASE v # w
      <4>1. <<v, s>> \in begun' <=> <<v, s>> \in begun BY <2>0, <3>1 DEF BegunAt
      <4> QED BY <2>0, <3>1, <4>1 DEF ToldSwipes, SequenceTypes
    <3>2. CASE v = w
      <4>1. <<w, s>> \notin begun \ Replaced(w) BY DEF ToldSwipes, BegunAt
      <4>2. swipe'[w] = Current BY <2>0 DEF SequenceTypes
      <4>3. <<w, s>> \in BegunAt(w, Current) <=> Current = s BY DEF BegunAt
      <4> QED BY <2>0, <3>2, <4>1, <4>2, <4>3
    <3> QED BY <3>1, <3>2
  <2>5. ToldContacts' /\ FramesOwed' BY <2>0 DEF ToldContacts, FramesOwed, BegunAt
  <2> QED BY <2>2, <2>3, <2>4, <2>5
<1>2. ASSUME NEW w \in Swipes, SwipeEnds(w) PROVE PointerInv'
  <2> USE <1>2 DEF SwipeEnds
  <2>1. \A b \in Buttons, s \in Targets : <<b, s>> \in begun' <=> <<b, s>> \in begun
    BY DEF BegunAt
  <2>2. RouteTypes' /\ ToldButtons' /\ ReleasesSwallowed' /\ PointerFollowsShell'
    BY <2>1, ButtonsUntouched
  <2>3. SequenceTypes' BY DEF SequenceTypes
  <2>4. ToldSwipes'
    <3> SUFFICES ASSUME NEW v \in Swipes, NEW s \in Targets
                 PROVE  <<v, s>> \in begun' <=> v \in moving' /\ swipe'[v] = s
      BY DEF ToldSwipes
    <3>1. <<v, s>> \in begun <=> v \in moving /\ swipe[v] = s BY DEF ToldSwipes
    <3>2. CASE v # w BY <3>1, <3>2 DEF SequenceTypes, BegunAt
    <3>3. CASE v = w BY <3>1, <3>3 DEF SequenceTypes, BegunAt
    <3> QED BY <3>2, <3>3
  <2>5. ToldContacts' /\ FramesOwed' BY DEF ToldContacts, FramesOwed, BegunAt
  <2> QED BY <2>2, <2>3, <2>4, <2>5
<1>3. CASE ScrollMoves
  <2>0. PICK moves \in BOOLEAN :
          /\ moving' = IF moves THEN moving \union {"scroll"} ELSE moving \ {"scroll"}
          /\ begun' = IF moves THEN begun \union BegunAt("scroll", swipe["scroll"])
                              ELSE begun \ BegunAt("scroll", swipe["scroll"])
    BY <1>3 DEF ScrollMoves
  <2> USE <1>3 DEF ScrollMoves
  <2>1. \A b \in Buttons, s \in Targets : <<b, s>> \in begun' <=> <<b, s>> \in begun
    BY <2>0 DEF BegunAt
  <2>2. RouteTypes' /\ ToldButtons' /\ ReleasesSwallowed' /\ PointerFollowsShell'
    BY <2>1, ButtonsUntouched
  <2>3. SequenceTypes' BY <2>0 DEF SequenceTypes, BegunAt, Sequences
  <2>4. ToldSwipes'
    <3> SUFFICES ASSUME NEW v \in Swipes, NEW s \in Targets
                 PROVE  <<v, s>> \in begun' <=> v \in moving' /\ swipe'[v] = s
      BY DEF ToldSwipes
    <3>1. <<v, s>> \in begun <=> v \in moving /\ swipe[v] = s BY DEF ToldSwipes
    <3>2. CASE v # "scroll" BY <2>0, <3>1, <3>2 DEF BegunAt
    <3>3. CASE v = "scroll" BY <2>0, <3>1, <3>3 DEF BegunAt
    <3> QED BY <3>2, <3>3
  <2>5. ToldContacts' /\ FramesOwed' BY <2>0 DEF ToldContacts, FramesOwed, BegunAt
  <2> QED BY <2>2, <2>3, <2>4, <2>5
<1> QED BY <1>1, <1>2, <1>3

\* A step that leaves buttons and swipes alone keeps what concerns them.
LEMMA OnlyTouches ==
  ASSUME Separate, PointerInv, UNCHANGED <<pointerVars, swipeVars, pointable, buttons, wanted, late>>,
         \A x \in Buttons \union Swipes, s \in Targets : <<x, s>> \in begun' <=> <<x, s>> \in begun,
         SequenceTypes', ToldContacts', FramesOwed'
  PROVE  PointerInv'
<1>1. RouteTypes' /\ ToldButtons' /\ ReleasesSwallowed' /\ PointerFollowsShell'
  BY ButtonsUntouched
<1>2. ToldSwipes'
  BY DEF PointerInv, ToldSwipes, swipeVars
<1> QED BY <1>1, <1>2 DEF PointerInv

\* A touch event keeps the invariant: a contact stays where it went down, and
\* every client that it reaches is owed a frame.
LEMMA TouchKeeps ==
  ASSUME Separate, PointerInv,
         TouchFrame \/ TouchCancel
           \/ \E c \in Contacts : TouchDown(c) \/ TouchMotion(c) \/ TouchUp(c) \/ TouchUnmapped(c)
  PROVE  PointerInv'
<1> USE DEF PointerInv, Separate
<1> DEFINE Apart ==
      \A x \in Buttons \union Swipes, s \in Targets : <<x, s>> \in begun' <=> <<x, s>> \in begun
<1>1. ASSUME NEW c \in Contacts, TouchDown(c) PROVE PointerInv'
  <2> USE <1>1 DEF TouchDown, CanTouch
  <2>0. pointerRoute \in pointable /\ pointable \subseteq Targets BY DEF RouteTypes
  <2>1. Apart BY DEF BegunAt
  <2>2. SequenceTypes' BY <2>0 DEF SequenceTypes, swipeVars, BegunAt, Sequences
  <2>3. ToldContacts'
    <3> SUFFICES ASSUME NEW d \in Contacts, NEW s \in Targets
                 PROVE  <<d, s>> \in begun' <=> contacts'[d] = s
      BY DEF ToldContacts
    <3>1. <<d, s>> \in begun <=> contacts[d] = s BY DEF ToldContacts
    <3>2. CASE d # c BY <3>1, <3>2 DEF SequenceTypes, BegunAt
    <3>3. CASE d = c BY <3>1, <3>3 DEF SequenceTypes, BegunAt
    <3> QED BY <3>2, <3>3
  <2>4. FramesOwed' BY DEF FramesOwed
  <2> HIDE DEF PointerInv, Separate
  <2> QED BY <2>1, <2>2, <2>3, <2>4, OnlyTouches
<1>2. ASSUME NEW c \in Contacts, TouchMotion(c) PROVE PointerInv'
  <2> USE <1>2 DEF TouchMotion
  <2>1. Apart OBVIOUS
  <2>2. SequenceTypes' BY DEF SequenceTypes, swipeVars, RouteTypes
  <2>3. ToldContacts' /\ FramesOwed' BY DEF ToldContacts, FramesOwed
  <2> HIDE DEF PointerInv, Separate
  <2> QED BY <2>1, <2>2, <2>3, OnlyTouches
<1>3. ASSUME NEW c \in Contacts, TouchUp(c) PROVE PointerInv'
  <2> USE <1>3 DEF TouchUp
  <2>1. Apart BY DEF BegunAt
  <2>2. SequenceTypes' BY DEF SequenceTypes, swipeVars, RouteTypes
  <2>3. ToldContacts'
    <3> SUFFICES ASSUME NEW d \in Contacts, NEW s \in Targets
                 PROVE  <<d, s>> \in begun' <=> contacts'[d] = s
      BY DEF ToldContacts
    <3>1. <<d, s>> \in begun <=> contacts[d] = s BY DEF ToldContacts
    <3>2. CASE d # c BY <3>1, <3>2 DEF SequenceTypes, BegunAt
    <3>3. CASE d = c BY <3>1, <3>3 DEF SequenceTypes, BegunAt
    <3> QED BY <3>2, <3>3
  <2>4. FramesOwed' BY DEF FramesOwed
  <2> HIDE DEF PointerInv, Separate
  <2> QED BY <2>1, <2>2, <2>3, <2>4, OnlyTouches
<1>4. CASE TouchFrame
  <2> USE <1>4 DEF TouchFrame
  <2>1. Apart OBVIOUS
  <2>2. SequenceTypes' BY DEF SequenceTypes, swipeVars
  <2>3. ToldContacts' /\ FramesOwed' BY DEF ToldContacts, FramesOwed
  <2> HIDE DEF PointerInv, Separate
  <2> QED BY <2>1, <2>2, <2>3, OnlyTouches
<1>5. CASE TouchCancel
  <2> USE <1>5 DEF TouchCancel
  <2>1. Apart OBVIOUS
  <2>2. SequenceTypes' BY DEF SequenceTypes, swipeVars
  <2>3. ToldContacts'
    <3> SUFFICES ASSUME NEW d \in Contacts, NEW s \in Targets
                 PROVE  <<d, s>> \in begun' <=> contacts'[d] = s
      BY DEF ToldContacts
    <3>1. contacts'[d] = NoTarget OBVIOUS
    <3>2. <<d, s>> \notin begun' BY DEF ToldContacts, Touched
    <3> QED BY <3>1, <3>2
  <2>4. FramesOwed' BY DEF FramesOwed
  <2> HIDE DEF PointerInv, Separate
  <2> QED BY <2>1, <2>2, <2>3, <2>4, OnlyTouches
<1>6. ASSUME NEW c \in Contacts, TouchUnmapped(c) PROVE PointerInv'
  <2> DEFINE t == IF contacts[c] = NoTarget THEN pointerRoute ELSE contacts[c]
  <2>0. /\ CancelTouch(t) /\ begun' = begun \ (Contacts \X {t}) /\ owed' = owed \ {t}
        /\ UNCHANGED <<pointerVars, swipeVars, pointable, buttons, wanted, late>>
    BY <1>6 DEF TouchUnmapped
  <2> HIDE DEF t
  <2> USE <2>0 DEF CancelTouch
  <2>1. Apart OBVIOUS
  <2>2. SequenceTypes' BY DEF SequenceTypes, swipeVars
  <2>3. ToldContacts' BY DEF ToldContacts, SequenceTypes
  <2>4. FramesOwed' BY DEF FramesOwed
  <2> HIDE DEF PointerInv, Separate
  <2> QED BY <2>1, <2>2, <2>3, <2>4, OnlyTouches
<1> QED BY <1>1, <1>2, <1>3, <1>4, <1>5, <1>6

\* The end of a surface's local input keeps the invariant: what it held ends,
\* and the shell's pending wish enters when the capture was its own.
LEMMA EndsKeep ==
  ASSUME Separate, PointerInv,
         PointerFocusLost \/ \E s \in Targets : PointerDestroyed(s) \/ RetirePointer(s)
  PROVE  PointerInv'
<1> USE DEF PointerInv, Separate
<1>1. CASE PointerFocusLost
  <2> USE <1>1 DEF PointerFocusLost
  <2>1. RouteTypes' /\ SequenceTypes' BY DEF RouteTypes, SequenceTypes
  <2>2. ToldButtons' /\ ToldSwipes' BY DEF ToldButtons, ToldSwipes
  <2>3. ToldContacts' BY DEF ToldContacts
  <2>4. FramesOwed' /\ ReleasesSwallowed' /\ PointerFollowsShell'
    BY DEF FramesOwed, ReleasesSwallowed, PointerFollowsShell
  <2> QED BY <2>1, <2>2, <2>3, <2>4
<1>2. ASSUME NEW s \in Targets, PointerDestroyed(s) PROVE PointerInv'
  <2> USE <1>2 DEF PointerDestroyed, Rerouted, Forgotten, CancelSwipes, CancelTouch
  <2>1. RouteTypes' BY DEF RouteTypes
  <2>2. SequenceTypes' BY DEF SequenceTypes
  <2>3. ToldButtons' BY DEF ToldButtons
  <2>4. ToldSwipes' BY DEF ToldSwipes, SequenceTypes
  <2>5. ToldContacts' BY DEF ToldContacts, SequenceTypes
  <2>6. FramesOwed' /\ ReleasesSwallowed' BY DEF FramesOwed, ReleasesSwallowed
  <2>7. PointerFollowsShell' BY DEF PointerFollowsShell, RouteTypes
  <2> QED BY <2>1, <2>2, <2>3, <2>4, <2>5, <2>6, <2>7
<1>3. ASSUME NEW s \in Targets, RetirePointer(s) PROVE PointerInv'
  <2> USE <1>3 DEF RetirePointer, HandedOff, Rerouted, Forgotten, CancelSwipes, CancelTouch
  <2>0. Current = s <=> capture = s \/ (capture = Idle /\ pointerRoute = s)
    BY DEF Current
  <2>1. RouteTypes' BY DEF RouteTypes
  <2>2. SequenceTypes' BY DEF SequenceTypes
  <2>3. ToldButtons'
    <3> SUFFICES ASSUME NEW b \in Buttons, NEW t \in Targets
                 PROVE  <<b, t>> \in begun' <=> b \in pressed' /\ capture' = t
      BY DEF ToldButtons
    <3>1. <<b, t>> \in begun <=> b \in pressed /\ capture = t BY DEF ToldButtons
    <3>2. <<b, t>> \in begun' <=> <<b, t>> \in begun /\ ~(b \in HandedOff(s) /\ t = s)
      OBVIOUS
    <3>3. CASE capture = s BY <2>0, <3>1, <3>2, <3>3
    <3>4. CASE capture # s
      <4>1. <<b, t>> \in begun' <=> <<b, t>> \in begun BY <2>0, <3>1, <3>2, <3>4
      <4>2. capture' = capture /\ (pressed' = pressed \/ (pressed = {} /\ pressed' = {}))
        BY <2>0, <3>4 DEF PointerFollowsShell
      <4> QED BY <3>1, <4>1, <4>2
    <3> QED BY <3>3, <3>4
  <2>4. ToldSwipes'
    <3> SUFFICES ASSUME NEW w \in Swipes, NEW t \in Targets
                 PROVE  <<w, t>> \in begun' <=> w \in moving' /\ swipe'[w] = t
      BY DEF ToldSwipes
    <3>1. <<w, t>> \in begun <=> w \in moving /\ swipe[w] = t BY DEF ToldSwipes
    <3>2. HandedOff(s) \subseteq Buttons BY DEF RouteTypes
    <3> HIDE DEF HandedOff
    <3>3. <<w, t>> \in begun' <=> <<w, t>> \in begun /\ ~(swipe[w] = s /\ t = s)
      BY <3>2
    <3> QED BY <3>1, <3>3
  <2>5. ToldContacts'
    <3> SUFFICES ASSUME NEW c \in Contacts, NEW t \in Targets
                 PROVE  <<c, t>> \in begun' <=> contacts'[c] = t
      BY DEF ToldContacts
    <3>1. <<c, t>> \in begun <=> contacts[c] = t BY DEF ToldContacts
    <3>2. HandedOff(s) \subseteq Buttons BY DEF RouteTypes
    <3> HIDE DEF HandedOff
    <3>3. <<c, t>> \in begun' <=> <<c, t>> \in begun /\ t # s
      BY <3>2
    <3> QED BY <3>1, <3>3
  <2>6. FramesOwed' /\ ReleasesSwallowed' BY DEF FramesOwed, ReleasesSwallowed
  <2>7. PointerFollowsShell' BY <2>0 DEF PointerFollowsShell, RouteTypes
  <2> QED BY <2>1, <2>2, <2>3, <2>4, <2>5, <2>6, <2>7
<1> QED BY <1>1, <1>2, <1>3

LEMMA PointerStep ==
  ASSUME Separate, PointerInv, [PointerNext]_pointerState PROVE PointerInv'
<1>1. CASE UNCHANGED pointerState
  <2> USE <1>1 DEF pointerState, pointerVars, swipeVars, touchVars, PointerInv
  <2>1. RouteTypes' /\ SequenceTypes' BY DEF RouteTypes, SequenceTypes
  <2>2. ToldButtons' /\ ToldSwipes' /\ ToldContacts'
    BY DEF ToldButtons, ToldSwipes, ToldContacts
  <2>3. FramesOwed' /\ ReleasesSwallowed' /\ PointerFollowsShell'
    BY DEF FramesOwed, ReleasesSwallowed, PointerFollowsShell
  <2> QED BY <2>1, <2>2, <2>3
<1>2. CASE PointerNext
  BY <1>2, PublishKeeps, ButtonsKeep, SwipesKeep, TouchKeeps, EndsKeep DEF PointerNext
<1> QED BY <1>1, <1>2

\* The invariant says of every client what SequencesSettled says of all.
LEMMA PointerInvImplies ==
  ASSUME Separate, PointerInv PROVE SequencesSettled
<1> USE DEF PointerInv, Separate
<1> DEFINE Held == UNION ({BegunAt(b, capture) : b \in pressed} \union {BegunAt(w, swipe[w]) : w \in moving}
                            \union {BegunAt(c, contacts[c]) : c \in Contacts})
<1>1. ASSUME NEW e \in begun PROVE e \in Held
  <2>1. PICK x \in Sequences, s \in Targets : e = <<x, s>>
    BY DEF SequenceTypes
  <2>2. CASE x \in Buttons
    <3>1. x \in pressed /\ e \in BegunAt(x, capture) BY <1>1, <2>1, <2>2 DEF ToldButtons, BegunAt
    <3> QED BY <3>1
  <2>3. CASE x \in Swipes
    <3>1. x \in moving /\ e \in BegunAt(x, swipe[x]) BY <1>1, <2>1, <2>3 DEF ToldSwipes, BegunAt
    <3> QED BY <3>1
  <2>4. CASE x \in Contacts
    <3>1. e \in BegunAt(x, contacts[x]) BY <1>1, <2>1, <2>4 DEF ToldContacts, BegunAt
    <3> QED BY <2>4, <3>1
  <2> QED BY <2>1, <2>2, <2>3, <2>4 DEF Sequences
<1>2. ASSUME NEW b \in pressed, NEW e \in BegunAt(b, capture) PROVE e \in begun
  BY DEF BegunAt, RouteTypes, ToldButtons
<1>3. ASSUME NEW w \in moving, NEW e \in BegunAt(w, swipe[w]) PROVE e \in begun
  BY DEF BegunAt, SequenceTypes, ToldSwipes
<1>4. ASSUME NEW c \in Contacts, NEW e \in BegunAt(c, contacts[c]) PROVE e \in begun
  BY DEF BegunAt, ToldContacts
<1>5. begun = Held
  BY <1>1, <1>2, <1>3, <1>4
<1> QED BY <1>5 DEF SequencesSettled, FramesOwed, ReleasesSwallowed

\* A drag, a gesture, a scroll and a contact end at the client where they began,
\* whatever dispatch_pointer, dispatch_touch, forget_surface and
\* retire_local_input do meanwhile.
THEOREM SequencesAlwaysSettled == PointerSpec => []SequencesSettled
<1>1. PointerInit => PointerInv BY PointerAssumption, PointerStarts
<1>2. PointerInv /\ [PointerNext]_pointerState => PointerInv' BY PointerAssumption, PointerStep
<1>3. PointerInv => SequencesSettled BY PointerAssumption, PointerInvImplies
<1> QED BY <1>1, <1>2, <1>3, PTL DEF PointerSpec

\* The pointer is captured exactly while a button is down, and the route that
\* set_pointer_route last received is the route as soon as the capture ends.
THEOREM PointerAlwaysFollowsShell == PointerSpec => []PointerFollowsShell
<1>1. PointerInit => PointerInv BY PointerAssumption, PointerStarts
<1>2. PointerInv /\ [PointerNext]_pointerState => PointerInv' BY PointerAssumption, PointerStep
<1>3. PointerInv => PointerFollowsShell BY DEF PointerInv
<1> QED BY <1>1, <1>2, <1>3, PTL DEF PointerSpec
=============================================================================
