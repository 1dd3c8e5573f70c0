---------------------------- MODULE MCRelayLink -----------------------------
(***************************************************************************)
(* A window and its popup behind one relay. Its viewer is another device   *)
(* (RelayLink) or a remote controller (RemoteControl).                     *)
(***************************************************************************)
EXTENDS RelayLink, RemoteControl

VARIABLE viewedBy   \* "device" or "controller"

Window == "window"
Popup == "popup"
WindowAndPopup == {Window, Popup}
PopupOfWindow == (Window :> None) @@ (Popup :> Window)

\* A hoisted pair on an ordered transport, with nothing to do.
Hoisted ==
  [admission |-> "manual", ready |-> TRUE, inventory |-> WindowAndPopup, encoded |-> FALSE,
   codes |-> {}, contacts |-> {}, claims |-> {}, cursors |-> {}, roles |-> {"toplevel"},
   events |-> 0, commands |-> 0, inputs |-> 0, revocations |-> 0, losses |-> 0]

\* A key and a touch held while the windows come and go and the permit is revoked,
HeldInput == [Hoisted EXCEPT !.codes = {"key"}, !.contacts = {"touch"},
                !.events = 1, !.commands = 2, !.inputs = 2, !.revocations = 1]
\* cursors and claims through mapping, withdrawal and mapping again,
Feedback == [Hoisted EXCEPT !.cursors = {"text", "hand"}, !.claims = {"paused"},
                !.events = 2, !.commands = 3, !.inputs = 1]
\* the same when the link is lost,
Lost == [Feedback EXCEPT !.codes = {"key"}, !.cursors = {"text"}, !.events = 1, !.commands = 1, !.losses = 1]
\* and automatic admission over an encoded port, authorized at any moment.
Automatic == [Hoisted EXCEPT !.admission = "all", !.ready = FALSE, !.inventory = {}, !.encoded = TRUE,
                !.cursors = {"text"}, !.roles = {"toplevel", "layer"}, !.events = 5, !.revocations = 1]

AllEnvironments == {HeldInput, Feedback, Lost, Automatic}

Step(op, code) == [op |-> op, code |-> code]
Direct(op, code) == [kind |-> "direct", steps |-> <<Step(op, code)>>, keep |-> FALSE]
Sequence(steps, keep) == [kind |-> "sequence", steps |-> steps, keep |-> keep]

Press == Direct("press", "key")
Timed == Sequence(<<Step("press", "key"), Step("release", "key")>>, FALSE)
Kept == Sequence(<<Step("press", "key")>>, TRUE)
Pointing == Sequence(<<Step("point", None), Step("text", None)>>, FALSE)

\* The window changes hands while a key is pressed, released and held by a
\* sequence; it is revoked, granted again, withdrawn and destroyed under a key;
\* the pointer is left where the window no longer is.
HandedAround == [requests |-> {Press, Direct("release", "key"), Timed},
                 grants |-> 1, asks |-> 2, handovers |-> 3, events |-> 0]
GrantedAgain == [requests |-> {Press, Kept}, grants |-> 2, asks |-> 2, handovers |-> 1, events |-> 1]
Pointed == [requests |-> {Direct("move", None), Direct("tap", "key"), Press, Pointing},
            grants |-> 1, asks |-> 2, handovers |-> 0, events |-> 1]
AllControls == {HandedAround, GrantedAgain, Pointed}

viewedVars == <<viewedBy, vars, remote>>

ViewedInit ==
  /\ Init /\ RemoteInit
  /\ \/ viewedBy = "device" /\ around = HandedAround
     \/ viewedBy = "controller" /\ budget = HeldInput

ByDevice == viewedBy = "device" /\ Next /\ UNCHANGED <<viewedBy, remote>>
ByController ==
  viewedBy = "controller" /\ RemoteNext /\ UNCHANGED <<viewedBy, dst, viewer, down, up, delayed, budget>>

ViewedNext == ByDevice \/ ByController

ViewedSpec == ViewedInit /\ [][ViewedNext]_viewedVars
=============================================================================
