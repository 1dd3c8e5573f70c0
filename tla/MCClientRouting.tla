-------------------------- MODULE MCClientRouting ---------------------------
(***************************************************************************)
(* The parts of the client runtime (weld-client) that share the runtime    *)
(* and no state, so that a behaviour exercises one of them: the keyboard   *)
(* over two windows of the local server and one of a relay, the pointer    *)
(* over the two local windows, or the queue of pending client events.      *)
(***************************************************************************)
EXTENDS KeyboardRouting, PointerRouting, PendingQueue

VARIABLE part   \* the part that this behaviour exercises

Local == "local"
Relay == "relay"
BothSources == {Local, Relay}
LocalWindows == {"first", "second"}
Windows == LocalWindows \union {"remote"}
SourceOfWindow == ("first" :> Local) @@ ("second" :> Local) @@ ("remote" :> Relay)

runtimeVars == <<part, vars, pointerState, queueVars>>

RuntimeInit == part \in {"keyboard", "pointer", "queue"} /\ Init /\ PointerInit /\ QueueInit

OnKeyboard == part = "keyboard" /\ Next /\ UNCHANGED <<part, pointerState, queueVars>>
OnPointer == part = "pointer" /\ PointerNext /\ UNCHANGED <<part, vars, queueVars>>
OnQueue == part = "queue" /\ QueueNext /\ UNCHANGED <<part, vars, pointerState>>

RuntimeNext == OnKeyboard \/ OnPointer \/ OnQueue

RuntimeSpec == RuntimeInit /\ [][RuntimeNext]_runtimeVars
=============================================================================
