-------------------------- MODULE SessionOperation --------------------------
(***************************************************************************)
(* weld-session: the pollable single-result operation of operation.rs and  *)
(* the task SessionRuntime::start_operation wraps around it (lib.rs).      *)
(*                                                                         *)
(* Three kinds of actors interleave: the producers, which hold clones of   *)
(* the Completion; the supervised task; and the owner of the Operation.    *)
(* Every access to shared memory (the published flag, the one-slot result  *)
(* channel, the cancel channel) is a step of its own.                      *)
(***************************************************************************)


CONSTANTS Producers,   \* clones of the Completion; producer p makes value p
          NoResult, Failure

ASSUME MarkersAssumption == /\ NoResult \notin Producers
                            /\ Failure \notin Producers
                            /\ NoResult # Failure

VARIABLES
  pc,         \* producer -> where it is in Completion::send
  task,       \* the supervised task
  published,  \* CompletionState.published
  slot,       \* the bounded(1) result channel
  sealed,     \* the channel is closed (by either end)
  dropped,    \* CompletionState::drop: "no" | "closed" | "woken"
  woken,      \* the owner's event loop has a wake pending
  op,         \* the owner's handle
  canCancel,  \* Operation.cancel is Some
  cancelMsg,  \* a message waits in the cancel channel
  consumed,   \* Operation.consumed
  outcome,    \* what the owner saw
  claimed,    \* values whose ownership went to the caller
  retired     \* values that (retire)(&value) released

vars == <<pc, task, published, slot, sealed, dropped, woken, op, canCancel,
          cancelMsg, consumed, outcome, claimed, retired>>

producerVars == <<pc, published, slot, sealed, woken, retired>>
ownerVars == <<op, canCancel, cancelMsg, consumed, outcome, claimed>>

Init ==
  /\ pc = [p \in Producers |-> "idle"]
  /\ task = "queued"
  /\ published = FALSE /\ slot = NoResult /\ sealed = FALSE
  /\ dropped = "no" /\ woken = FALSE
  /\ op = "live" /\ canCancel = TRUE /\ cancelMsg = FALSE
  /\ consumed = FALSE /\ outcome = "pending"
  /\ claimed = {} /\ retired = {}

Goto(p, label) == pc' = [pc EXCEPT ![p] = label]

\* OwnedResult::drop with a value still inside.
RetireValue(p) == retired' = retired \union {p}

-----------------------------------------------------------------------------
(* Completion::send, one shared access per step.                           *)

\* The value is wrapped in an OwnedResult before anything else happens. A clone
\* handed to another thread may still be used when the task is over.
SendWrap(p) ==
  /\ pc[p] = "idle" /\ task # "queued"
  /\ Goto(p, "wrapped")
  /\ UNCHANGED <<task, published, slot, sealed, dropped, woken, retired, ownerVars>>

SendSwap(p) ==
  /\ pc[p] = "wrapped"
  /\ published' = TRUE
  /\ IF published THEN Goto(p, "sent") /\ RetireValue(p)
                  ELSE Goto(p, "push") /\ UNCHANGED retired
  /\ UNCHANGED <<task, slot, sealed, dropped, woken, ownerVars>>

\* Mutant: a rejected value is forgotten instead of dropped.
SendPushForgets(p) ==
  /\ pc[p] = "push"
  /\ IF sealed \/ slot # NoResult
       THEN Goto(p, "sent") /\ UNCHANGED slot
       ELSE Goto(p, "wake") /\ slot' = p
  /\ UNCHANGED <<task, published, sealed, dropped, woken, retired, ownerVars>>

\* try_send: a rejected message is dropped with its value.
SendPush(p) ==
  /\ pc[p] = "push"
  /\ IF sealed \/ slot # NoResult
       THEN Goto(p, "sent") /\ RetireValue(p) /\ UNCHANGED slot
       ELSE Goto(p, "wake") /\ slot' = p /\ UNCHANGED retired
  /\ UNCHANGED <<task, published, sealed, dropped, woken, ownerVars>>

SendWake(p) ==
  /\ pc[p] = "wake"
  /\ Goto(p, "sent")
  /\ woken' = TRUE
  /\ UNCHANGED <<task, published, slot, sealed, dropped, retired, ownerVars>>

\* A producer lets go of its clone of the Completion.
ReleaseClone(p) ==
  /\ pc[p] \in {"idle", "sent"}
  /\ Goto(p, "released")
  /\ UNCHANGED <<task, published, slot, sealed, dropped, woken, retired, ownerVars>>

\* Mutant: the last clone closes the channel and wakes nobody.
DropCloseSilent ==
  /\ dropped = "no" /\ task = "ended"
  /\ \A p \in Producers : pc[p] = "released"
  /\ dropped' = "woken" /\ sealed' = TRUE
  /\ UNCHANGED <<pc, task, published, slot, woken, retired, ownerVars>>

\* The last clone is gone: close the channel, then wake the owner.
DropClose ==
  /\ dropped = "no" /\ task = "ended"
  /\ \A p \in Producers : pc[p] = "released"
  /\ dropped' = "closed" /\ sealed' = TRUE
  /\ UNCHANGED <<pc, task, published, slot, woken, retired, ownerVars>>

DropWake ==
  /\ dropped = "closed"
  /\ dropped' = "woken" /\ woken' = TRUE
  /\ UNCHANGED <<pc, task, published, slot, sealed, retired, ownerVars>>

-----------------------------------------------------------------------------
(* The task of start_operation.                                            *)

TaskStart ==
  /\ task = "queued" /\ task' = "running"
  /\ UNCHANGED <<producerVars, dropped, ownerVars>>

\* The job never runs: the supervisor refuses it or shuts down, and the closure
\* is dropped together with its Completion.
TaskRefused ==
  /\ task = "queued" /\ task' = "ended"
  /\ pc' = [p \in Producers |-> "released"]
  /\ UNCHANGED <<published, slot, sealed, dropped, woken, retired, ownerVars>>

\* The supervisor shuts down while the task runs.
TaskAborted ==
  /\ task = "running" /\ task' = "ended"
  /\ UNCHANGED <<producerVars, dropped, ownerVars>>

\* The biased branch of the select: a cancel message ends the task with Ok.
TaskCancelled ==
  /\ task = "running" /\ cancelMsg
  /\ task' = "ended" /\ cancelMsg' = FALSE
  /\ UNCHANGED <<producerVars, dropped, op, canCancel, consumed, outcome, claimed>>

TaskFinish ==
  /\ task = "running"
  /\ task' \in {"ended", "fail"}
  /\ UNCHANGED <<producerVars, dropped, ownerVars>>

\* Completion::fail on the wrapper's own clone.
FailSwap ==
  /\ task = "fail"
  /\ task' = IF published THEN "ended" ELSE "failPush"
  /\ published' = TRUE
  /\ UNCHANGED <<pc, slot, sealed, dropped, woken, retired, ownerVars>>

FailPush ==
  /\ task = "failPush" /\ task' = "failWake"
  /\ slot' = IF sealed \/ slot # NoResult THEN slot ELSE Failure
  /\ UNCHANGED <<pc, published, sealed, dropped, woken, retired, ownerVars>>

FailWake ==
  /\ task = "failWake" /\ task' = "ended"
  /\ woken' = TRUE
  /\ UNCHANGED <<pc, published, slot, sealed, dropped, retired, ownerVars>>

-----------------------------------------------------------------------------
(* The owner.                                                              *)

\* Mutant: claim keeps the cancel sender.
TakeResultCancellable ==
  /\ consumed' = TRUE /\ UNCHANGED canCancel
  /\ slot' = NoResult
  /\ IF slot = Failure
       THEN outcome' = "failed" /\ UNCHANGED claimed
       ELSE outcome' = "claimed" /\ claimed' = claimed \union {slot}

\* Mutant: claim leaves the operation open to further polls.
TakeResultAgain ==
  /\ UNCHANGED consumed /\ canCancel' = FALSE
  /\ slot' = NoResult
  /\ IF slot = Failure
       THEN outcome' = "failed" /\ UNCHANGED claimed
       ELSE outcome' = "claimed" /\ claimed' = claimed \union {slot}

\* Operation::claim: the cancel sender goes first, so that a later drop of
\* the Operation leaves the live session running.
TakeResult ==
  /\ consumed' = TRUE /\ canCancel' = FALSE
  /\ slot' = NoResult
  /\ IF slot = Failure
       THEN outcome' = "failed" /\ UNCHANGED claimed
       ELSE outcome' = "claimed" /\ claimed' = claimed \union {slot}

\* Operation::poll; a closed channel still yields the result queued in it.
Poll ==
  /\ op = "live" /\ ~consumed
  /\ woken' = FALSE
  /\ \/ slot # NoResult /\ TakeResult
     \/ /\ slot = NoResult /\ sealed
        /\ outcome' = "stopped"
        /\ UNCHANGED <<consumed, canCancel, slot, claimed>>
     \/ /\ slot = NoResult /\ ~sealed
        /\ UNCHANGED <<consumed, canCancel, slot, claimed, outcome>>
  /\ UNCHANGED <<pc, task, published, sealed, dropped, op, cancelMsg, retired>>

\* Mutant: cancelling only closes the owner's end and never tells the task.
CancelSendNothing ==
  /\ op = "live" /\ op' = "close"
  /\ canCancel' = FALSE
  /\ outcome' = IF outcome = "pending" THEN "cancelled" ELSE outcome
  /\ UNCHANGED <<producerVars, task, dropped, cancelMsg, consumed, claimed>>

\* Operation::cancel, also run by its Drop: tell the task, close, drain.
CancelSend ==
  /\ op = "live" /\ op' = "close"
  /\ cancelMsg' = (cancelMsg \/ (canCancel /\ task # "ended"))
  /\ canCancel' = FALSE
  /\ outcome' = IF outcome = "pending" THEN "cancelled" ELSE outcome
  /\ UNCHANGED <<producerVars, task, dropped, consumed, claimed>>

CancelClose ==
  /\ op = "close" /\ op' = "drain"
  /\ sealed' = TRUE
  /\ UNCHANGED <<pc, task, published, slot, dropped, woken, canCancel, cancelMsg,
                 consumed, outcome, claimed, retired>>

CancelDrain ==
  /\ op = "drain" /\ op' = "gone"
  /\ slot' = NoResult
  /\ IF slot \in Producers THEN RetireValue(slot) ELSE UNCHANGED retired
  /\ UNCHANGED <<pc, task, published, sealed, dropped, woken, canCancel, cancelMsg,
                 consumed, outcome, claimed>>

-----------------------------------------------------------------------------
Produce(p) == SendWrap(p) \/ SendSwap(p) \/ SendPush(p) \/ SendWake(p)

Finished == op = "gone" /\ dropped = "woken"

\* Everybody has let go: the operation is over for good.
Done == Finished /\ UNCHANGED vars

Next == \/ \E p \in Producers : Produce(p) \/ ReleaseClone(p)
        \/ DropClose \/ DropWake
        \/ TaskStart \/ TaskRefused \/ TaskAborted \/ TaskCancelled \/ TaskFinish
        \/ FailSwap \/ FailPush \/ FailWake
        \/ Poll \/ CancelSend \/ CancelClose \/ CancelDrain
        \/ Done

\* Threads that are inside a call get on with it; an ended task's future has
\* dropped its clones; the event loop polls when it has been woken; and the
\* supervisor delivers a cancel message. Nothing makes a task finish by itself.
Fairness ==
  /\ \A p \in Producers : /\ WF_vars(SendSwap(p)) /\ WF_vars(SendPush(p))
                          /\ WF_vars(SendWake(p))
                          /\ WF_vars(task = "ended" /\ ReleaseClone(p))
  /\ WF_vars(DropClose) /\ WF_vars(DropWake)
  /\ WF_vars(TaskStart) /\ WF_vars(TaskCancelled)
  /\ WF_vars(FailSwap) /\ WF_vars(FailPush) /\ WF_vars(FailWake)
  /\ WF_vars(woken /\ Poll)
  /\ WF_vars(CancelClose) /\ WF_vars(CancelDrain)

Spec == Init /\ [][Next]_vars
FairSpec == Spec /\ Fairness

-----------------------------------------------------------------------------
(* Properties.                                                             *)

StateTypes ==
  /\ pc \in [Producers -> {"idle", "wrapped", "push", "wake", "sent", "released"}]
  /\ task \in {"queued", "running", "fail", "failPush", "failWake", "ended"}
  /\ slot \in Producers \union {NoResult, Failure}
  /\ dropped \in {"no", "closed", "woken"}
  /\ op \in {"live", "close", "drain", "gone"}
  /\ outcome \in {"pending", "claimed", "failed", "stopped", "cancelled"}
  /\ claimed \subseteq Producers
  /\ retired \subseteq Producers

FlagTypes ==
  /\ published \in BOOLEAN /\ sealed \in BOOLEAN /\ woken \in BOOLEAN
  /\ canCancel \in BOOLEAN /\ cancelMsg \in BOOLEAN /\ consumed \in BOOLEAN

\* The shared cells of operation.rs hold what their Rust types allow.
TypeOK == StateTypes /\ FlagTypes

Holding(p) == pc[p] \in {"wrapped", "push"}

\* The value of p is in exactly one place: on a producer's stack, in the
\* channel, with the caller, or retired (OwnedResult): a
\* claimed value is never retired, and none is retired from two places.
ExactlyOneOwner ==
  \A p \in Producers :
    /\ Holding(p) => slot # p /\ p \notin claimed /\ p \notin retired
    /\ slot = p => p \notin claimed /\ p \notin retired
    /\ p \in claimed => p \notin retired
    /\ pc[p] \in {"wake", "sent"} =>
         slot = p \/ p \in claimed \/ p \in retired

\* Once the handle is gone and no send is under way, no resource is left in the
\* channel: what the caller never claimed has been retired.
NothingStranded ==
  op = "gone" => slot = NoResult

\* A result or the end of the operation that the owner has not yet seen is
\* announced: a wake is pending, or an actor is between its push (or its close)
\* and its wake. Without it poll is never called again.
NoLostWake ==
  (op = "live" /\ outcome = "pending" /\ (slot # NoResult \/ sealed)) =>
     \/ woken
     \/ \E p \in Producers : pc[p] = "wake"
     \/ task = "failWake"
     \/ dropped = "closed"

\* Claiming a result keeps the session alive: the task of a claimed operation
\* is never told to stop, even when the Operation is dropped afterwards.
ClaimedNeverCancelled == claimed # {} => ~cancelMsg

\* An owner that keeps its handle eventually learns how a task that is over
\* ended: with a result, a failure, or "session operation stopped".
OutcomeDelivered ==
  (task = "ended") ~> (outcome # "pending")

\* Cancelling before a claim ends the task and leaves no live resource behind.
CancelRetires ==
  (outcome = "cancelled") ~>
     (task = "ended" /\ \A p \in Producers : ~Holding(p) /\ slot # p)

FateOf(p) == IF p \in claimed THEN "claimed"
             ELSE IF p \in retired THEN "retired"
             ELSE IF Holding(p) \/ slot = p THEN "made" ELSE "unborn"

Abs == INSTANCE SingleResult WITH
         Values <- Producers, fate <- [p \in Producers |-> FateOf(p)]

\* The operation implements the one-result promise of SingleResult.
ImplementsSingleResult == Abs!AbsSpec
=============================================================================
