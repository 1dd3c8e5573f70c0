------------------------ MODULE SessionRuntimeProofs ------------------------
(***************************************************************************)
(* Proofs about weld-session: the single-result operation for any set of   *)
(* producers, then the supervisor that runs it for any listeners, jobs,    *)
(* protocols and applications and any value of its limits.                 *)
(***************************************************************************)
EXTENDS SessionRuntime, FiniteSetTheorems, TLAPS

-----------------------------------------------------------------------------
(* The operation.                                                          *)

\* Boolean cells and the rest are proved apart: each goes to another backend.
LEMMA TypeStep == ASSUME TypeOK, [Next]_vars PROVE TypeOK'
<1> USE DEF TypeOK, StateTypes
<1>1. ASSUME NEW p \in Producers, Produce(p) \/ ReleaseClone(p) PROVE TypeOK'
  <2> USE <1>1 DEF Produce, SendWrap, SendSwap, SendPush, SendWake, ReleaseClone,
       Goto, RetireValue, ownerVars
  <2>1. StateTypes' OBVIOUS
  <2>2. FlagTypes' BY DEF FlagTypes
  <2> QED BY <2>1, <2>2
<1>2. CASE DropClose \/ DropWake
  <2> USE <1>2 DEF DropClose, DropWake, ownerVars
  <2>1. StateTypes' OBVIOUS
  <2>2. FlagTypes' BY DEF FlagTypes
  <2> QED BY <2>1, <2>2
<1>3. CASE TaskStart \/ TaskRefused \/ TaskAborted \/ TaskCancelled \/ TaskFinish
  <2> USE <1>3 DEF TaskStart, TaskRefused, TaskAborted, TaskCancelled, TaskFinish,
       producerVars, ownerVars
  <2>1. StateTypes' OBVIOUS
  <2>2. FlagTypes' BY DEF FlagTypes
  <2> QED BY <2>1, <2>2
<1>4. CASE FailSwap \/ FailPush \/ FailWake
  <2> USE <1>4 DEF FailSwap, FailPush, FailWake, ownerVars
  <2>1. StateTypes' OBVIOUS
  <2>2. FlagTypes' BY DEF FlagTypes
  <2> QED BY <2>1, <2>2
<1>5. CASE Poll
  <2> USE <1>5 DEF Poll, TakeResult
  <2>1. StateTypes' OBVIOUS
  <2>2. FlagTypes' BY DEF FlagTypes
  <2> QED BY <2>1, <2>2
<1>6. CASE CancelSend \/ CancelClose \/ CancelDrain
  <2> USE <1>6 DEF CancelSend, CancelClose, CancelDrain, RetireValue, producerVars
  <2>1. StateTypes' OBVIOUS
  <2>2. FlagTypes' BY DEF FlagTypes
  <2> QED BY <2>1, <2>2
<1>7. CASE UNCHANGED vars
  BY <1>7 DEF vars, FlagTypes
<1> QED
  BY <1>1, <1>2, <1>3, <1>4, <1>5, <1>6, <1>7 DEF Next, Done

\* Every reachable state of the operation protocol is well typed.
THEOREM TypeCorrect == Spec => []TypeOK
<1>1. Init => TypeOK
  BY DEF Init, TypeOK, StateTypes, FlagTypes
<1> QED
  BY <1>1, TypeStep, PTL DEF Spec

-----------------------------------------------------------------------------
(* Ownership.                                                              *)

\* ExactlyOneOwner is not inductive: it says nothing of a value that is still
\* to be made, which must be nowhere yet.
Unmade ==
  \A p \in Producers :
    pc[p] = "idle" => slot # p /\ p \notin claimed /\ p \notin retired

\* A task that has not started has given no clone to anybody.
NotStarted == task = "queued" => \A p \in Producers : pc[p] \in {"idle", "released"}

\* What the owner has seen decides what its handle and the channel still allow.
OutcomeFinal ==
  /\ outcome \in {"claimed", "failed"} => consumed
  /\ outcome = "stopped" => sealed /\ slot = NoResult
  /\ outcome = "cancelled" => op # "live"

\* The inductive invariant.
OwnershipInv == TypeOK /\ ExactlyOneOwner /\ Unmade /\ NotStarted /\ OutcomeFinal

LEMMA OwnershipStarts == Init => OwnershipInv
<1> SUFFICES ASSUME Init PROVE OwnershipInv
  OBVIOUS
<1>1. StateTypes BY DEF Init, StateTypes
<1>2. FlagTypes BY DEF Init, FlagTypes
<1>3. ExactlyOneOwner /\ Unmade
  BY MarkersAssumption DEF Init, ExactlyOneOwner, Unmade, Holding
<1>4. NotStarted /\ OutcomeFinal BY DEF Init, NotStarted, OutcomeFinal
<1> QED BY <1>1, <1>2, <1>3, <1>4 DEF OwnershipInv, TypeOK

Owners == ExactlyOneOwner /\ Unmade /\ NotStarted

LEMMA OwnersStep == ASSUME StateTypes, Owners, [Next]_vars PROVE Owners'
<1> USE MarkersAssumption DEF StateTypes, Owners, ExactlyOneOwner, Unmade, NotStarted, Holding
<1>1. ASSUME NEW p \in Producers, Produce(p) \/ ReleaseClone(p) PROVE Owners'
  <2> USE DEF Goto, RetireValue, ownerVars
  <2>1. CASE SendWrap(p) BY <2>1 DEF SendWrap
  <2>2. CASE SendSwap(p) BY <2>2 DEF SendSwap
  <2>3. CASE SendPush(p) BY <2>3 DEF SendPush
  <2>4. CASE SendWake(p) BY <2>4 DEF SendWake
  <2>5. CASE ReleaseClone(p) BY <2>5 DEF ReleaseClone
  <2> QED BY <1>1, <2>1, <2>2, <2>3, <2>4, <2>5 DEF Produce
<1>2. CASE DropClose \/ DropWake
  BY <1>2 DEF DropClose, DropWake, ownerVars
<1>3. CASE TaskStart \/ TaskRefused \/ TaskAborted \/ TaskCancelled \/ TaskFinish
  BY <1>3 DEF TaskStart, TaskRefused, TaskAborted, TaskCancelled, TaskFinish,
       producerVars, ownerVars
<1>4. CASE FailSwap \/ FailPush \/ FailWake
  BY <1>4 DEF FailSwap, FailPush, FailWake, ownerVars
<1>5. CASE Poll
  BY <1>5 DEF Poll, TakeResult
<1>6. CASE CancelSend \/ CancelClose \/ CancelDrain
  BY <1>6 DEF CancelSend, CancelClose, CancelDrain, RetireValue, producerVars
<1>7. CASE UNCHANGED vars
  BY <1>7 DEF vars
<1> QED
  BY <1>1, <1>2, <1>3, <1>4, <1>5, <1>6, <1>7 DEF Next, Done

LEMMA OutcomeStep == ASSUME StateTypes, OutcomeFinal, [Next]_vars PROVE OutcomeFinal'
<1> USE MarkersAssumption DEF StateTypes, OutcomeFinal
<1>1. ASSUME NEW p \in Producers, Produce(p) \/ ReleaseClone(p) PROVE OutcomeFinal'
  <2> USE DEF Goto, RetireValue, ownerVars
  <2>1. CASE SendWrap(p) BY <2>1 DEF SendWrap
  <2>2. CASE SendSwap(p) BY <2>2 DEF SendSwap
  <2>3. CASE SendPush(p) BY <2>3 DEF SendPush
  <2>4. CASE SendWake(p) BY <2>4 DEF SendWake
  <2>5. CASE ReleaseClone(p) BY <2>5 DEF ReleaseClone
  <2> QED BY <1>1, <2>1, <2>2, <2>3, <2>4, <2>5 DEF Produce
<1>2. CASE DropClose \/ DropWake
  BY <1>2 DEF DropClose, DropWake, ownerVars
<1>3. CASE TaskStart \/ TaskRefused \/ TaskAborted \/ TaskCancelled \/ TaskFinish
  BY <1>3 DEF TaskStart, TaskRefused, TaskAborted, TaskCancelled, TaskFinish,
       producerVars, ownerVars
<1>4. CASE FailSwap \/ FailPush \/ FailWake
  BY <1>4 DEF FailSwap, FailPush, FailWake, ownerVars
<1>5. CASE Poll
  BY <1>5 DEF Poll, TakeResult
<1>6. CASE CancelSend \/ CancelClose \/ CancelDrain
  BY <1>6 DEF CancelSend, CancelClose, CancelDrain, RetireValue, producerVars
<1>7. CASE UNCHANGED vars
  BY <1>7 DEF vars
<1> QED
  BY <1>1, <1>2, <1>3, <1>4, <1>5, <1>6, <1>7 DEF Next, Done

LEMMA OwnershipStep == ASSUME OwnershipInv, [Next]_vars PROVE OwnershipInv'
<1>1. TypeOK' BY TypeStep DEF OwnershipInv
<1>2. Owners' BY OwnersStep DEF OwnershipInv, TypeOK, Owners
<1>3. OutcomeFinal' BY OutcomeStep DEF OwnershipInv, TypeOK
<1> QED BY <1>1, <1>2, <1>3 DEF OwnershipInv, Owners

\* Every resource a producer makes has exactly one owner at any time: nothing is
\* both claimed and retired, retired twice, or lost.
THEOREM SingleOwnership == Spec => []ExactlyOneOwner
<1>1. OwnershipInv => ExactlyOneOwner BY DEF OwnershipInv
<1> QED BY <1>1, OwnershipStarts, OwnershipStep, PTL DEF Spec

-----------------------------------------------------------------------------
(* Cancellation.                                                           *)

\* A handle past its close has sealed the channel, a claim has taken the cancel
\* sender, and only a handle that is being cancelled has sent a message.
CancelInv ==
  /\ op \in {"drain", "gone"} => sealed
  /\ op = "gone" => slot = NoResult
  /\ claimed # {} => ~canCancel /\ ~cancelMsg
  /\ cancelMsg => op # "live"

LEMMA CancelStep == ASSUME StateTypes, CancelInv, [Next]_vars PROVE CancelInv'
<1> USE MarkersAssumption DEF StateTypes, CancelInv
<1>1. ASSUME NEW p \in Producers, Produce(p) \/ ReleaseClone(p) PROVE CancelInv'
  BY <1>1 DEF Produce, SendWrap, SendSwap, SendPush, SendWake, ReleaseClone, ownerVars
<1>2. CASE DropClose \/ DropWake
  BY <1>2 DEF DropClose, DropWake, ownerVars
<1>3. CASE TaskStart \/ TaskRefused \/ TaskAborted \/ TaskCancelled \/ TaskFinish
  BY <1>3 DEF TaskStart, TaskRefused, TaskAborted, TaskCancelled, TaskFinish,
       producerVars, ownerVars
<1>4. CASE FailSwap \/ FailPush \/ FailWake
  BY <1>4 DEF FailSwap, FailPush, FailWake, ownerVars
<1>5. CASE Poll
  BY <1>5 DEF Poll, TakeResult
<1>6. CASE CancelSend
  <2>1. /\ op' = "close" /\ ~canCancel' /\ claimed' = claimed
        /\ cancelMsg' => cancelMsg \/ canCancel
    BY <1>6, Zenon DEF CancelSend
  <2> QED BY <2>1
<1>7. CASE CancelClose \/ CancelDrain
  BY <1>7 DEF CancelClose, CancelDrain
<1>8. CASE UNCHANGED vars
  BY <1>8 DEF vars
<1> QED
  BY <1>1, <1>2, <1>3, <1>4, <1>5, <1>6, <1>7, <1>8 DEF Next, Done

LEMMA CancelInvariant == Spec => []CancelInv
<1>1. Init => CancelInv BY DEF Init, CancelInv
<1>2. TypeOK => StateTypes BY DEF TypeOK
<1> QED BY <1>1, <1>2, TypeCorrect, CancelStep, PTL DEF Spec

\* When the handle is gone no resource is left in the channel, and none can be
\* put there any more.
THEOREM NoResourceStranded == Spec => []NothingStranded
<1>1. CancelInv => NothingStranded BY DEF CancelInv, NothingStranded
<1> QED BY <1>1, CancelInvariant, PTL

\* A claimed session is never told to stop by the operation it came from.
THEOREM ClaimOutlivesHandle == Spec => []ClaimedNeverCancelled
<1>1. CancelInv => ClaimedNeverCancelled BY DEF CancelInv, ClaimedNeverCancelled
<1> QED BY <1>1, CancelInvariant, PTL

-----------------------------------------------------------------------------
(* Wakes.                                                                  *)

\* NotStarted is needed where the task is refused: no clone is then between its
\* push and its wake.
LEMMA WakeStep == ASSUME StateTypes, NotStarted, NoLostWake, [Next]_vars PROVE NoLostWake'
<1> USE MarkersAssumption DEF StateTypes, NoLostWake
<1>1. ASSUME NEW p \in Producers, Produce(p) \/ ReleaseClone(p) PROVE NoLostWake'
  <2> USE DEF Goto, ownerVars
  <2>1. CASE SendWrap(p) BY <2>1 DEF SendWrap
  <2>2. CASE SendSwap(p) BY <2>2 DEF SendSwap
  <2>3. CASE SendPush(p) BY <2>3 DEF SendPush
  <2>4. CASE SendWake(p) BY <2>4 DEF SendWake
  <2>5. CASE ReleaseClone(p) BY <2>5 DEF ReleaseClone
  <2> QED BY <1>1, <2>1, <2>2, <2>3, <2>4, <2>5 DEF Produce
<1>2. CASE DropClose \/ DropWake
  BY <1>2 DEF DropClose, DropWake, ownerVars
<1>3. CASE TaskStart \/ TaskRefused \/ TaskAborted \/ TaskCancelled \/ TaskFinish
  BY <1>3 DEF TaskStart, TaskRefused, TaskAborted, TaskCancelled, TaskFinish, NotStarted,
       producerVars, ownerVars
<1>4. CASE FailSwap \/ FailPush \/ FailWake
  BY <1>4 DEF FailSwap, FailPush, FailWake, ownerVars
<1>5. CASE Poll
  BY <1>5 DEF Poll, TakeResult
<1>6. CASE CancelSend \/ CancelClose \/ CancelDrain
  BY <1>6 DEF CancelSend, CancelClose, CancelDrain, producerVars
<1>7. CASE UNCHANGED vars
  BY <1>7 DEF vars
<1> QED
  BY <1>1, <1>2, <1>3, <1>4, <1>5, <1>6, <1>7 DEF Next, Done

\* A result or an end that the owner has not seen always has a wake pending or
\* on its way: the event loop cannot sleep through it.
THEOREM WakeIsNeverLost == Spec => []NoLostWake
<1>1. Init => NoLostWake BY DEF Init, NoLostWake
<1>2. OwnershipInv => StateTypes /\ NotStarted BY DEF OwnershipInv, TypeOK
<1> QED BY <1>1, <1>2, OwnershipStarts, OwnershipStep, WakeStep, PTL DEF Spec

-----------------------------------------------------------------------------
(* Refinement of SingleResult.                                             *)

\* What a step does to the fate of every value, and to nothing else.
SameFates == \A q \in Producers : FateOf(q)' = FateOf(q)
Moves(p, from, to) ==
  /\ FateOf(p) = from /\ FateOf(p)' = to
  /\ \A q \in Producers \ {p} : FateOf(q)' = FateOf(q)

LEMMA MoveIsStep ==
  ASSUME NEW p \in Producers
  PROVE  /\ SameFates /\ outcome' = outcome => UNCHANGED Abs!absVars
         /\ Moves(p, "unborn", "made") /\ outcome' = outcome => Abs!Make(p)
         /\ Moves(p, "made", "retired") /\ outcome' = outcome => Abs!Retire(p)
         /\ Moves(p, "made", "claimed") /\ outcome = "pending" /\ outcome' = "claimed" => Abs!Claim(p)
BY DEF SameFates, Moves, Abs!absVars, Abs!Make, Abs!Retire, Abs!Claim

LEMMA FatesKept ==
  ASSUME SameFates
  PROVE  /\ outcome' = outcome => UNCHANGED Abs!absVars
         /\ \A o : outcome = "pending" /\ outcome' = o => Abs!Conclude(o)
BY DEF SameFates, Abs!absVars, Abs!Conclude

\* Every step of the operation is a step of SingleResult, or a stutter.
LEMMA RefinementStep ==
  ASSUME OwnershipInv, [Next]_vars PROVE [Abs!AbsNext]_(Abs!absVars)
<1> DEFINE Step == [Abs!AbsNext]_(Abs!absVars)
           Stutter == SameFates /\ outcome' = outcome
           Moved == \E p \in Producers :
             \/ Moves(p, "unborn", "made") /\ outcome' = outcome
             \/ Moves(p, "made", "retired") /\ outcome' = outcome
             \/ Moves(p, "made", "claimed") /\ outcome = "pending" /\ outcome' = "claimed"
           Concluded == /\ SameFates /\ outcome = "pending"
                        /\ outcome' \in {"failed", "stopped", "cancelled"}
<1>0. SUFFICES Stutter \/ Moved \/ Concluded
  <2>1. CASE Stutter BY <2>1, FatesKept
  <2>2. CASE Moved
    BY <2>2, MoveIsStep DEF Abs!AbsNext
  <2>3. CASE Concluded
    BY <2>3, FatesKept DEF Abs!AbsNext
  <2> QED BY <1>0, <2>1, <2>2, <2>3
<1>t. StateTypes /\ Owners /\ OutcomeFinal
  BY DEF OwnershipInv, TypeOK, Owners
<1> USE <1>t, MarkersAssumption
    DEF StateTypes, Owners, ExactlyOneOwner, Unmade, NotStarted, Holding, FateOf, SameFates, Moves
<1>1. ASSUME NEW p \in Producers, Produce(p) \/ ReleaseClone(p) PROVE Stutter \/ Moved
  <2> USE DEF Goto, RetireValue, ownerVars
  <2>1. CASE SendWrap(p)
    <3>1. Moves(p, "unborn", "made") /\ outcome' = outcome BY <2>1 DEF SendWrap
    <3> QED BY <3>1
  <2>2. CASE SendSwap(p)
    <3>1. CASE published
      <4>1. Moves(p, "made", "retired") /\ outcome' = outcome BY <2>2, <3>1 DEF SendSwap
      <4> QED BY <4>1
    <3>2. CASE ~published
      BY <2>2, <3>2 DEF SendSwap
    <3> QED BY <3>1, <3>2
  <2>3. CASE SendPush(p)
    <3>1. CASE sealed \/ slot # NoResult
      <4>1. Moves(p, "made", "retired") /\ outcome' = outcome BY <2>3, <3>1 DEF SendPush
      <4> QED BY <4>1
    <3>2. CASE ~(sealed \/ slot # NoResult)
      BY <2>3, <3>2 DEF SendPush
    <3> QED BY <3>1, <3>2
  <2>4. CASE SendWake(p) BY <2>4 DEF SendWake
  <2>5. CASE ReleaseClone(p) BY <2>5 DEF ReleaseClone
  <2> QED BY <1>1, <2>1, <2>2, <2>3, <2>4, <2>5 DEF Produce
<1>2. CASE DropClose \/ DropWake
  BY <1>2 DEF DropClose, DropWake, ownerVars
<1>3. CASE TaskStart \/ TaskRefused \/ TaskAborted \/ TaskCancelled \/ TaskFinish
  BY <1>3 DEF TaskStart, TaskRefused, TaskAborted, TaskCancelled, TaskFinish,
       producerVars, ownerVars
<1>4. CASE FailSwap \/ FailPush \/ FailWake
  BY <1>4 DEF FailSwap, FailPush, FailWake, ownerVars
<1>5. CASE Poll
  <2> USE <1>5 DEF Poll, TakeResult, OutcomeFinal
  <2>1. CASE slot \in Producers
    <3> PICK p \in Producers : slot = p BY <2>1
    <3>1. Moves(p, "made", "claimed") /\ outcome = "pending" /\ outcome' = "claimed"
      OBVIOUS
    <3> QED BY <3>1
  <2>2. CASE slot = Failure BY <2>2
  <2>3. CASE slot = NoResult BY <2>3
  <2> QED BY <2>1, <2>2, <2>3
<1>6. CASE CancelSend \/ CancelClose
  BY <1>6 DEF CancelSend, CancelClose, producerVars
<1>7. CASE CancelDrain
  <2> USE <1>7 DEF CancelDrain, RetireValue
  <2>1. CASE slot \in Producers
    <3> PICK p \in Producers : slot = p BY <2>1
    <3>1. Moves(p, "made", "retired") /\ outcome' = outcome OBVIOUS
    <3> QED BY <3>1
  <2>2. CASE slot \notin Producers BY <2>2
  <2> QED BY <2>1, <2>2
<1>8. CASE UNCHANGED vars
  BY <1>8 DEF vars
<1> QED
  BY <1>1, <1>2, <1>3, <1>4, <1>5, <1>6, <1>7, <1>8 DEF Next, Done

\* The operation protocol implements SingleResult: of all the resources made,
\* the owner receives at most one, and every other is retired once.
THEOREM Refinement == Spec => ImplementsSingleResult
<1>1. Init => Abs!AbsInit
  BY MarkersAssumption DEF Init, Abs!AbsInit, FateOf, Holding
<1> QED
  BY <1>1, OwnershipStarts, OwnershipStep, RefinementStep, PTL
     DEF Spec, ImplementsSingleResult, Abs!AbsSpec

-----------------------------------------------------------------------------
(* The supervisor.                                                         *)

Places == {"outside", "carried", "queued", "running", "handoff", "claimed", "dropped"}

RuntimeTypes ==
  /\ commands \in Seq(Listeners \union Jobs \union {Operation})
  /\ worker \in {"loop", "listeners", "jobs", "gone"}
  /\ listener \in [Listeners -> {"idle", "queued", "accepting", "sending", "ended"}]
  /\ place \in [Jobs -> Places]
  /\ via \in [Connections -> Listeners \union {None}]
  /\ active \in [Protocols -> Nat]

Waits(x, s) == \E k \in 1 .. Len(s) : s[k] = x
NoRepeats(s) == \A k, m \in 1 .. Len(s) : s[k] = s[m] => k = m

\* The command queue holds what waits in it, once, and is empty for good when
\* the worker leaves its loop.
QueueInv ==
  /\ NoRepeats(commands)
  /\ \A l \in Listeners : listener[l] = "queued" <=> Waits(l, commands)
  /\ \A j \in Jobs : place[j] = "queued" <=> Waits(j, commands)
  /\ application.operation /\ task = "queued" => Waits(Operation, commands)
  /\ worker # "loop" => closed /\ commands = <<>>

\* What the parts of the worker's shutdown have established.
PhaseInv ==
  /\ worker \in {"jobs", "gone"} => \A l \in Listeners : listener[l] \in {"idle", "ended"}
  /\ worker = "gone" => ~OperationRuns /\ \A j \in Jobs : place[j] # "running"

\* A connection came through a listener that was started; of those accepted, a
\* listener carries one at a time to the queue.
Accepted(at, state) ==
  /\ \A j \in Jobs : at[j] \in {"carried", "handoff"} => j \in Connections
  /\ \A c \in Connections :
       /\ at[c] \in {"carried", "queued", "running", "handoff"} =>
            via[c] \in Listeners /\ state[via[c]] # "idle"
       /\ at[c] = "carried" =>
            /\ state[via[c]] = "sending"
            /\ \A d \in Connections : at[d] = "carried" /\ via[d] = via[c] => d = c

\* A connection waits in a handoff only while something can still use its queue.
HandoffInUse ==
  \A c \in Connections : place[c] = "handoff" /\ listener[via[c]] = "ended" =>
    \E d \in Connections : via[d] = via[c] /\ place[d] \in {"queued", "running"}

ConnectionInv == Accepted(place, listener) /\ HandoffInUse

\* The inductive invariant of the supervisor, apart from its budgets.
RuntimeInv == RuntimeTypes /\ QueueInv /\ PhaseInv /\ ConnectionInv

\* The budgets: what runs is finite, and the limit covers it.
BudgetInv ==
  /\ active \in [Protocols -> Nat]
  /\ \A p \in Protocols : IsFiniteSet(Running(p))
  /\ BudgetIsShared

-----------------------------------------------------------------------------
(* The command queue and the handoffs.                                     *)

LEMMA Submitted ==
  ASSUME NEW S, NEW s \in Seq(S), NEW x \in S
  PROVE  /\ Append(s, x) \in Seq(S)
         /\ \A y : Waits(y, Append(s, x)) <=> Waits(y, s) \/ y = x
         /\ NoRepeats(s) /\ ~Waits(x, s) => NoRepeats(Append(s, x))
<1>1. Append(s, x) \in Seq(S) /\ Len(Append(s, x)) = Len(s) + 1 /\ Len(s) \in Nat OBVIOUS
<1>2. \A k \in 1 .. Len(s) : Append(s, x)[k] = s[k] OBVIOUS
<1>3. Append(s, x)[Len(s) + 1] = x OBVIOUS
<1>4. ASSUME NEW y PROVE Waits(y, Append(s, x)) <=> Waits(y, s) \/ y = x
  BY <1>1, <1>2, <1>3 DEF Waits
<1>5. ASSUME NoRepeats(s), ~Waits(x, s) PROVE NoRepeats(Append(s, x))
  BY <1>1, <1>2, <1>3, <1>5 DEF NoRepeats, Waits
<1> QED BY <1>1, <1>4, <1>5

LEMMA TakenOut ==
  ASSUME NEW S, NEW s \in Seq(S), s # <<>>, NoRepeats(s)
  PROVE  /\ Tail(s) \in Seq(S) /\ Head(s) \in S /\ Waits(Head(s), s)
         /\ \A y : Waits(y, Tail(s)) <=> Waits(y, s) /\ y # Head(s)
         /\ NoRepeats(Tail(s))
<1>1. Tail(s) \in Seq(S) /\ Len(s) \in Nat \ {0} /\ Len(Tail(s)) = Len(s) - 1 /\ Head(s) = s[1]
      /\ Head(s) \in S
  OBVIOUS
<1>2. \A k \in 1 .. Len(s) - 1 : Tail(s)[k] = s[k + 1] OBVIOUS
<1>3. ASSUME NEW y PROVE Waits(y, Tail(s)) <=> Waits(y, s) /\ y # Head(s)
  <2>1. ASSUME Waits(y, Tail(s)) PROVE Waits(y, s) /\ y # Head(s)
    <3>1. PICK k \in 1 .. Len(s) - 1 : s[k + 1] = y BY <1>1, <1>2, <2>1 DEF Waits
    <3>2. k + 1 \in 1 .. Len(s) /\ 1 \in 1 .. Len(s) /\ k + 1 # 1 BY <1>1
    <3> QED BY <1>1, <3>1, <3>2 DEF Waits, NoRepeats
  <2>2. ASSUME Waits(y, s), y # Head(s) PROVE Waits(y, Tail(s))
    <3>1. PICK k \in 1 .. Len(s) : s[k] = y BY <2>2 DEF Waits
    <3>2. k - 1 \in 1 .. Len(s) - 1 /\ (k - 1) + 1 = k BY <1>1, <2>2, <3>1
    <3> QED BY <1>1, <1>2, <3>1, <3>2 DEF Waits
  <2> QED BY <2>1, <2>2
<1>4. NoRepeats(Tail(s)) BY <1>1, <1>2 DEF NoRepeats
<1>5. Waits(Head(s), s) BY <1>1 DEF Waits
<1> QED BY <1>1, <1>3, <1>4, <1>5

\* Dropping the handoffs that nothing can use any more touches nothing else.
LEMMA SettledFacts ==
  ASSUME NEW at \in [Jobs -> Places], NEW state
  PROVE  /\ Settled(at, state) \in [Jobs -> Places]
         /\ \A j \in Jobs : \/ Settled(at, state)[j] = at[j]
                            \/ at[j] = "handoff" /\ Settled(at, state)[j] = "dropped"
         /\ \A j \in Jobs : Settled(at, state)[j] = "handoff" /\ state[via[j]] = "ended" =>
              \E d \in Connections :
                via[d] = via[j] /\ Settled(at, state)[d] \in {"queued", "running"}
<1>1. /\ Settled(at, state) \in [Jobs -> Places]
      /\ \A j \in Jobs : \/ Settled(at, state)[j] = at[j]
                         \/ at[j] = "handoff" /\ Settled(at, state)[j] = "dropped"
  BY DEF Settled, Places
<1>2. ASSUME NEW j \in Jobs, Settled(at, state)[j] = "handoff", state[via[j]] = "ended"
      PROVE  \E d \in Connections :
               via[d] = via[j] /\ Settled(at, state)[d] \in {"queued", "running"}
  <2>1. PICK d \in Connections : via[d] = via[j] /\ at[d] \in {"queued", "running"}
    BY <1>2 DEF Settled
  <2>2. d \in Jobs BY DEF Jobs
  <2> QED BY <1>1, <2>1, <2>2
<1> QED BY <1>1, <1>2

-----------------------------------------------------------------------------
(* The operation inside the runtime.                                       *)

\* Every step of the runtime is a step of the operation protocol or leaves the
\* operation alone: what is shown of it alone holds under supervision.
LEMMA RunsOperation == ASSUME [RuntimeNext]_runtimeVars PROVE [Next]_vars
<1>1. ASSUME NEW l \in Listeners,
             Listen(l) \/ AcceptEnds(l) \/ \E c \in Connections : Accept(l, c) \/ Send(l, c)
      PROVE  UNCHANGED vars
  BY <1>1 DEF Listen, AcceptEnds, Accept, Send
<1>2. ASSUME NEW j \in Spawned, Spawn(j) PROVE UNCHANGED vars
  BY <1>2 DEF Spawn
<1>3. ASSUME NEW c \in Connections, HandOff(c) \/ ClaimConnection(c) PROVE UNCHANGED vars
  BY <1>3 DEF HandOff, ClaimConnection
<1>4. ASSUME NEW j \in Jobs, JobEnds(j) PROVE UNCHANGED vars
  BY <1>4 DEF JobEnds
<1>5. CASE Receive
  BY <1>5 DEF Receive, ReceiveListener, ReceiveJob, ReceiveOperation, Next
<1>6. CASE OperationTask \/ OperationStep
  BY <1>6 DEF OperationTask, OperationStep, Next
<1>7. CASE DropOwner
  BY <1>7 DEF DropOwner
<1>8. CASE Shutdown
  <2>1. UNCHANGED vars \/ TaskAborted
    BY <1>8 DEF Shutdown, LoopEnds, ListenersEnded, AbortOperation, WorkerEnds, Joined,
                AbortListener, AbortJob
  <2> QED BY <2>1 DEF Next
<1>9. CASE UNCHANGED runtimeVars
  BY <1>9 DEF runtimeVars
<1> QED
  BY <1>1, <1>2, <1>3, <1>4, <1>5, <1>6, <1>7, <1>8, <1>9 DEF RuntimeNext, RuntimeOver

\* A task in flight stays in flight or ends: only the worker starts it.
LEMMA OperationTaskMoves ==
  ASSUME OperationTask \/ OperationStep \/ AbortOperation
  PROVE  /\ task = "queued" <=> task' = "queued"
         /\ OperationRuns' => OperationRuns
         /\ UNCHANGED <<supervisorVars, taskVars>>
BY DEF OperationTask, OperationStep, AbortOperation, TaskCancelled, TaskFinish, TaskAborted,
       Produce, SendWrap, SendSwap, SendPush, SendWake, ReleaseClone, DropClose, DropWake,
       FailSwap, FailPush, FailWake, Poll, CancelSend, CancelClose, CancelDrain, OperationRuns

-----------------------------------------------------------------------------
(* Budgets.                                                                *)

\* Fewer tasks of a protocol fit the same budget.
LEMMA FewerFit ==
  ASSUME BudgetInv, active' = active, \A p \in Protocols : Running(p)' \subseteq Running(p)
  PROVE  BudgetInv'
<1>1. ASSUME NEW p \in Protocols
      PROVE  /\ IsFiniteSet(Running(p)') /\ Cardinality(Running(p)') <= active[p]
             /\ \A j \in Running(p)' : Limit[j] = active[p]
  <2>1. IsFiniteSet(Running(p)) /\ Cardinality(Running(p)) <= active[p]
        /\ \A j \in Running(p) : Limit[j] = active[p]
    BY DEF BudgetInv, BudgetIsShared
  <2>2. IsFiniteSet(Running(p)') /\ Cardinality(Running(p)') <= Cardinality(Running(p))
    BY <2>1, FS_Subset
  <2>3. Cardinality(Running(p)') \in Nat /\ Cardinality(Running(p)) \in Nat /\ active[p] \in Nat
    BY <2>1, <2>2, FS_CardinalityType DEF BudgetInv
  <2> QED BY <2>1, <2>2, <2>3
<1> QED BY <1>1 DEF BudgetInv, BudgetIsShared

LEMMA OwnProtocol ==
  /\ \A j \in Jobs \union {Operation} :
       Protocol[j] \in Protocols /\ Limit[j] \in Nat \ {0}
  /\ Operation \notin Jobs
BY RuntimeAssumption DEF Protocols

\* The worker receives job or operation j, registers the protocol's budget, and
\* starts j if there is room in it.
LEMMA StartFits ==
  ASSUME BudgetInv, NEW j \in Jobs \union {Operation}, Registers(j),
         \A p \in Protocols : Running(p)' \subseteq
           Running(p) \union {k \in {j} : Starts(j) /\ Protocol[j] = p}
  PROVE  BudgetInv'
<1> DEFINE q == Protocol[j]
<1>1. q \in Protocols /\ Limit[j] \in Nat \ {0} BY OwnProtocol
<1>2. active \in [Protocols -> Nat] BY DEF BudgetInv
<1>3. active' \in [Protocols -> Nat] /\ \A p \in Protocols : p # q => active'[p] = active[p]
  BY <1>1, <1>2 DEF Registers, Entry
<1>4. active[q] # 0 => active'[q] = active[q]
  BY <1>1, <1>2 DEF Registers, Entry
<1>5. ASSUME NEW p \in Protocols
      PROVE  /\ IsFiniteSet(Running(p)') /\ Cardinality(Running(p)') <= active'[p]
             /\ \A k \in Running(p)' : Limit[k] = active'[p]
  <2>1. IsFiniteSet(Running(p)) /\ Cardinality(Running(p)) <= active[p]
        /\ \A k \in Running(p) : Limit[k] = active[p]
    BY DEF BudgetInv, BudgetIsShared
  <2>2. Cardinality(Running(p)) \in Nat /\ active[p] \in Nat /\ active'[p] \in Nat
    BY <1>2, <1>3, <2>1, FS_CardinalityType
  <2>3. active[p] = 0 => Running(p) = {}
    BY <2>1, <2>2, FS_EmptySet
  <2>4. CASE ~(Starts(j) /\ q = p)
    <3>1. Running(p)' \subseteq Running(p) BY <2>4
    <3>2. IsFiniteSet(Running(p)') /\ Cardinality(Running(p)') <= Cardinality(Running(p))
      BY <2>1, <3>1, FS_Subset
    <3>3. Cardinality(Running(p)') \in Nat BY <3>2, FS_CardinalityType
    <3>4. CASE active[p] # 0
      <4>1. active'[p] = active[p] BY <1>3, <1>4, <3>4
      <4> QED BY <2>1, <2>2, <3>1, <3>2, <3>3, <4>1
    <3>5. CASE active[p] = 0
      <4>1. Running(p)' = {} /\ Cardinality(Running(p)') = 0 BY <2>3, <3>1, <3>5, FS_EmptySet
      <4> QED BY <2>2, <3>2, <4>1
    <3> QED BY <3>4, <3>5
  <2>5. CASE Starts(j) /\ q = p
    <3>1. /\ Entry(j) = Limit[j] /\ Cardinality(Running(p)) < Entry(j)
          /\ active' = [active EXCEPT ![q] = Entry(j)]
      BY <2>5 DEF Starts, Registers
    <3>2. active'[p] = Limit[j] BY <1>1, <1>2, <2>5, <3>1
    <3>3. \A k \in Running(p) : Limit[k] = active'[p]
      <4>1. CASE active[p] # 0 BY <1>4, <2>1, <2>5, <4>1
      <4>2. CASE active[p] = 0 BY <2>3, <4>2
      <4> QED BY <4>1, <4>2
    <3>4. Running(p)' \subseteq Running(p) \union {j} BY <2>5
    <3>5. /\ IsFiniteSet(Running(p) \union {j})
          /\ Cardinality(Running(p) \union {j}) <= Cardinality(Running(p)) + 1
      <4>1. /\ IsFiniteSet(Running(p) \union {j})
            /\ \/ Cardinality(Running(p) \union {j}) = Cardinality(Running(p))
               \/ Cardinality(Running(p) \union {j}) = Cardinality(Running(p)) + 1
        BY <2>1, FS_AddElement
      <4> QED BY <2>2, <4>1
    <3>6. /\ IsFiniteSet(Running(p)')
          /\ Cardinality(Running(p)') <= Cardinality(Running(p) \union {j})
      BY <3>4, <3>5, FS_Subset
    <3>7. Cardinality(Running(p)') \in Nat /\ Cardinality(Running(p) \union {j}) \in Nat
      BY <3>5, <3>6, FS_CardinalityType
    <3>8. Cardinality(Running(p)') <= active'[p] BY <1>1, <2>2, <3>1, <3>2, <3>5, <3>6, <3>7
    <3> QED BY <3>2, <3>3, <3>4, <3>6, <3>8
  <2> QED BY <2>4, <2>5
<1> QED BY <1>3, <1>5 DEF BudgetInv, BudgetIsShared

\* What a step of the runtime can do to the places of the jobs.
LEMMA BudgetPreserved ==
  ASSUME BudgetInv, place \in [Jobs -> Places], [RuntimeNext]_runtimeVars
  PROVE  BudgetInv'
<1> SUFFICES BudgetInv' OBVIOUS
<1>0. ASSUME active' = active, task' = task \/ (OperationRuns' => OperationRuns),
             \A j \in Jobs : place'[j] = "running" => place[j] = "running"
      PROVE  BudgetInv'
  <2>1. OperationRuns' => OperationRuns BY <1>0 DEF OperationRuns
  <2>2. \A p \in Protocols : Running(p)' \subseteq Running(p) BY <1>0, <2>1 DEF Running
  <2> QED BY <1>0, <2>2, FewerFit
<1>b. ASSUME NEW at \in [Jobs -> Places], NEW state, Become(at, state), active' = active, task' = task,
             \A j \in Jobs : at[j] = "running" => place[j] = "running"
      PROVE  BudgetInv'
  <2>1. \A j \in Jobs : place'[j] = "running" => place[j] = "running"
    BY <1>b, SettledFacts DEF Become
  <2> QED BY <1>0, <1>b, <2>1
<1> USE DEF vars, taskVars, supervisorVars
<1>1. ASSUME NEW l \in Listeners, Listen(l) \/ AcceptEnds(l) PROVE BudgetInv'
  <2>1. CASE Listen(l) BY <1>0, <2>1 DEF Listen
  <2>2. CASE AcceptEnds(l) BY <1>b, <2>2 DEF AcceptEnds
  <2> QED BY <1>1, <2>1, <2>2
<1>2. ASSUME NEW l \in Listeners, NEW c \in Connections, Accept(l, c) \/ Send(l, c)
      PROVE  BudgetInv'
  <2>1. CASE Accept(l, c) BY <1>0, <2>1 DEF Accept
  <2>2. CASE Send(l, c)
    <3>1. CASE Room /\ place' = [place EXCEPT ![c] = "queued"]
      BY <1>0, <2>2, <3>1 DEF Send
    <3>2. CASE Become([place EXCEPT ![c] = "dropped"], [listener EXCEPT ![l] = "ended"])
      <4> DEFINE at == [place EXCEPT ![c] = "dropped"]
      <4>1. at \in [Jobs -> Places] /\ \A j \in Jobs : at[j] = "running" => place[j] = "running"
        BY DEF Places
      <4>2. active' = active /\ task' = task BY <2>2 DEF Send
      <4> HIDE DEF at
      <4> QED BY <1>b, <3>2, <4>1, <4>2 DEF at
    <3> QED BY <2>2, <3>1, <3>2 DEF Send
  <2> QED BY <1>2, <2>1, <2>2
<1>3. ASSUME NEW j \in Spawned, Spawn(j) PROVE BudgetInv'
  BY <1>0, <1>3 DEF Spawn
<1>4. ASSUME NEW j \in Jobs, NEW end \in {"handoff", "dropped"}, active' = active, task' = task,
             Become([place EXCEPT ![j] = end], listener)
      PROVE  BudgetInv'
  <2> DEFINE at == [place EXCEPT ![j] = end]
  <2>1. at \in [Jobs -> Places] /\ \A k \in Jobs : at[k] = "running" => place[k] = "running"
    BY DEF Places
  <2>2. Become(at, listener) BY <1>4
  <2> HIDE DEF at
  <2> QED BY <1>b, <1>4, <2>1, <2>2
<1>5. ASSUME NEW c \in Connections, HandOff(c) PROVE BudgetInv'
  <2>1. active' = active /\ task' = task BY <1>5 DEF HandOff
  <2>2. c \in Jobs BY DEF Jobs
  <2>3. \E end \in {"handoff", "dropped"} : Become([place EXCEPT ![c] = end], listener)
    BY <1>5 DEF HandOff
  <2> QED BY <1>4, <2>1, <2>2, <2>3
<1>6. ASSUME NEW c \in Connections, ClaimConnection(c) PROVE BudgetInv'
  BY <1>0, <1>6 DEF ClaimConnection
<1>7. ASSUME NEW j \in Jobs, JobEnds(j) \/ AbortJob(j) PROVE BudgetInv'
  BY <1>4, <1>7 DEF JobEnds, AbortJob
<1>8. ASSUME NEW l \in Listeners, ReceiveListener(l) PROVE BudgetInv'
  BY <1>0, <1>8 DEF ReceiveListener
<1>9. ASSUME NEW j \in Jobs, ReceiveJob(j) PROVE BudgetInv'
  <2> DEFINE at == [place EXCEPT ![j] = IF Starts(j) THEN "running" ELSE "dropped"]
  <2>1. /\ at \in [Jobs -> Places]
        /\ \A k \in Jobs : at[k] = "running" => (place[k] = "running" \/ (k = j /\ Starts(j)))
    BY DEF Places
  <2>2. Registers(j) /\ Become(at, listener) /\ task' = task BY <1>9 DEF ReceiveJob
  <2> HIDE DEF at
  <2>3. \A k \in Jobs : place'[k] = "running" => at[k] = "running"
    BY <2>1, <2>2, SettledFacts DEF Become
  <2>4. \A p \in Protocols : Running(p)' \subseteq
           Running(p) \union {k \in {j} : Starts(j) /\ Protocol[j] = p}
    BY <2>1, <2>2, <2>3 DEF Running, OperationRuns
  <2> QED BY <2>2, <2>4, StartFits
<1>10. CASE ReceiveOperation
  <2>1. Registers(Operation) /\ place' = place BY <1>10 DEF ReceiveOperation
  <2>2. OperationRuns' => Starts(Operation)
    BY <1>10 DEF ReceiveOperation, TaskStart, TaskRefused, OperationRuns
  <2>3. \A p \in Protocols : Running(p)' \subseteq
           Running(p) \union {k \in {Operation} : Starts(Operation) /\ Protocol[Operation] = p}
    BY <2>1, <2>2 DEF Running
  <2> QED BY <2>1, <2>3, StartFits
<1>11. CASE OperationTask \/ OperationStep \/ AbortOperation
  BY <1>0, <1>11, OperationTaskMoves
<1>12. ASSUME NEW l \in Listeners, AbortListener(l) PROVE BudgetInv'
  <2> DEFINE at == [j \in Jobs |-> IF j \in Connections /\ via[j] = l /\ place[j] = "carried"
                              THEN "dropped" ELSE place[j]]
             state == [listener EXCEPT ![l] = "ended"]
  <2>1. at \in [Jobs -> Places] /\ \A j \in Jobs : at[j] = "running" => place[j] = "running"
    BY DEF Places
  <2>2. Become(at, state) /\ active' = active /\ task' = task BY <1>12 DEF AbortListener
  <2> HIDE DEF at, state
  <2> QED BY <1>b, <2>1, <2>2
<1>13. CASE DropOwner \/ LoopEnds \/ ListenersEnded \/ WorkerEnds \/ Joined \/ UNCHANGED runtimeVars
  BY <1>0, <1>13 DEF DropOwner, LoopEnds, ListenersEnded, WorkerEnds, Joined, runtimeVars
<1> QED
  BY <1>1, <1>2, <1>3, <1>5, <1>6, <1>7, <1>8, <1>9, <1>10, <1>11, <1>12, <1>13
     DEF RuntimeNext, Receive, Shutdown, RuntimeOver

-----------------------------------------------------------------------------
(* The supervisor.                                                         *)

States == {"idle", "queued", "accepting", "sending", "ended"}

\* A step that moves jobs and then drops the handoffs nobody can use.
LEMMA BecomeSettles ==
  ASSUME NEW at \in [Jobs -> Places], NEW state \in [Listeners -> States],
         Become(at, state), via' = via, Accepted(at, state)
  PROVE  /\ place' \in [Jobs -> Places] /\ listener' = state
         /\ ConnectionInv'
         /\ \A j \in Jobs : \/ place'[j] = at[j]
                            \/ at[j] = "handoff" /\ place'[j] = "dropped"
<1>1. place' = Settled(at, state) /\ listener' = state BY DEF Become
<1>2. /\ place' \in [Jobs -> Places]
      /\ \A j \in Jobs : \/ place'[j] = at[j]
                         \/ at[j] = "handoff" /\ place'[j] = "dropped"
      /\ \A j \in Jobs : place'[j] = "handoff" /\ state[via[j]] = "ended" =>
           \E d \in Connections : via[d] = via[j] /\ place'[d] \in {"queued", "running"}
  BY <1>1, SettledFacts
<1>3. Connections \subseteq Jobs BY DEF Jobs
<1>4. HandoffInUse' BY <1>1, <1>2, <1>3 DEF HandoffInUse
<1>5. Accepted(place', listener') BY <1>1, <1>2, <1>3 DEF Accepted
<1>6. Accepted(place, listener)' BY <1>5 DEF Accepted
<1> QED BY <1>1, <1>2, <1>4, <1>6 DEF ConnectionInv

\* Listen and spawn, from outside the worker.
LEMMA SubmissionsKept ==
  ASSUME RuntimeInv,
         \/ \E l \in Listeners : Listen(l)
         \/ \E j \in Spawned : Spawn(j)
  PROVE  RuntimeInv'
<1> DEFINE Commands == Listeners \union Jobs \union {Operation}
<1>0. /\ commands \in Seq(Commands) /\ NoRepeats(commands)
      /\ listener \in [Listeners -> States] /\ place \in [Jobs -> Places]
      /\ Jobs \intersect Listeners = {} /\ Operation \notin Jobs \union Listeners
      /\ Spawned \subseteq Jobs /\ Connections \subseteq Jobs /\ Spawned \intersect Connections = {}
  BY RuntimeAssumption DEF RuntimeInv, RuntimeTypes, QueueInv, States, Jobs
<1> USE DEF vars
<1>1. ASSUME NEW l \in Listeners, Listen(l) PROVE RuntimeInv'
  <2>1. /\ listener[l] = "idle" /\ ~closed /\ commands' = Append(commands, l)
        /\ listener' = [listener EXCEPT ![l] = "queued"]
        /\ UNCHANGED <<task, application, closed, worker, place, via, active>>
    BY <1>1 DEF Listen, Room
  <2>2. worker = "loop" BY <2>1 DEF RuntimeInv, QueueInv
  <2>3. ~Waits(l, commands) BY <2>1 DEF RuntimeInv, QueueInv
  <2>4. /\ commands' \in Seq(Commands) /\ NoRepeats(commands')
        /\ \A y : Waits(y, commands') <=> Waits(y, commands) \/ y = l
    BY <1>0, <2>1, <2>3, Submitted
  <2>5. RuntimeTypes' BY <1>0, <2>1, <2>4 DEF RuntimeInv, RuntimeTypes
  <2>6. QueueInv' BY <1>0, <2>1, <2>2, <2>4 DEF RuntimeInv, QueueInv
  <2>7. PhaseInv' BY <2>1, <2>2 DEF PhaseInv
  <2>8. ConnectionInv'
    BY <1>0, <2>1 DEF RuntimeInv, ConnectionInv, Accepted, HandoffInUse
  <2> QED BY <2>5, <2>6, <2>7, <2>8 DEF RuntimeInv
<1>2. ASSUME NEW j \in Spawned, Spawn(j) PROVE RuntimeInv'
  <2>1. /\ place[j] = "outside" /\ j \in Jobs /\ j \notin Connections
        /\ UNCHANGED <<task, application, closed, worker, listener, via, active>>
    BY <1>0, <1>2 DEF Spawn
  <2>2. CASE Room
    <3>1. ~closed /\ commands' = Append(commands, j) /\ place' = [place EXCEPT ![j] = "queued"]
      BY <1>2, <2>2 DEF Spawn, Room
    <3>2. worker = "loop" BY <3>1 DEF RuntimeInv, QueueInv
    <3>3. ~Waits(j, commands) BY <2>1 DEF RuntimeInv, QueueInv
    <3>4. /\ commands' \in Seq(Commands) /\ NoRepeats(commands')
          /\ \A y : Waits(y, commands') <=> Waits(y, commands) \/ y = j
      BY <1>0, <2>1, <3>1, <3>3, Submitted
    <3>5. RuntimeTypes' BY <1>0, <2>1, <3>1, <3>4 DEF RuntimeInv, RuntimeTypes, Places
    <3>6. QueueInv' BY <1>0, <2>1, <3>1, <3>2, <3>4 DEF RuntimeInv, QueueInv
    <3>7. PhaseInv' BY <2>1, <3>2 DEF PhaseInv
    <3>8. ConnectionInv'
      BY <1>0, <2>1, <3>1 DEF RuntimeInv, ConnectionInv, Accepted, HandoffInUse
    <3> QED BY <3>5, <3>6, <3>7, <3>8 DEF RuntimeInv
  <2>3. CASE ~Room
    <3>1. commands' = commands /\ place' = [place EXCEPT ![j] = "dropped"]
      BY <1>2, <2>3 DEF Spawn
    <3>2. RuntimeTypes' BY <1>0, <2>1, <3>1 DEF RuntimeInv, RuntimeTypes, Places
    <3>3. QueueInv' BY <1>0, <2>1, <3>1 DEF RuntimeInv, QueueInv
    <3>4. PhaseInv' BY <1>0, <2>1, <3>1 DEF RuntimeInv, PhaseInv, OperationRuns
    <3>5. ConnectionInv'
      BY <1>0, <2>1, <3>1 DEF RuntimeInv, ConnectionInv, Accepted, HandoffInUse
    <3> QED BY <3>2, <3>3, <3>4, <3>5 DEF RuntimeInv
  <2> QED BY <2>2, <2>3
<1> QED BY <1>1, <1>2

\* A listener accepts a connection, sends it to the worker, or ends.
LEMMA ListenersKept ==
  ASSUME RuntimeInv, NEW l \in Listeners,
         AcceptEnds(l) \/ \E c \in Connections : Accept(l, c) \/ Send(l, c)
  PROVE  RuntimeInv'
<1> DEFINE Commands == Listeners \union Jobs \union {Operation}
<1>0. /\ commands \in Seq(Commands) /\ NoRepeats(commands)
      /\ listener \in [Listeners -> States] /\ place \in [Jobs -> Places]
      /\ via \in [Connections -> Listeners \union {None}]
      /\ Jobs \intersect Listeners = {} /\ Operation \notin Jobs \union Listeners
      /\ Connections \subseteq Jobs /\ Accepted(place, listener)
  BY RuntimeAssumption DEF RuntimeInv, RuntimeTypes, QueueInv, States, Jobs, ConnectionInv
<1> USE DEF vars, supervisorVars
\* No connection is carried by a listener that accepts.
<1>a. listener[l] = "accepting" =>
        \A c \in Connections : place[c] = "carried" => via[c] # l
  BY <1>0 DEF Accepted
<1>1. CASE AcceptEnds(l)
  <2> DEFINE state == [listener EXCEPT ![l] = "ended"]
  <2>1. /\ worker = "loop" /\ listener[l] = "accepting" /\ Become(place, state)
        /\ UNCHANGED <<task, application, commands, closed, worker, via, active>>
    BY <1>1 DEF AcceptEnds
  <2>2. state \in [Listeners -> States] BY <1>0 DEF States
  <2>3. Accepted(place, state) BY <1>0, <1>a, <2>1 DEF Accepted
  <2>4. \A m \in Listeners : state[m] = "queued" <=> listener[m] = "queued" BY <1>0, <2>1
  <2> HIDE DEF state
  <2>5. /\ place' \in [Jobs -> Places] /\ listener' = state /\ ConnectionInv'
        /\ \A j \in Jobs : place'[j] = "queued" <=> place[j] = "queued"
    BY <1>0, <2>1, <2>2, <2>3, BecomeSettles
  <2>6. RuntimeTypes' BY <2>1, <2>2, <2>5 DEF RuntimeInv, RuntimeTypes, States
  <2>7. QueueInv' BY <2>1, <2>4, <2>5 DEF RuntimeInv, QueueInv
  <2>8. PhaseInv' BY <2>1 DEF PhaseInv
  <2> QED BY <2>5, <2>6, <2>7, <2>8 DEF RuntimeInv
<1>2. ASSUME NEW c \in Connections, Accept(l, c) PROVE RuntimeInv'
  <2>1. /\ worker = "loop" /\ listener[l] = "accepting" /\ place[c] = "outside" /\ c \in Jobs
        /\ UNCHANGED <<task, application, commands, closed, worker, active>>
    BY <1>0, <1>2 DEF Accept
  <2>2. CASE /\ place' = [place EXCEPT ![c] = "carried"] /\ via' = [via EXCEPT ![c] = l]
             /\ listener' = [listener EXCEPT ![l] = "sending"]
    <3>1. RuntimeTypes' BY <1>0, <2>1, <2>2 DEF RuntimeInv, RuntimeTypes, Places, States
    <3>2. QueueInv' BY <1>0, <2>1, <2>2 DEF RuntimeInv, QueueInv
    <3>3. PhaseInv' BY <2>1 DEF PhaseInv
    <3>4. Accepted(place, listener)' BY <1>0, <1>a, <2>1, <2>2 DEF Accepted
    <3>5. HandoffInUse'
      <4> SUFFICES ASSUME NEW d \in Connections, place'[d] = "handoff", listener'[via'[d]] = "ended"
                   PROVE  \E e \in Connections : via'[e] = via'[d] /\ place'[e] \in {"queued", "running"}
        BY DEF HandoffInUse
      <4>1. d # c /\ via'[d] = via[d] /\ place[d] = "handoff" BY <1>0, <2>1, <2>2
      <4>2. via[d] \in Listeners BY <1>0, <4>1 DEF Accepted
      <4>3. listener[via[d]] = "ended" BY <1>0, <2>1, <2>2, <4>1, <4>2
      <4>4. PICK e \in Connections : via[e] = via[d] /\ place[e] \in {"queued", "running"}
        BY <4>1, <4>3 DEF RuntimeInv, ConnectionInv, HandoffInUse
      <4>5. e # c BY <2>1, <4>4
      <4> QED BY <1>0, <2>2, <4>1, <4>4, <4>5
    <3> QED BY <3>1, <3>2, <3>3, <3>4, <3>5 DEF RuntimeInv, ConnectionInv
  <2>3. CASE place' = [place EXCEPT ![c] = "dropped"] /\ UNCHANGED <<via, listener>>
    <3>1. RuntimeTypes' BY <1>0, <2>1, <2>3 DEF RuntimeInv, RuntimeTypes, Places
    <3>2. QueueInv' BY <1>0, <2>1, <2>3 DEF RuntimeInv, QueueInv
    <3>3. PhaseInv' BY <2>1 DEF PhaseInv
    <3>4. Accepted(place, listener)' BY <1>0, <2>1, <2>3 DEF Accepted
    <3>5. HandoffInUse' BY <1>0, <2>1, <2>3 DEF RuntimeInv, ConnectionInv, HandoffInUse
    <3> QED BY <3>1, <3>2, <3>3, <3>4, <3>5 DEF RuntimeInv, ConnectionInv
  <2> QED BY <1>2, <2>2, <2>3 DEF Accept
<1>3. ASSUME NEW c \in Connections, Send(l, c) PROVE RuntimeInv'
  <2>1. /\ worker = "loop" /\ listener[l] = "sending" /\ place[c] = "carried" /\ via[c] = l
        /\ c \in Jobs
        /\ UNCHANGED <<task, application, closed, worker, via, active>>
    BY <1>0, <1>3 DEF Send
  <2>2. \A d \in Connections : place[d] = "carried" /\ via[d] = l => d = c
    BY <1>0, <2>1 DEF Accepted
  <2>3. CASE /\ commands' = Append(commands, c) /\ place' = [place EXCEPT ![c] = "queued"]
             /\ listener' = [listener EXCEPT ![l] = "accepting"]
    <3>1. ~Waits(c, commands) BY <2>1 DEF RuntimeInv, QueueInv
    <3>2. /\ commands' \in Seq(Commands) /\ NoRepeats(commands')
          /\ \A y : Waits(y, commands') <=> Waits(y, commands) \/ y = c
      BY <1>0, <2>1, <2>3, <3>1, Submitted
    <3>3. RuntimeTypes' BY <1>0, <2>1, <2>3, <3>2 DEF RuntimeInv, RuntimeTypes, Places, States
    <3>4. QueueInv' BY <1>0, <2>1, <2>3, <3>2 DEF RuntimeInv, QueueInv
    <3>5. PhaseInv' BY <2>1 DEF PhaseInv
    <3>6. Accepted(place, listener)' BY <1>0, <2>1, <2>2, <2>3 DEF Accepted
    <3>7. HandoffInUse'
      BY <1>0, <2>1, <2>3 DEF RuntimeInv, ConnectionInv, Accepted, HandoffInUse
    <3> QED BY <3>3, <3>4, <3>5, <3>6, <3>7 DEF RuntimeInv, ConnectionInv
  <2>4. CASE /\ UNCHANGED commands
             /\ Become([place EXCEPT ![c] = "dropped"], [listener EXCEPT ![l] = "ended"])
    <3> DEFINE at == [place EXCEPT ![c] = "dropped"]
               state == [listener EXCEPT ![l] = "ended"]
    <3>1. at \in [Jobs -> Places] /\ state \in [Listeners -> States] /\ Become(at, state)
      BY <1>0, <2>4 DEF Places, States
    <3>2. Accepted(at, state) BY <1>0, <2>1, <2>2 DEF Accepted
    <3>3. /\ \A m \in Listeners : state[m] = "queued" <=> listener[m] = "queued"
          /\ \A j \in Jobs : at[j] = "queued" <=> place[j] = "queued"
      BY <1>0, <2>1
    <3> HIDE DEF at, state
    <3>4. /\ place' \in [Jobs -> Places] /\ listener' = state /\ ConnectionInv'
          /\ \A j \in Jobs : place'[j] = "queued" <=> place[j] = "queued"
      BY <2>1, <3>1, <3>2, <3>3, BecomeSettles
    <3>5. RuntimeTypes' BY <2>1, <2>4, <3>1, <3>4 DEF RuntimeInv, RuntimeTypes, States
    <3>6. QueueInv' BY <2>1, <2>4, <3>3, <3>4 DEF RuntimeInv, QueueInv
    <3>7. PhaseInv' BY <2>1 DEF PhaseInv
    <3> QED BY <3>4, <3>5, <3>6, <3>7 DEF RuntimeInv
  <2> QED BY <1>3, <2>3, <2>4 DEF Send
<1> QED BY <1>1, <1>2, <1>3

\* The worker takes a command out of the queue.
LEMMA ReceiveKept ==
  ASSUME RuntimeInv, active' \in [Protocols -> Nat], Receive
  PROVE  RuntimeInv'
<1> DEFINE Commands == Listeners \union Jobs \union {Operation}
<1>0. /\ commands \in Seq(Commands) /\ NoRepeats(commands)
      /\ listener \in [Listeners -> States] /\ place \in [Jobs -> Places]
      /\ Jobs \intersect Listeners = {} /\ Operation \notin Jobs \union Listeners
      /\ Connections \subseteq Jobs /\ Accepted(place, listener)
  BY RuntimeAssumption DEF RuntimeInv, RuntimeTypes, QueueInv, States, Jobs, ConnectionInv
<1> USE DEF vars
<1>1. ASSUME NEW x, Received(x)
      PROVE  /\ worker = "loop" /\ commands' \in Seq(Commands) /\ NoRepeats(commands')
             /\ Waits(x, commands)
             /\ \A y : Waits(y, commands') <=> Waits(y, commands) /\ y # x
  BY <1>0, <1>1, TakenOut DEF Received
<1>2. ASSUME NEW l \in Listeners, ReceiveListener(l) PROVE RuntimeInv'
  <2>1. /\ Received(l) /\ listener' = [listener EXCEPT ![l] = "accepting"]
        /\ UNCHANGED <<task, application, closed, worker, place, via, active>>
    BY <1>2 DEF ReceiveListener
  <2>2. listener[l] = "queued" BY <1>1, <2>1 DEF RuntimeInv, QueueInv
  <2>3. RuntimeTypes' BY <1>0, <1>1, <2>1 DEF RuntimeInv, RuntimeTypes, States
  <2>4. QueueInv' BY <1>0, <1>1, <2>1 DEF RuntimeInv, QueueInv
  <2>5. PhaseInv' BY <1>1, <2>1 DEF PhaseInv
  <2>6. Accepted(place, listener)' BY <1>0, <2>1, <2>2 DEF Accepted
  <2>7. HandoffInUse'
    BY <1>0, <2>1, <2>2 DEF RuntimeInv, ConnectionInv, Accepted, HandoffInUse
  <2> QED BY <2>3, <2>4, <2>5, <2>6, <2>7 DEF RuntimeInv, ConnectionInv
<1>3. ASSUME NEW j \in Jobs, ReceiveJob(j) PROVE RuntimeInv'
  <2> DEFINE at == [place EXCEPT ![j] = IF Starts(j) THEN "running" ELSE "dropped"]
  <2>1. /\ Received(j) /\ Become(at, listener)
        /\ UNCHANGED <<task, application, closed, worker, via>>
    BY <1>3 DEF ReceiveJob
  <2>2. place[j] = "queued" BY <1>1, <2>1 DEF RuntimeInv, QueueInv
  <2>3. at \in [Jobs -> Places] BY <1>0 DEF Places
  <2>4. \A k \in Jobs : at[k] = "queued" <=> place[k] = "queued" /\ k # j BY <1>0
  <2>5. Accepted(at, listener) BY <1>0, <2>2 DEF Accepted
  <2> HIDE DEF at
  <2>6. /\ place' \in [Jobs -> Places] /\ listener' = listener /\ ConnectionInv'
        /\ \A k \in Jobs : place'[k] = "queued" <=> at[k] = "queued"
    BY <1>0, <2>1, <2>3, <2>5, BecomeSettles
  <2>7. RuntimeTypes' BY <1>0, <1>1, <2>1, <2>6 DEF RuntimeInv, RuntimeTypes
  <2>8. QueueInv' BY <1>0, <1>1, <2>1, <2>4, <2>6 DEF RuntimeInv, QueueInv
  <2>9. PhaseInv' BY <1>1, <2>1 DEF PhaseInv
  <2> QED BY <2>6, <2>7, <2>8, <2>9 DEF RuntimeInv
<1>4. CASE ReceiveOperation
  <2>1. /\ Received(Operation) /\ task' # "queued"
        /\ UNCHANGED <<application, closed, worker, listener, place, via>>
    BY <1>4 DEF ReceiveOperation, TaskStart, TaskRefused
  <2>2. RuntimeTypes' BY <1>0, <1>1, <2>1 DEF RuntimeInv, RuntimeTypes
  <2>3. QueueInv' BY <1>0, <1>1, <2>1 DEF RuntimeInv, QueueInv
  <2>4. PhaseInv' BY <1>1, <2>1 DEF PhaseInv
  <2>5. ConnectionInv' BY <2>1 DEF RuntimeInv, ConnectionInv, Accepted, HandoffInUse
  <2> QED BY <2>2, <2>3, <2>4, <2>5 DEF RuntimeInv
<1> QED BY <1>2, <1>3, <1>4 DEF Receive

\* The tasks end, are handed over, claimed or aborted.
LEMMA TasksKept ==
  ASSUME RuntimeInv,
         \/ \E c \in Connections : HandOff(c) \/ ClaimConnection(c)
         \/ \E j \in Jobs : JobEnds(j) \/ AbortJob(j)
         \/ OperationTask \/ OperationStep \/ AbortOperation
  PROVE  RuntimeInv'
<1>0. /\ listener \in [Listeners -> States] /\ place \in [Jobs -> Places]
      /\ Connections \subseteq Jobs /\ Accepted(place, listener)
  BY DEF RuntimeInv, RuntimeTypes, States, Jobs, ConnectionInv
<1> USE DEF vars, supervisorVars, taskVars
<1>1. ASSUME NEW j \in Jobs, place[j] = "running", NEW end \in {"handoff", "dropped"},
             end = "handoff" => j \in Connections,
             Become([place EXCEPT ![j] = end], listener),
             UNCHANGED <<task, application, commands, closed, worker, via, active>>
      PROVE  RuntimeInv'
  <2> DEFINE at == [place EXCEPT ![j] = end]
  <2>1. at \in [Jobs -> Places] /\ Become(at, listener) BY <1>0, <1>1 DEF Places
  <2>2. Accepted(at, listener) BY <1>0, <1>1 DEF Accepted
  <2>3. \A k \in Jobs : /\ at[k] = "queued" <=> place[k] = "queued"
                        /\ at[k] = "running" => place[k] = "running"
    BY <1>0, <1>1
  <2> HIDE DEF at
  <2>4. /\ place' \in [Jobs -> Places] /\ listener' = listener /\ ConnectionInv'
        /\ \A k \in Jobs : /\ place'[k] = "queued" <=> place[k] = "queued"
                           /\ place'[k] = "running" => place[k] = "running"
    BY <1>0, <1>1, <2>1, <2>2, <2>3, BecomeSettles
  <2>5. RuntimeTypes' BY <1>1, <2>4 DEF RuntimeInv, RuntimeTypes
  <2>6. QueueInv' BY <1>1, <2>4 DEF RuntimeInv, QueueInv
  <2>7. PhaseInv' BY <1>1, <2>4 DEF RuntimeInv, PhaseInv, OperationRuns
  <2> QED BY <2>4, <2>5, <2>6, <2>7 DEF RuntimeInv
<1>2. ASSUME NEW c \in Connections, HandOff(c) PROVE RuntimeInv'
  <2>1. \E end \in {"handoff", "dropped"} : Become([place EXCEPT ![c] = end], listener)
    BY <1>2 DEF HandOff
  <2>2. place[c] = "running" /\ UNCHANGED <<task, application, commands, closed, worker, via, active>>
    BY <1>2 DEF HandOff
  <2> QED BY <1>0, <1>1, <2>1, <2>2
<1>3. ASSUME NEW j \in Jobs, JobEnds(j) \/ AbortJob(j) PROVE RuntimeInv'
  <2>1. /\ place[j] = "running" /\ Become([place EXCEPT ![j] = "dropped"], listener)
        /\ UNCHANGED <<task, application, commands, closed, worker, via, active>>
    BY <1>3 DEF JobEnds, AbortJob
  <2> QED BY <1>1, <2>1
<1>4. ASSUME NEW c \in Connections, ClaimConnection(c) PROVE RuntimeInv'
  <2>1. /\ c \in Jobs /\ place[c] = "handoff" /\ place' = [place EXCEPT ![c] = "claimed"]
        /\ UNCHANGED <<task, application, commands, closed, worker, listener, via, active>>
    BY <1>0, <1>4 DEF ClaimConnection
  <2>2. RuntimeTypes' BY <1>0, <2>1 DEF RuntimeInv, RuntimeTypes, Places
  <2>3. QueueInv' BY <1>0, <2>1 DEF RuntimeInv, QueueInv
  <2>4. PhaseInv' BY <1>0, <2>1 DEF RuntimeInv, PhaseInv, OperationRuns
  <2>5. Accepted(place, listener)' BY <1>0, <2>1 DEF Accepted
  <2>6. HandoffInUse' BY <1>0, <2>1 DEF RuntimeInv, ConnectionInv, HandoffInUse
  <2> QED BY <2>2, <2>3, <2>4, <2>5, <2>6 DEF RuntimeInv, ConnectionInv
<1>5. CASE OperationTask \/ OperationStep \/ AbortOperation
  <2>1. /\ task = "queued" <=> task' = "queued"
        /\ OperationRuns' => OperationRuns
        /\ UNCHANGED <<supervisorVars, taskVars>>
    BY <1>5, OperationTaskMoves
  <2>2. RuntimeTypes' BY <2>1 DEF RuntimeInv, RuntimeTypes
  <2>3. QueueInv' BY <2>1 DEF RuntimeInv, QueueInv
  <2>4. PhaseInv' BY <2>1 DEF RuntimeInv, PhaseInv
  <2>5. ConnectionInv' BY <2>1 DEF RuntimeInv, ConnectionInv, Accepted, HandoffInUse
  <2> QED BY <2>2, <2>3, <2>4, <2>5 DEF RuntimeInv
<1> QED BY <1>2, <1>3, <1>4, <1>5

\* The owner drops the runtime and the worker shuts down.
LEMMA ShutdownKept ==
  ASSUME RuntimeInv,
         \/ DropOwner \/ LoopEnds \/ ListenersEnded \/ WorkerEnds \/ Joined
         \/ UNCHANGED runtimeVars
         \/ \E l \in Listeners : AbortListener(l)
  PROVE  RuntimeInv'
<1>0. /\ listener \in [Listeners -> States] /\ place \in [Jobs -> Places]
      /\ Connections \subseteq Jobs /\ Accepted(place, listener)
  BY DEF RuntimeInv, RuntimeTypes, States, Jobs, ConnectionInv
<1> USE DEF vars, supervisorVars, taskVars
<1>1. ASSUME NEW l \in Listeners, AbortListener(l) PROVE RuntimeInv'
  <2> DEFINE at == [j \in Jobs |-> IF j \in Connections /\ via[j] = l /\ place[j] = "carried"
                              THEN "dropped" ELSE place[j]]
             state == [listener EXCEPT ![l] = "ended"]
  <2>1. /\ worker = "listeners" /\ listener[l] \in {"accepting", "sending"} /\ Become(at, state)
        /\ UNCHANGED <<task, application, commands, closed, worker, via, active>>
    BY <1>1 DEF AbortListener
  <2>2. at \in [Jobs -> Places] /\ state \in [Listeners -> States] BY <1>0 DEF Places, States
  <2>3. Accepted(at, state) BY <1>0 DEF Accepted
  <2>4. /\ \A m \in Listeners : state[m] = "queued" <=> listener[m] = "queued"
        /\ \A j \in Jobs : at[j] = "queued" <=> place[j] = "queued"
    BY <1>0, <2>1
  <2> HIDE DEF at, state
  <2>5. /\ place' \in [Jobs -> Places] /\ listener' = state /\ ConnectionInv'
        /\ \A j \in Jobs : place'[j] = "queued" <=> place[j] = "queued"
    BY <2>1, <2>2, <2>3, <2>4, BecomeSettles
  <2>6. RuntimeTypes' BY <2>1, <2>2, <2>5 DEF RuntimeInv, RuntimeTypes, States
  <2>7. QueueInv' BY <2>1, <2>4, <2>5 DEF RuntimeInv, QueueInv
  <2>8. PhaseInv' BY <2>1 DEF PhaseInv
  <2> QED BY <2>5, <2>6, <2>7, <2>8 DEF RuntimeInv
<1>2. CASE DropOwner \/ Joined \/ UNCHANGED runtimeVars
  <2>1. /\ UNCHANGED <<task, application, commands, worker, listener, place, via, active>>
        /\ closed' = closed \/ closed' = TRUE
    BY <1>2 DEF DropOwner, Joined, runtimeVars
  <2>2. RuntimeTypes' /\ QueueInv' BY <2>1 DEF RuntimeInv, RuntimeTypes, QueueInv
  <2>3. PhaseInv' BY <2>1 DEF RuntimeInv, PhaseInv, OperationRuns
  <2>4. ConnectionInv' BY <2>1 DEF RuntimeInv, ConnectionInv, Accepted, HandoffInUse
  <2> QED BY <2>2, <2>3, <2>4 DEF RuntimeInv
<1>3. CASE LoopEnds \/ ListenersEnded \/ WorkerEnds
  <2>1. /\ UNCHANGED <<task, application, closed, listener, place, via, active>>
        /\ commands' = <<>> /\ commands = <<>> /\ closed
        /\ worker' \in {"listeners", "jobs", "gone"}
    BY <1>3 DEF RuntimeInv, QueueInv, LoopEnds, ListenersEnded, WorkerEnds
  <2>2. RuntimeTypes' BY <2>1 DEF RuntimeInv, RuntimeTypes
  <2>3. QueueInv' BY <2>1 DEF RuntimeInv, QueueInv
  <2>4. ConnectionInv' BY <2>1 DEF RuntimeInv, ConnectionInv, Accepted, HandoffInUse
  <2>5. PhaseInv'
    <3>1. CASE LoopEnds BY <3>1 DEF LoopEnds, PhaseInv
    <3>2. CASE ListenersEnded BY <3>2 DEF ListenersEnded, PhaseInv
    <3>3. CASE WorkerEnds
      <4>1. worker = "jobs" /\ worker' = "gone" /\ \A p \in Protocols : Running(p) = {}
        BY <3>3 DEF WorkerEnds
      <4>2. ~OperationRuns /\ \A j \in Jobs : place[j] # "running"
        BY <4>1, OwnProtocol DEF Running
      <4> QED BY <2>1, <4>1, <4>2 DEF RuntimeInv, PhaseInv, OperationRuns
    <3> QED BY <1>3, <3>1, <3>2, <3>3
  <2> QED BY <2>2, <2>3, <2>4, <2>5 DEF RuntimeInv
<1> QED BY <1>1, <1>2, <1>3

-----------------------------------------------------------------------------
LEMMA RuntimeStarts == RuntimeInit => RuntimeInv /\ BudgetInv
<1> SUFFICES ASSUME RuntimeInit PROVE RuntimeInv /\ BudgetInv
  OBVIOUS
<1>0. /\ Jobs \intersect Listeners = {} /\ Operation \notin Jobs \union Listeners
      /\ Spawned \subseteq Jobs /\ Connections \subseteq Jobs /\ Spawned \intersect Connections = {}
  BY RuntimeAssumption DEF Jobs
<1>i. /\ task = "queued" /\ closed = FALSE /\ worker = "loop"
      /\ listener = [l \in Listeners |-> "idle"]
      /\ place = [j \in Jobs |-> IF commands # <<>> /\ j = Head(commands) THEN "queued" ELSE "outside"]
      /\ via = [c \in Connections |-> None]
      /\ active = [p \in Protocols |-> 0]
  BY DEF RuntimeInit, Init
<1>c. \/ ~application.operation /\ commands = <<>>
      \/ commands = <<Operation>>
      \/ \E j \in Spawned : commands = <<j, Operation>>
  BY DEF RuntimeInit
<1>1. RuntimeTypes
  <2>1. commands \in Seq(Listeners \union Jobs \union {Operation})
    <3>1. ASSUME NEW S, NEW x \in S, NEW y \in S
          PROVE  <<>> \in Seq(S) /\ <<x>> \in Seq(S) /\ <<x, y>> \in Seq(S)
      OBVIOUS
    <3> DEFINE S == Listeners \union Jobs \union {Operation}
    <3>2. Operation \in S /\ Spawned \subseteq S BY <1>0
    <3> HIDE DEF S
    <3>3. commands \in Seq(S) BY <1>c, <3>1, <3>2
    <3> QED BY <3>3 DEF S
  <2>2. place \in [Jobs -> Places] BY <1>i DEF Places
  <2> QED BY <1>i, <2>1, <2>2 DEF RuntimeTypes
<1>2. QueueInv
  <2>1. CASE ~application.operation /\ commands = <<>>
    <3>1. NoRepeats(commands) /\ \A y : ~Waits(y, commands) BY <2>1 DEF NoRepeats, Waits
    <3> QED BY <1>i, <2>1, <3>1 DEF QueueInv
  <2>2. CASE commands = <<Operation>>
    <3>1. Len(commands) = 1 /\ commands[1] = Operation /\ Head(commands) = Operation /\ commands # <<>>
      BY <2>2
    <3>2. NoRepeats(commands) /\ \A y : Waits(y, commands) <=> y = Operation
      BY <3>1 DEF NoRepeats, Waits
    <3> QED BY <1>0, <1>i, <3>1, <3>2 DEF QueueInv
  <2>3. ASSUME NEW j \in Spawned, commands = <<j, Operation>> PROVE QueueInv
    <3>1. /\ Len(commands) = 2 /\ commands[1] = j /\ commands[2] = Operation
          /\ Head(commands) = j /\ commands # <<>>
      BY <2>3
    <3>2. 1 .. 2 = {1, 2} OBVIOUS
    <3>3. NoRepeats(commands) BY <1>0, <3>1, <3>2 DEF NoRepeats
    <3>4. \A y : Waits(y, commands) <=> y = j \/ y = Operation BY <3>1, <3>2 DEF Waits
    <3> QED BY <1>0, <1>i, <3>1, <3>3, <3>4 DEF QueueInv
  <2> QED BY <1>c, <2>1, <2>2, <2>3
<1>3. PhaseInv BY <1>i DEF PhaseInv
<1>4. ConnectionInv
  <2>1. \A c \in Connections : place[c] = "outside"
    <3>1. \A c \in Connections : ~(commands # <<>> /\ c = Head(commands)) BY <1>0, <1>c
    <3> QED BY <1>0, <1>i, <3>1
  <2> QED BY <1>0, <1>i, <2>1 DEF ConnectionInv, Accepted, HandoffInUse
<1>5. BudgetInv
  <2>1. \A p \in Protocols : Running(p) = {} BY <1>i DEF Running, OperationRuns
  <2>2. IsFiniteSet({}) /\ Cardinality({}) = 0 BY FS_EmptySet
  <2>3. active \in [Protocols -> Nat] /\ \A p \in Protocols : active[p] = 0 BY <1>i
  <2> QED BY <2>1, <2>2, <2>3 DEF BudgetInv, BudgetIsShared
<1> QED BY <1>1, <1>2, <1>3, <1>4, <1>5 DEF RuntimeInv

LEMMA RuntimePreserved ==
  RuntimeInv /\ BudgetInv /\ [RuntimeNext]_runtimeVars => RuntimeInv' /\ BudgetInv'
<1> SUFFICES ASSUME RuntimeInv, BudgetInv, [RuntimeNext]_runtimeVars PROVE RuntimeInv' /\ BudgetInv'
  OBVIOUS
<1>1. BudgetInv' BY BudgetPreserved DEF RuntimeInv, RuntimeTypes
<1>2. active' \in [Protocols -> Nat] BY <1>1 DEF BudgetInv
<1>3. RuntimeInv'
  BY <1>2, SubmissionsKept, ListenersKept, ReceiveKept, TasksKept, ShutdownKept
     DEF RuntimeNext, Shutdown, RuntimeOver
<1> QED BY <1>1, <1>3

\* The operation keeps its promises under the supervisor: an execution of the
\* runtime is one of SessionOperation, whose theorems therefore apply to it.
THEOREM RuntimeImplementsOperation == RuntimeSpec => Spec
<1>1. RuntimeInit => Init BY DEF RuntimeInit
<1> QED BY <1>1, RunsOperation, PTL DEF RuntimeSpec, Spec

\* In the runtime, with its refused, aborted and never started tasks, every
\* resource of the operation has exactly one owner.
THEOREM SupervisedOwnership == RuntimeSpec => []ExactlyOneOwner
BY RuntimeImplementsOperation, SingleOwnership, PTL

\* And a claimed session is never told to stop by the operation it came from.
THEOREM SupervisedClaim == RuntimeSpec => []ClaimedNeverCancelled
BY RuntimeImplementsOperation, ClaimOutlivesHandle, PTL

\* And the operation in the runtime implements the one-result promise.
THEOREM SupervisedRefinement == RuntimeSpec => ImplementsSingleResult
BY RuntimeImplementsOperation, Refinement, PTL

\* However many listeners, services and operations use a protocol, no more of
\* its tasks run than the budget it was first used with, and none with another.
THEOREM SharedBudget == RuntimeSpec => []BudgetIsShared
<1>1. BudgetInv => BudgetIsShared BY DEF BudgetInv
<1> QED BY <1>1, RuntimeStarts, RuntimePreserved, PTL DEF RuntimeSpec

\* A worker that has ended has left nothing behind: no listener accepts, no task
\* runs or waits, and no accepted connection is left in a listener or a handoff.
THEOREM WorkerLeavesNothing == RuntimeSpec => []NothingOutlivesTheWorker
<1>1. RuntimeInv => NothingOutlivesTheWorker
  <2> SUFFICES ASSUME RuntimeInv, worker = "gone"
               PROVE  /\ \A l \in Listeners : listener[l] \in {"idle", "ended"}
                      /\ \A j \in Jobs : place[j] \in {"outside", "claimed", "dropped"}
                      /\ application.operation => task = "ended"
    BY DEF NothingOutlivesTheWorker
  <2>1. \A l \in Listeners : listener[l] \in {"idle", "ended"}
    BY DEF RuntimeInv, PhaseInv
  <2>2. \A y : ~Waits(y, commands) BY DEF RuntimeInv, QueueInv, Waits
  <2>3. \A j \in Jobs : place[j] \notin {"queued", "running"}
    BY <2>2 DEF RuntimeInv, QueueInv, PhaseInv
  <2>4. Connections \subseteq Jobs BY DEF Jobs
  <2>5. \A j \in Jobs : place[j] # "carried"
    BY <2>1 DEF RuntimeInv, ConnectionInv, Accepted
  <2>6. \A j \in Jobs : place[j] # "handoff"
    BY <2>1, <2>3, <2>4 DEF RuntimeInv, ConnectionInv, Accepted, HandoffInUse
  <2>7. \A j \in Jobs : place[j] \in {"outside", "claimed", "dropped"}
    BY <2>3, <2>5, <2>6 DEF RuntimeInv, RuntimeTypes, Places
  <2>8. application.operation => task = "ended"
    BY <2>2 DEF RuntimeInv, QueueInv, PhaseInv, OperationRuns
  <2> QED BY <2>1, <2>7, <2>8
<1> QED BY <1>1, RuntimeStarts, RuntimePreserved, PTL DEF RuntimeSpec
=============================================================================
