# A TLA+ model of weld

weld is a Wayland compositor that can *hoist* a window: the surfaces of a client
that runs on one machine are shown and used on another one, a phone, a headset or a second
desktop. The code is about 160 000 lines of Rust in 37 crates. This
project models the part where its correctness is hardest to test: the session
layer, with its shared ownership, trust and revocation; the hoist, two ends that
exchange surface events, input and video frames over bounded lanes and keep
encoders, decoders, queues and held input consistent while surfaces come, change and
go; the control of a local window by remote requests; the policy that sends windows away and brings them home; and the routing of
input on the machine itself.

Everything is written from the source. `PROJECT.json` maps every definition to
the lines it stands for.

## 1. The system and its parts

| part | state | operations | what makes it correct |
|---|---|---|---|
| **session operations**, `weld-session/operation.rs`, `lib.rs` | a one-slot result channel, a `published` flag, a cancel channel, the owner's handle | `send`, `fail`, drop of the last clone, `poll`, `wait`, `cancel`, the task wrapper of `start_operation` | a resource has one owner at a time; the owner is always told; cancelling retires what was made |
| **session runtime**, `weld-session/lib.rs` | a bounded command queue, listeners, tasks, one semaphore per protocol, handoff queues | `listen`, `spawn`, `start_operation`, the worker's loop, `handoff`, drop | budgets are shared by all bindings; shutdown ends, tells everybody and leaves no connection behind |
| **access authority**, `weld-access` | registered permits, the global latch, a `u64` identity counter | `open`, `end`, `revoke`, `revoke_all`, `allow_new_sessions` | a revoked permit is dead for ever; the latch leaves nobody authorized; who serves a revoked permit stops |
| **device pairing and admission**, `weld-hoist-core/session/pairing.rs`, `enrollment.rs`, `server.rs` | trusted devices, one invitation, revocations not yet saved, admissions, the device tasks | invite, claim, pending, approve, cancel, revoke, diagnostics, admit, join, leave, shutdown, restart | a live session's device is trusted with the grant it uses; trust is on disk before use; an invitation pairs once |
| **trust storage**, `weld-hoist-iroh/private_file.rs`, `pairing/storage.rs` | `devices.json` | `load`, `publish` (write, sync, rename, sync the directory) | what is reported saved survives a crash |
| **pending client events**, `weld-client/pending.rs`, `pending_order.rs` | one bounded queue over all surfaces | `push`, `try_push`, `pop_front` | coalescing loses no pixels, crosses no control and keeps a repainting client small |
| **encoded hoist source**, `weld-hoist-encoded/state.rs`, `output.rs`, `state/source_budget.rs` | pending events per surface, streams, the batch being encoded, two output lanes | submit, poll, schedule, complete, cancel, flush | order on the control lane; no encoder left behind; one batch behind the lane |
| **encoded hoist destination**, `state.rs` | event queues, frames arrived, decoded and cancelled, decode jobs, stream generations | receive, budget, decode with lookahead, present, cancel, retire | what is shown is what was committed; the budget blocks nobody for ever; contexts are released |
| **source and destination relay**, `weld-hoist-core/relay.rs`, `touch.rs` | cached surfaces, mappings and their sessions, held input, presentation claims, the cursor in flight | map, reserve, admit, replay, observe, withdraw, accept a message, fail, check access | sessions of the same surface do not mix; nothing stays pressed, claimed or unmapped; the cursor credit returns |
| **remote control**, `weld-remote-control/lib.rs`, `runtime.rs`, `runtime/sequence.rs`, `sequence.rs` | grants with an ownership epoch, a command queue, keys held per window, the pointer's position, one running sequence, inputs that await their receipt | grant, revoke, set_local_input, request, the adapter's turn, start, step and abort of a sequence | a takeover ends all remote input; what stays held was reported; an interruption leaves nothing unknown |
| **hoist orchestration**, `weld-hoist/lifecycle.rs` | one session per toplevel, families, placeholders, receivers | begin, bind, maintain and complete, once per frame | a window is in one place; a reclaimed family comes home |
| **client runtime routing**, `weld-client/adapter.rs`, `local_input.rs`, `touch.rs` | focus, captures, pending pointer route, gestures, contacts, retired edges | publish a route, focus, dispatch an edge, forget or hand off a surface, lose the host's focus | what began at a client ends there; the shell's wish wins as soon as nothing is held |
| **decode pool**, `weld-media/decode.rs` | jobs, generations, worker threads, command channels, retirement mailboxes, an event channel | `try_decode`, `retire`, `drain`, drop, `worker_loop` | every job answered once and in stream order; no wake lost; contexts bounded; drop ends |

The other parts (transports, view composition, codecs, compositor core, window management, layout, audio, recording, the shell
and the applications) are listed in `PROJECT.json` with the reason each is not
modelled, or is planned.

How they interact. A viewer connects through a transport; the trust worker admits
its device task, which holds a permit of the access authority; operations started by
the application run as supervised tasks and hand their resource over through an
`Operation`. An admitted session owns a relay pair. The source relay turns client
events into records for its encoded port; the port encodes pixels, sends
events on the control lane and frames on the media lane; the destination
port joins the two again, decodes through the decode pool and presents. Ending a
permit reaches the source relay at its next poll (`check_access`). Input travels the other
way: the viewer's client runtime routes it to the destination relay, the source relay
plays it at the local seat and keeps a ledger of what is held. A remote controller is another viewer: its adapter
owns a source relay and feeds it the messages that a destination would send. The hoist policy maps
and withdraws windows through the relay, for a remote endpoint or over the loopback.

What is hard: two threads and an atomic flag in an operation; revocation against
admission, failing writes and restarts; coalescing and cancelling commits that share
pixels with their predecessors; media that arrives after, or before, the control record
it belongs to, or never becomes relevant; bounded resources on both
ends that could wait for one another; a mailbox with a wake flag between an
owner and sleeping workers; input held while its target is withdrawn, destroyed or revoked, or changes hands; families
of windows that change while they travel. The list `hazards` in `PROJECT.json` gives the
line where each bites and the property that watches it.

## 2. Modules

```
SingleResult      <- refines -  SessionOperation   <- extends -  SessionRuntime  <- MCSessionRuntime
                                                                                          <- proofs  -  SessionRuntimeProofs
AccessAuthority   <- extends -  DeviceTrust        <- proofs  -  DeviceTrustProofs
                  <- proofs  -  DeviceTrustProofs
PendingEvents     <- extends -  PendingQueue       <- proofs  -  PendingQueueProofs
                                (checked in MCClientRouting)
                  <- extends -  EncodedSource      \
EncodedLanes      <- extends -  EncodedSource       > EncodedLink      <- MCEncodedLink
                  <- extends -  EncodedDestination /                   <- proofs  -  EncodedLinkProofs
RemoteInput       <- extends -  SourceRelay        \
                  <- extends -  DestinationRelay   /  RelayLink        <- MCRelayLink
                                                                       <- proofs  -  RelayLinkProofs
SourceRelay       <- extends -  RemoteControl                          <- MCRelayLink
KeyboardRouting, PointerRouting, PendingQueue      <- MCClientRouting
                  <- proofs  -  ClientRoutingProofs
HoistLifecycle    <- MCHoistLifecycle
                  <- proofs  -  HoistLifecycleProofs
DecodePool        <- MCDecodePool, DecodePoolProofs
```

* **SingleResult** is the promise of an operation: of all the resources its producers make the
  owner receives at most one, and a resource is retired exactly when the owner will never receive it.
* **SessionOperation** is the code: producers holding clones of the `Completion`, the
  supervised task, the owner. Every access to the flag, the result channel and
  the cancel channel is a step. `SendWrap/SendSwap/SendPush/SendWake` are the four parts
  of `Completion::send`, `CancelSend/CancelClose/CancelDrain` those of
  `Operation::cancel`, `DropClose/DropWake` the drop of the last clone.
* **SessionRuntime** puts that operation under the supervisor: the operation's task starts, is refused or
  aborted exactly when the worker does so, and every step of the runtime is a step of
  SessionOperation or leaves its variables alone. Listeners, spawned tasks and connections
  compete for the command queue and the budgets. `Settled` is `Queue::drop`: the last
  user of a handoff's handler empties its queue.
* **AccessAuthority**: `authorized` is the set of permits whose flag is set, `held`
  those somebody still holds, `sessions` the registry, whose entries outlive their permits
  until the next `open` prunes them. `Serve` and `ServiceRelays` are `with_access` and
  `check_access` of a relay.
* **DeviceTrust** composes the trust worker with the access registry. The worker
  handles one command at a time, so a handler is one step; device tasks, enrollment
  tasks, disconnections, expiry, failing saves and a crash of the host interleave with it.
  `Save` gives the outcomes of `publish`: nothing written, written, or
  written but reported as failed.
* **PendingEvents** is the ordering plan as operators (`Plan`, `Insert`, `Carry`);
  **PendingQueue** drives them with every sequence of pushes and pops and keeps the history the
  properties compare with.
* **EncodedLanes**, **EncodedSource**, **EncodedDestination**, **EncodedLink** are the
  hoist end to end. The code's helpers are operators from a port state to a
  port state, so that a call reads like its source; the loop of `schedule_at` is one
  step per iteration. `client` is what the source relay has cached, `shown`
  what the destination relay presents.
* **RemoteInput** is the ledger of held codes, contacts, frames and focus, with the local
  seat that plays effects; **SourceRelay** and **DestinationRelay** are the two adapters as operators
  on their states; **RelayLink** connects them by a lane each way, with the clients, the
  hoist commands, revocation from another thread and the user. On an encoded port a
  surface's own events may be held back while mappings, withdrawals and cursors pass: `Hold` is one
  submission to the port, `HoldEach` those of a call, and `ApplyEach` is a poll of the other end.
* **RemoteControl** is the adapter of the remote controller around a SourceRelay of its own. The host's thread
  takes turns (`phase`): `DrainEvents`, one `Take...` per command, one step of the sequence with the relay's poll
  (`EndDrain`), the clients' events, `Settle` and `Deliver`. Requests, revocations and deadlines come at any moment from other threads, and
  an ownership epoch is compared wherever the code compares it. MCRelayLink gives a
  window and its popup either a device or a controller as viewer.
* **HoistLifecycle** is one frame of the four systems of `lifecycle.rs`, in their order
  (`Begin`, `Bind`, `Maintain`, `Complete`), between the clients' and the endpoint's steps. A session's `bound` says whether it
  has a receiver and whether that entity is still there: one that appears later is another, though of the same toplevel.
* **KeyboardRouting** and **PointerRouting** are the two halves of the client runtime's input. They share
  no state with each other or with the pending queue, so that MCClientRouting runs one of the three. `told` and `begun` are what
  the clients believe, and the properties compare it with what the runtime remembers.
* **DecodePool**: one access to a shared object per step, for the owner and for each worker
  thread.

### Abstractions

* Pixels are named by the revision of the commit that attached them. A frame carries
  the content it encodes, its stream, generation and sequence number; bytes and sizes
  are left out.
* Role, interaction and state requests are one kind of control event, metadata another.
* The scheduler's choice among ready surfaces, the pacing clock and the rate decisions that
  rotate a stream are left open: every choice is explored. `admission_deferred` is true only inside
  `SourcePoll`.
* The two ends of the link run on different machines. While one is inside a call the other takes no
  step: a step inside a call touches only its own end, and the one
  exception (a call may flush twice) can only send earlier what the next poll
  sends anyway.
* In EncodedDestination the pool is reduced to what it accepts; DecodePool
  checks the pool itself. The native contexts of a worker are external code, modelled as
  created by `submit` and released by `retire`.
* Left out of the encoded link: codec errors, capture dumps and audio. Popups, cursors, claims and the
  messages back are in RelayLink, which leaves out pixels and titles. Neither has the gamepad,
  whose ledger has the form of the one for keys, or transport credentials.
* RelayLink ends one connection and does not open a second one. The record that reports the end is
  the observation of the other end's failure.
* RemoteControl has keys and the pointer's position, but no buttons, whose set of held codes has the form of the one for keys.
  Captures, recordings, cursors, capabilities and resizing are left out; when the next step of a sequence is due is left open.
  The views' routing of a window's input to its popups is the identity.
* HoistLifecycle has one client and one endpoint, at most one hoist request per frame, and neither
  persistent windows nor sizes and placement.
* The routing modules have no positions, transforms or times, and no route aliases, which no adapter of the
  repository publishes. Nor has `Focus` a request for no surface from an adapter that has not the focus (`adapter.rs:939`), which nobody sends:
  the shell clears the focus with `ClearFocus` (`shell.rs:1317`), and a relay's request goes to `apply_remote_focus` (`adapter.rs:837`). A gesture and a finger scroll have the same form.
* In SessionRuntime an error of `accept` and a connection of an unknown protocol are the same:
  the connection is dropped.
* DecodePool sends an event and calls `notify` in one step: an owner that drains between
  the two only makes the call redundant.

## 3. Runs

Bounds are named constants. All passing runs explore their instance completely. Where a run
covers several instances, they are records of limits and bounds, defined in the MC module and
chosen in the initial state.

| run | instance | properties |
|---|---|---|
| `session_runtime` | two producers, the task and the owner of an operation with a task that competes for its budget; or two listeners, three connections and a task over a queue of two commands. A second producer is what makes the flag necessary, a third meets no new state of the slot | `ExactlyOneOwner`, `ClaimedNeverCancelled`, `BudgetIsShared`, `NothingOutlivesTheWorker`, liveness `OutcomeDelivered`, `CancelRetires`, `ShutdownCompletes`, refinement `ImplementsSingleResult` |
| `trust` | two devices, two grants, two invitations, one permit, one crash, saves that fail in each way | `LiveSessionsAreTrusted`, `TrustFileAgrees`, `OneApprovalPerInvitation`, `LatchedMeansSilent` |
| `trust_sessions` | one device with two sessions for one slot, the diagnostics permission toggled, identities that run out | action property `PermitsAreStable`, liveness `WithdrawnStopsServing` |
| `trust_revocation` | as `trust` | `RevokedUntilApproved`, **violated**, see below |
| `encoded_layers` | one surface with two layers, three commits in five shapes, streams that rotate once and two decoder contexts; or two surfaces with room for one record on each lane, one decode job and two references, and the same with a resize gesture | `LinkKeepsGoing`, `ContentFaithful`, `DecodersAccounted` |
| `encoded_sessions` | one surface mapped twice, two commits, one control, one decoder context | `ControlsKeepTheirPlace`, `SessionsLeaveNothing`, action property `NeverBackwards` |
| `relay` | a window and its popup: a key and a touch, two commands and a revocation; two cursors, a claim and three commands; automatic admission over an encoded port. Or the same window under remote control, two requests and: three changes of hands; two grants, a change of hands and an event of the client; a pointer and an event | `HeldInputSettled`, `ClaimsSettled`, `CursorSettled`, `OnlyStaleSessionsFail`, `EveryWindowAdmitted`, `TakeoverIsClean`, `HeldIsReceipted` |
| `remote_interruption` | as `relay` | `NothingHeldUnknown`, **violated**, see below |
| `routing` | two keys over three windows of two adapters; two buttons, a gesture, a scroll and two contacts, one at a time, over two windows; or two surfaces, a queue of three and five pushes: every pair of events of a surface with a third event between them | `KeysSettled`, `KeyboardFollowsFocus`, `SequencesSettled`, `PointerFollowsShell`, `QueueIsTransparent`, `RepaintsCoalesce` |
| `decode_pool` | one pipelined worker and three generations of a stream; or two workers and two streams that change generation, at both limits; one failure | `PoolWithinLimits`, `OnlyWorkersFail`, action property `StreamOrder` |
| `decode_progress` | one pipelined worker, two generations | liveness `EveryJobAnswered`, `TeardownCompletes` |
| `hoist` | two toplevels at a remote endpoint, which may be lost, where they change their parents, or are hoisted in two families, or lose their placeholders; two toplevels over the loopback; one over the loopback whose placeholder is removed, in two families | `HoistsAccounted`, liveness `FamilyComesHome` |

Why these sizes. The hazards are pairs: an old and a new generation, an old and
a new session, a producer and a canceller, two surfaces that share a budget, a window and its
popup, two members of a family. Each run has the
second member of its pair, and limits so small that queues are full, lanes are blocked
and identities run out. The price is that no run has all pairs at once; the instances of a run
divide them. For the properties that section 4 proves, two contacts at once, a third toplevel, device, worker
or generation and longer queues are covered by the theorem, which holds for any number; for the others
they are not covered. Type correctness of SessionOperation, AccessAuthority and DeviceTrust, the registry's capacity, that no result
is stranded and that no wake of an operation is lost are proved instead of run.

What the properties exclude, and why. In each case the code does otherwise:

* `ClaimsSettled` says nothing of a revoked relay. `check_access` clears the updates that wait
  (`relay.rs:276`); a release that an `Unmap` queued between the revocation and the next drain is among them.
* The second part of `CursorSettled`, what the viewer shows, is for transports that keep all records in order. Over an encoded
  port a cursor may pass the role of its surface (`state.rs:1275`), is acknowledged, and is not sent again. Its first
  part, that the credit comes back (`CreditReturned`), is for any port.
* `OnlyStaleSessionsFail` admits the failure `crossed`: a message of an ended session that arrives after the
  surface was mapped again ends the connection (`relay.rs:717`), although one that arrives before is ignored.
* `TakeoverIsClean` and `HeldInputSettled` are checked for one window and its popup, which share a seat's
  admission. With two windows the first does not hold, and no theorem states it: a second press of a held key on another
  window moves the key in the relay's ledger, which has one entry per key code (`relay.rs:1509`, `1617`), while the controller's
  seat refuses the press and holds the key on the first window (`input_admission.rs`). A takeover of that window then
  finds nothing to release, and the key is released when the second window is let go.
* `FamilyComesHome` is about families that a reclaim took whole, and about all when the endpoint is lost. `maintain_sessions`
  skips an active member whose placeholder other code has removed (`lifecycle.rs:597`), at a remote endpoint and over the loopback, and one
  that is still mapping (`lifecycle.rs:570`; only a receiver of the loopback is waited for). Such a member stays hoisted and keeps the
  family carried: what the reclaim brings home is hoisted into it again one frame later, until the client unmaps, moves or destroys the
  member or the endpoint is lost (`tests.rs:1862`). `docs/spec/remote-hoisting.md:27` says that a reclaim
  "stages the captured members, and restores the family together", with no such exception. With `reclaimed` kept for every
  family of which a reclaim takes a member, TLC finds the property violated in this way at the remote endpoint.

Every property of a passing run has a mutant in `PROJECT.json`, a plausible bug
in the code (a dropped guard, a swapped order, a missing wake) under which
TLC finds the property violated. Mutated forms stand next to the definitions they replace.

### Deadlock

`CHECK_DEADLOCK FALSE` is set where a run really ends: the links and the queue once the
clients have made their bounded number of changes (or an error ended the relay), and a dropped
decode pool. For the encoded link, `LinkKeepsGoing` replaces the
deadlock check by a stronger statement: no protocol error is reported, and the only states in which
nothing but new input can happen are those where everything is shown and nothing is left over. It stands in for
liveness too: TLC's evaluation of fairness on the nested updates of the port states is too
slow to be of use, and every step of the link that is not an input consumes a record, a job or a
queued event.

### Fairness

* `session_runtime`: a thread that is inside `send`, `fail`, `cancel` or a drop goes on; the worker
  receives commands, polls listeners and handoffs that can proceed, delivers a cancellation and shuts down; an
  owner that was woken polls. Nothing forces a
  producer to begin, a job to end, or the application to cancel or to let go.
* `trust_sessions`: a relay that was woken is polled; a device task whose
  connection is closed ends; a stopping worker exits. These are the event loop and the
  async runtime.
* `hoist`: frames go on, and within a frame the systems run; the deadline of a returning window passes. The loopback's relay
  withdraws what was unmapped: strongly fair, because its turn comes between any two frames. Nothing
  makes a client commit, map or close.
* `decode_progress`: the steps of a worker thread and of an owner inside a call are weakly fair
  (the scheduler). A native job becomes ready in the end and a notified owner drains:
  strongly fair, because a worker that polls in vain and an owner that is called for other work
  disable both again and again.

### Findings

`trust_revocation`: `PrivateDirectory::publish` renames the new `devices.json` and then
returns the error of the directory sync, if there is one. `State::approve` takes every
error for "nothing was written" and keeps the device unpaired in memory; the administrator is
told that the approval failed, and `revoke` refuses the device as not paired. After a restart
the file is read and the device is trusted, although `docs/device-pairing.md` says that a
revoked device must fail to reconnect until a new pairing is approved.

`RevokedUntilApproved` states that sentence, and TLC shows the behaviour. The
opposite order, a failed revocation, is handled: the second part of `TrustFileAgrees` holds.

`remote_interruption`: one `drain_events` of the remote controller takes a direct press and then a sequence. The press is executed:
its messages wait for the relay's poll, and the key is in `held_keys`. If the sequence is interrupted in the same call,
because its deadline has passed or its first step finds the pointer outside a window that has shrunk, `abort_sequence` forgets the window's
keys and releases what the relay holds, but the messages still wait. The poll that follows plays the press; its
caller gets a receipt, and the key stays down although `docs/native-window-control.md` says that the interruption of a
sequence releases retained input, and `held_keys` no longer lets a chord or text be refused because of it. A later release
of the key, a takeover and a revocation still end it (`TakeoverIsClean`, `HeldInputSettled`).

## 4. Proofs

Checked by TLAPS for every value of the constants allowed by the named assumptions.

**SessionRuntimeProofs**, its first part: the operation by itself (from `MarkersAssumption`: the two markers differ from the producers and
from one another; any set of producers, also an infinite one).

* `TypeCorrect`: `TypeOK` is inductive.
* `SingleOwnership`: `ExactlyOneOwner` alone is not inductive. It needs that a producer that
  has not yet made its value owns nothing anywhere (`Unmade`, `NotStarted`) and that an
  outcome is final (`OutcomeFinal`); together with the types these form `OwnershipInv`.
* `NoResourceStranded` and `ClaimOutlivesHandle`: from `CancelInv`, which ties the phase of the owner's
  handle to the closed channel, and the claim to the surrendered cancel sender.
* `WakeIsNeverLost`: the actor that made the outcome visible has a wake ahead of it or has woken the
  owner, and a poll takes the outcome with the wake.
* `Refinement`: under the mapping of `ImplementsSingleResult` the initial state maps to SingleResult's and every
  step to a step of it or to a stutter; `OwnershipInv` supplies that an outcome is final and that a value has one fate.

**DeviceTrustProofs**, its first part: the access registry by itself (from `ParticipantsAssumption` and `SessionsAssumption`; any participants, capacity and identity limit).

* `AccessTypeCorrect` (types and the range of the identities), `GlobalRevocation`: `AccessInv`, the types, `LatchedMeansSilent` and
  `Reachable` (an authorized permit is held; a held one is registered and below `next`), is inductive.
* `RegistryWithinCapacity`: neither the entries nor the permits outstanding exceed `MaxSessions`. The entries fit because `open` counts
  after pruning (`CapacityPreserved`); that the permits do too is `Reachable` again: pruning takes no entry whose permit is held.
* `StablePermits`: an action property. Every step of the registry
  keeps it because an identity at or above `next` is not held and pruning only touches
  entries whose permit is gone, which is `Reachable`. The second part of the module proves the same two where the registry is
  used by the trust worker, and the runs `trust` and `trust_sessions` check them there.

**SessionRuntimeProofs**, its second part (from `RuntimeAssumption`: every job has a protocol and a limit, the limits are positive, and
listeners, connections, spawned tasks and the operation are different things; any of them, also infinitely many, and any limits).

* `RuntimeImplementsOperation`: every step of the supervisor is a step of SessionOperation or leaves its variables alone, so
  the theorems of the first part hold in the runtime: `SupervisedOwnership`, `SupervisedClaim` and `SupervisedRefinement`
  are about the specification that the run `session_runtime` checks.
* `SharedBudget`: the count of a budget's tasks only makes sense for a finite set. `BudgetInv` adds that what runs
  is finite, which no assumption on the jobs gives: it starts empty and a step starts at most one.
* `WorkerLeavesNothing`: by the end of the worker everything has been dropped in an order that crosses three queues.
  `RuntimeInv` says what the command queue holds (`QueueInv`: what waits, once, and nothing after the loop), what each part of the shutdown has
  established (`PhaseInv`), and where accepted connections can be (`ConnectionInv`). Its part `HandoffInUse` is
  the reason that no connection is stranded in a handoff: while one waits there, its listener or a task of its
  handler is still to end, and the last of them empties it.

**DeviceTrustProofs**, its second part (from `TrustAssumption`, `ParticipantsAssumption` and `SessionsAssumption`; any devices, grants and
codes and any value of every limit, with failing saves, disconnections and crashes).

* `SessionsTrusted`: that a working session is of a paired device with its current grant is not inductive, since a device
  task may be between its admission and its join. `PermitsTracked` ties the tasks, the worker's list and its
  queue to the permits: each one referred to is held, so that the registry cannot give its identity away.
* `TrustFile`: what is paired in memory is paired on disk, and every revocation that was reported as not saved
  is remembered (`FileInv`); the second survives a save that was written but reported as failed.
* `InvitationsSingleUse`: an invitation that still stands has not been approved (`InvitationUnspent`).
* `TrustTypeCorrect`, `LatchComposed`, `PermitsComposed`, `CapacityComposed`: the types, and the registry's three properties in the composition. Every step of the worker is
  a step of the registry or only ends permits.

**HoistLifecycleProofs** (from `LifecycleAssumption`; any toplevels, endpoints and families).

* `HoistsAreAccounted`: `HoistsAccounted` is a fact about every step, not only about the end of a frame. To be inductive it needs
  one more, `SessionsMet`: a session is of a client that was seen, and is closed only when its client is gone. That is why
  the sessions of `BeginHoist` never meet an older one of the same toplevel. The step of
  `maintain_sessions` is reduced to what each fate presupposes (`FateFacts`) and what it makes of a
  session (`MaintainedFacts`).

**PendingQueueProofs** (no assumption; any surfaces, layers and limit).

* `RepaintsAreCoalesced`: the property is inductive together with the shape of the queue. An insertion appends, replaces in
  place or moves to the back (`AppendNew`, `ReplaceInPlace`, `MoveToBack`), and `CommitPlanned` says what the reading from the back has found:
  the surface's own last commit, or something that no repaint may cross. That the last index exists is the least-number
  principle, from the well-foundedness of the naturals (`LeastOf`, `MaxIndex`).
* `QueueAlwaysTransparent`: a view is what a fold makes of the events of one surface, so the lemmas on views are
  inductions over the queue's indices, by a least counterexample: an event that is replaced in place, or moved to the back, makes no
  difference where only commits of its surface, or events of others, stand between. `ViewInv` adds to the property that
  the records in the queue have the shape the clients give them and that only commits are barriers (`Sound`).

**DecodePoolProofs** (from `PoolAssumption`: what `DecodePoolLimits::try_new` accepts, and that the limits allowed have a largest number of
workers; any streams, keys, workers, jobs and failures, and a depth of one or two as in the code).

* `OnlyWorkersEverFail`, `StreamsInOrder`, `ContextsAlwaysReserved`, `DepthAlwaysKept`: four facts from one inductive invariant, `PoolInv`.
  None is inductive by itself, since the owner decides from its own list of jobs and reservations and the workers act on
  what they were sent earlier. The invariant follows the two things that travel:
  * a token goes from the command channel to the command set aside or in hand, to the pipeline, to an event. Each stage
    is sorted and older than the one before (`SortedAt`, `StagedAt`); the owner's list has exactly the
    tokens under way until the thread ends, and the results are its oldest (`ListedAt`). So the oldest result is that of the oldest
    job (`OldestJob`), and a worker never has more than `depth` to hold (`NeverOverflows`);
  * a key goes from the mailbox to the worker's hands to an acknowledgement, and is in one of them (`MailAt`); it is
    published once and after the last of its jobs (`Published`), and a command has the key of its job (`KeyedAt`), so that
    no job creates a decoder after the retirement.
* `PoolAlwaysWithinLimits`, from `CountInv` on top of `PoolInv`: the channels never hold more than their capacity because what
  is in them are the owner's jobs, each once, and one failure and one wake for each worker (`FailsOnce`, `WakesAt`); a count is a
  sum over the finite set of workers.
* A failure is its worker's last report on jobs (`FailureAt`), a stream has one worker while it has a reservation (`Homes`),
  and its jobs are newer than its answers (`Newer`): the answers stay in order when a failure answers several at once.

**RelayLinkProofs** (from `LinkAssumption`: finitely many surfaces, which `None` is not one of, popups of roots, and environments
with any number of commands, events, inputs, revocations and lost connections; any windows, any port and any order of deliveries).

* `ClaimsAlwaysSettled`, `WindowsAlwaysAdmitted`: `RelayInv` relates the source to its local host. Both properties are about what the
  host will know once all that waits in the two queues is played, so the invariant says that of every step of a call, also
  between the relay's change and the next drain (`Settled`), and that a surface with a role and content is mapped
  when its root is (`FineBut`, for all surfaces but those that a step has yet to map). `map` is an induction over its followers, which each join the mappings
  with their claim, and `unmap` over the popups it takes along.
* `OnlyStaleSessionsEverFail`: `LinkInv` relates the two ends. The records under way form a path (`Path`): each is legal in the
  sessions that those before it leave (`Legal`), and it brings what the destination knows to the source's mappings. On
  an encoded port they are equal but for surfaces that are gone and whose `destroyed` still waits in the port (`Agrees`): a withdrawal
  passes the surface's other events and cancels them, so that none finds its session gone, and a surface that
  is gone is not mapped again. An acknowledgement on the way back, or a cursor it
  will answer, has an older number than the cursor in flight or is exactly that one (`Fresh`), so that the source accepts it; any other message of an ended session is ignored or is the failure `crossed`.
* `CreditAlwaysReturns`: `Credit`, also in `LinkInv`, says where the one cursor credit is: with the source, or with a cursor in the
  downward lane, or with its acknowledgement in the upward one. A withdrawal cancels what its surface holds back in the
  port, but never a cursor, and the destination answers also a cursor whose surface it does not know.
* A poll, a submission and a batch of followers are recursive functions over a sequence; what they preserve is proved
  by induction over the index, as the least counterexample of a set of indices (`Induct`).

**EncodedLinkProofs** (from `LanesAssumption`, `SourceAssumption` and `DestinationAssumption`: finitely many layers, rooms and limits of
at least one; any surfaces and any order of commits, withdrawals, completions, turns of a stream and polls).

* `SessionsAlwaysLeaveNothing`, `DecodersAlwaysAccounted`: both need that a frame is never queued twice at the destination. When
  a surface is cancelled, the frames of its queue leave `decoded`; if another queued event had one of them, that event would wait for
  a frame whose context nobody keeps. So `LinkInv` has three parts.
  * `SourceOk`: what waits for a surface is of its session, streams have numbers of their own, each frame of the batch is of
    a stream of its surface, and the encoder contexts are those of the streams and of the active job (`EncodersOk`).
  * `LineOk`: what is on the control lane and waits in the port forms a path (`Path`) from the state of the destination to the sessions of the
    relay. Each record is legal in the state that those before it leave, and brings frames that none before it brought (`Legal`). A
    frame is `Issued` when its stream has counted past it; that is how a frame of the batch, allocated long before it is
    sent, is known to be new although commits of other surfaces overtake it.
  * `DestinationOk`: what is queued is of the session shown there (`QueuesOk`), no two queued events share a frame (`Distinct`), and
    a context is that of a stream or waits to retire, also the one that a queued frame will create (`ContextsOk`).
* A poll applies the first n records of the path one by one (`ApplyControlsOk`, by induction over the index) and so arrives in the
  path's n-th state. `ReceiveOk` then follows the media, the completed jobs and the publication, each of which only makes
  queues shorter or accounts for more (`ShrinksOk`).

**ClientRoutingProofs**, its first part (from `KeyboardAssumption`; any surfaces, adapters and keys).

* `KeyTypesHold`, `KeysAlwaysSettled`, `KeyboardAlwaysFollowsFocus`: `KeyInv` has the types (every route and capture
  names a living surface), `ToldByCapture` and `HandoffSwallows`, which are `KeysSettled` key by key, `OneFocus`, and
  `RepeatsAtRoute`: a key that may repeat was pressed at the current route and after its last change. The
  property on repeats alone is not inductive, since the route may come back to a surface whose captures still exist.

**ClientRoutingProofs**, its second part (from `PointerAssumption`: the markers for an absent route are no
surfaces, and buttons, contacts and swipes differ; any number of each and any limit of contacts).

* `SequencesAlwaysSettled`, `PointerAlwaysFollowsShell`: the two properties need each other. That a handoff releases
  all that is pressed rests on the capture being idle exactly when nothing is pressed; `PointerInv` adds the types
  and splits what has begun into `ToldButtons`, `ToldSwipes` and `ToldContacts`.

Out of the prover's reach, and left to TLC: liveness under fairness and `ENABLED` (`OutcomeDelivered`, `CancelRetires`,
`ShutdownCompletes`, `WithdrawnStopsServing`, `EveryJobAnswered`, `TeardownCompletes`, `FamilyComesHome`, and `LinkKeepsGoing`, which
asks that no step is enabled). The library's induction theorems cannot be used either, and the proofs above do without them where a
computation is over the indices of a sequence. Model-checked only, and not attempted:

* of the encoded link `ContentFaithful`, `ControlsKeepTheirPlace` and `NeverBackwards`. They compare values (pixels, roles, revisions) that
  the path of EncodedLinkProofs leaves out: its states would have to carry, for each session, what the client's surface was, through
  the coalescing of the pending queue;
* the second part of `CursorSettled`, that the viewer's cursor is at last the one the host shows. `CreditAlwaysReturns` proves its first
  part; the second needs the viewer's cursors as part of the state that the path of RelayLinkProofs leads to;
* `HeldInputSettled` and `HeldIsReceipted`, which need the ledger of held input and the remote control's commands added to RelayInv.

`TakeoverIsClean` is no theorem, see section 3.

## 5. Plan

Done, in this order: SessionOperation, AccessAuthority, DeviceTrust, PendingEvents, the
encoded link, DecodePool, the relays, the routing, HoistLifecycle, SessionRuntime, RemoteControl, the proofs of section 4. Left:

1. Proofs: the second part of `CursorSettled` from RelayLinkProofs' `LinkInv`; `ControlsKeepTheirPlace` and `NeverBackwards` from
   the path of EncodedLinkProofs, with the values it leaves out.
2. **SourceSessions** (`weld-hoist-core/session.rs`): reservation, the catalogue, host service.
3. **MediaQueue** and **Inbox** of the iroh transport: accounting that follows ownership through
   cancelled writes; shown to implement EncodedLanes' lanes.
4. A pool specification that DecodePool implements and EncodedDestination uses.
5. The remote control's captures and recordings, which wait for a frame under the same grants.

Not planned: wire formats, codecs, rendering, device I/O, audio and the user interface (`PROJECT.json` says why
for each). They hold most of the repository's lines and little of its concurrency; what they do is
computed from foreign objects (Wayland, DRM, VA-API, PipeWire, bevy) that a small instance cannot represent.

## 6. Running

```
tlc -workers 2 -config SessionRuntime.cfg MCSessionRuntime
tlc -workers 2 -config EncodedLinkContent.cfg MCEncodedLink
tlapm SessionRuntimeProofs.tla
```

Each run takes about three minutes at most on two cores, and EncodedLinkProofs, the longest proof, about eight; the module and cfg of each are in `PROJECT.json`.
