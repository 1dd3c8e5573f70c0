---------------------------- MODULE DeviceTrust ----------------------------
(***************************************************************************)
(* Device pairing and session admission: the trust worker of               *)
(* weld-hoist-core session/pairing.rs, the enrollment exchange of          *)
(* pairing/enrollment.rs, the device tasks of session/server.rs, the file  *)
(* store of weld-hoist-iroh, and the access registry they feed.            *)
(*                                                                         *)
(* The worker handles one command at a time, so that a handler is a step.  *)
(* What interleaves with it are the device tasks, peers that disconnect,   *)
(* the administrator's other authority (AccessAuthority), time, failing    *)
(* writes, and a crash of the host at any moment. A device task is known   *)
(* by the id of the permit it opened; `devices' is also the snapshot that  *)
(* PairingAuthority::permissions reads, which every handler republishes.   *)
(***************************************************************************)
EXTENDS AccessAuthority

CONSTANTS
  Grants, Browsing,   \* permission sets, and those that include browsing
  Diagnostics,        \* values of the diagnostics permission in play
  Codes,              \* verification codes; two claims may draw the same one
  NoDevice,
  MaxDevices,         \* MAX_DEVICES
  MaxConnections,     \* MAX_CONNECTIONS
  MaxInvitations,     \* bound: invitations issued in one behaviour
  MaxCrashes          \* bound: restarts in one behaviour

Devices == Participants
Permissions == [grant : Grants, diagnostics : Diagnostics]
NoPermissions == [grant |-> NoDevice, diagnostics |-> FALSE]
TrustMap == [Devices -> Permissions \union {NoPermissions}]

ASSUME TrustAssumption ==
  /\ NoDevice \notin Devices \union Grants
  /\ Browsing \subseteq Grants
  /\ Diagnostics \subseteq BOOLEAN
  /\ MaxDevices \in Nat /\ MaxConnections \in Nat
  /\ MaxInvitations \in Nat /\ MaxCrashes \in Nat

VARIABLES
  disk,         \* devices.json
  devices,      \* State.devices and its published snapshot
  unsaved,      \* State.unsaved_revocations
  invitation,   \* State.invitation; token 0 stands for None
  admissions,   \* State.admissions, by permit id
  queue,        \* Admit commands waiting in the worker's channel
  stopped,      \* Published.stopped; the command channel is closed
  enroll,       \* device -> invitation its enrollment task waits on, or 0
  shown,        \* the candidate the administrator last saw
  task,         \* permit id -> phase of serve_device
  granted,      \* permit id -> permissions the task was admitted with
  conn,         \* permit ids whose connection is open
  issued,       \* invitations issued
  approvals,    \* history: approvals acknowledged to the administrator
  decision,     \* history: device -> what the administrator was last told
  crashes

trustVars == <<disk, devices, unsaved, invitation, admissions, queue, stopped,
               enroll, shown, task, granted, conn, issued, approvals, decision, crashes>>
vars == <<accessVars, trustVars>>

registryVars == <<accepting, blocked, sessions, next, held, served, wake, revoked>>
adminVars == <<shown, issued, approvals, decision, crashes>>
taskVars == <<task, granted, enroll>>

NoInvitation == [token |-> 0, expired |-> FALSE, candidate |-> NoDevice, code |-> NoDevice]
NoCandidate == [device |-> NoDevice, code |-> NoDevice]
Nothing == [d \in Devices |-> NoPermissions]
Paired(map) == {d \in Devices : map[d] # NoPermissions}

LiveTask(i) == task[i] \in {"opened", "queued", "admitted", "joined"}

-----------------------------------------------------------------------------
(* Init and restart.                                                       *)

\* PairingAuthority::start: the worker's state after loading `map', with a
\* fresh access registry.
Started(map) ==
  /\ devices' = map /\ unsaved' = {} /\ invitation' = NoInvitation
  /\ admissions' = {} /\ queue' = {} /\ stopped' = FALSE
  /\ enroll' = [d \in Devices |-> 0] /\ shown' = NoCandidate
  /\ task' = [i \in Ids |-> "none"] /\ conn' = {}
  /\ granted' = [i \in Ids |-> NoPermissions]
  /\ accepting' = TRUE /\ blocked' = {} /\ next' = 1
  /\ sessions' = [i \in Ids |-> NoParticipant]
  /\ held' = {} /\ authorized' = {} /\ served' = {} /\ wake' = FALSE /\ revoked' = {}

Init ==
  /\ AccessInit
  /\ disk = Nothing /\ devices = Nothing /\ unsaved = {} /\ invitation = NoInvitation
  /\ admissions = {} /\ queue = {} /\ stopped = FALSE
  /\ enroll = [d \in Devices |-> 0] /\ shown = NoCandidate
  /\ task = [i \in Ids |-> "none"] /\ conn = {}
  /\ granted = [i \in Ids |-> NoPermissions]
  /\ issued = 0 /\ approvals = 0 /\ crashes = 0
  /\ decision = [d \in Devices |-> "none"]

\* The host process dies, or is stopped, and comes back from devices.json.
Restart ==
  /\ crashes < MaxCrashes /\ crashes' = crashes + 1
  /\ Started(disk)
  /\ decision' = [d \in Devices |-> IF decision[d] = "unsaved" THEN "none" ELSE decision[d]]
  /\ UNCHANGED <<disk, issued, approvals>>

-----------------------------------------------------------------------------
(* Storage. PrivateDirectory::publish writes a temporary file, syncs it,   *)
(* renames it and syncs the directory: an error before the rename leaves   *)
(* the old map, an error of the directory sync leaves the new one.         *)
SaveResults == {"ok", "lost", "unsynced"}

\* Mutant: a save reports success without renaming its file.
SaveTemporary(map, result) == disk' = IF result = "unsynced" THEN map ELSE disk

Save(map, result) == disk' = IF result = "lost" THEN disk ELSE map

(* State::expire runs before every command: an invitation that is over is  *)
(* forgotten, and an admission whose permit or connection has ended is     *)
(* dropped, which ends the one and closes the other (Admission::drop).     *)
LiveAdmissions == admissions \cap authorized \cap conn
CurrentInvitation == IF invitation.expired THEN NoInvitation ELSE invitation

\* The admissions that stay; all others are retired.
KeepAdmissions(kept) ==
  /\ admissions' = kept
  /\ authorized' = authorized \ (admissions \ kept)
  /\ conn' = conn \ (admissions \ kept)

-----------------------------------------------------------------------------
(* Commands of the local administrator, each answered before it returns.   *)

\* State::invite; a new invitation replaces the old one and its candidate.
Invite ==
  /\ ~stopped /\ issued < MaxInvitations
  /\ issued' = issued + 1
  /\ invitation' = [NoInvitation EXCEPT !.token = issued + 1]
  /\ KeepAdmissions(LiveAdmissions)
  /\ UNCHANGED <<disk, devices, unsaved, queue, stopped, shown, approvals, decision,
                 crashes, taskVars, registryVars>>

\* Command::Pending: the administrator sees the claim waiting for a decision.
Pending ==
  /\ ~stopped
  /\ LET inv == CurrentInvitation
     IN /\ invitation' = inv
        /\ shown' = [device |-> inv.candidate, code |-> inv.code]
  /\ KeepAdmissions(LiveAdmissions)
  /\ UNCHANGED <<disk, devices, unsaved, queue, stopped, issued, approvals, decision,
                 crashes, taskVars, registryVars>>

\* Command::Cancel
CancelInvitation ==
  /\ ~stopped
  /\ invitation' = NoInvitation
  /\ KeepAdmissions(LiveAdmissions)
  /\ UNCHANGED <<disk, devices, unsaved, queue, stopped, adminVars, taskVars, registryVars>>

\* The claim the administrator approves is the one waiting now, its requester
\* is still there, and there is room for the device.
Approvable(inv) ==
  /\ inv.candidate # NoDevice
  /\ shown = [device |-> inv.candidate, code |-> inv.code]
  /\ enroll[inv.candidate] = inv.token
  /\ Cardinality(Paired(devices)) < MaxDevices \/ inv.candidate \in Paired(devices)

\* Mutant: the approved invitation can be claimed again.
SpentInvitationReopened == [invitation EXCEPT !.candidate = NoDevice, !.code = NoDevice]

\* invitation.take()
SpentInvitation == NoInvitation

\* Mutant: the sessions of an approved device keep the permissions they had.
OthersAdmittedOrNot(d) == LiveAdmissions

\* admissions.retain(entry.identity != identity)
OthersAdmitted(d) == {i \in LiveAdmissions : sessions[i] # d}

\* A save that succeeds writes every earlier revocation as well.
Settled == [d \in Devices |-> IF decision[d] = "unsaved" THEN "revoked" ELSE decision[d]]

\* State::approve: save first, then publish, drop the device's admissions and
\* answer its enrollment task. A failed save changes nothing in memory.
Approve(perm, result) ==
  /\ ~stopped /\ Approvable(CurrentInvitation)
  /\ LET d == invitation.candidate
         map == [devices EXCEPT ![d] = perm]
     IN /\ Save(map, result)
        /\ IF result = "ok"
             THEN /\ devices' = map /\ unsaved' = {}
                  /\ KeepAdmissions(OthersAdmitted(d))
                  /\ invitation' = SpentInvitation
                  /\ enroll' = [enroll EXCEPT ![d] = 0]
                  /\ approvals' = approvals + 1
                  /\ decision' = [Settled EXCEPT ![d] = "approved"]
             ELSE /\ KeepAdmissions(LiveAdmissions)
                  /\ UNCHANGED <<devices, unsaved, invitation, enroll, approvals, decision>>
  /\ UNCHANGED <<queue, stopped, shown, issued, crashes, task, granted, registryVars>>

\* Mutant: a revocation that cannot be saved is not remembered.
UnsavedForgotten(d, result) == {}

\* unsaved_revocations: recorded before the save, cleared when it succeeds.
UnsavedAfter(d, result) == IF result = "ok" THEN {} ELSE unsaved \union {d}

\* State::revoke: memory, admissions and snapshot first, then the save; a
\* failed save leaves the device in unsaved_revocations for a retry.
RevokeDevice(d, result) ==
  /\ ~stopped /\ d \in Paired(devices) \union unsaved
  /\ LET map == [devices EXCEPT ![d] = NoPermissions]
     IN Save(map, result) /\ devices' = map
  /\ unsaved' = UnsavedAfter(d, result)
  /\ KeepAdmissions(OthersAdmitted(d))
  /\ decision' = IF result = "ok" THEN [Settled EXCEPT ![d] = "revoked"]
                                  ELSE [decision EXCEPT ![d] = "unsaved"]
  /\ invitation' = CurrentInvitation
  /\ UNCHANGED <<queue, stopped, shown, issued, approvals, crashes, taskVars, registryVars>>

\* State::diagnostics: like approve, it saves before it changes memory.
SetDiagnostics(d, enabled, result) ==
  /\ ~stopped /\ d \in Paired(devices)
  /\ LET map == [devices EXCEPT ![d].diagnostics = enabled]
     IN /\ Save(map, result)
        /\ IF result = "ok" THEN devices' = map /\ unsaved' = {} /\ decision' = Settled
                            ELSE UNCHANGED <<devices, unsaved, decision>>
  /\ KeepAdmissions(LiveAdmissions)
  /\ invitation' = CurrentInvitation
  /\ UNCHANGED <<queue, stopped, shown, issued, approvals, crashes, taskVars, registryVars>>

\* PairingAuthority::shutdown closes the channel; the worker leaves at its next
\* receive, dropping the commands still queued and every admission.
Shutdown ==
  /\ ~stopped /\ stopped' = TRUE
  /\ UNCHANGED <<accessVars, disk, devices, unsaved, invitation, admissions, queue,
                 conn, adminVars, taskVars>>

WorkerExit ==
  /\ stopped /\ admissions \union queue # {}
  /\ admissions' = {} /\ queue' = {}
  /\ authorized' = authorized \ (admissions \union queue)
  /\ conn' = conn \ (admissions \union queue)
  /\ UNCHANGED <<disk, devices, unsaved, invitation, stopped, adminVars, taskVars,
                 registryVars>>

-----------------------------------------------------------------------------
(* Enrollment tasks.                                                       *)

WaitsOn(token) == token

\* State::claim; only the current token claims, and only once.
Claim(d, token, code) ==
  /\ ~stopped /\ enroll[d] = 0
  /\ LET inv == CurrentInvitation
     IN /\ inv.token = token /\ inv.candidate = NoDevice
        /\ invitation' = [inv EXCEPT !.candidate = d, !.code = code]
  /\ enroll' = [enroll EXCEPT ![d] = WaitsOn(token)]
  /\ KeepAdmissions(LiveAdmissions)
  /\ UNCHANGED <<disk, devices, unsaved, queue, stopped, adminVars, task, granted,
                 registryVars>>

\* enrollment::serve gives up: its deadline passed, its peer left, or the reply
\* channel closed because the invitation was replaced, cancelled or forgotten.
EnrollmentEnds(d) ==
  /\ enroll[d] # 0
  /\ enroll' = [enroll EXCEPT ![d] = 0]
  /\ UNCHANGED <<accessVars, disk, devices, unsaved, invitation, admissions, queue,
                 stopped, task, granted, conn, adminVars>>

\* INVITATION_LIFETIME passes; the worker notices at its next command.
InvitationExpires ==
  /\ invitation.token # 0 /\ ~invitation.expired
  /\ invitation' = [invitation EXCEPT !.expired = TRUE]
  /\ UNCHANGED <<accessVars, disk, devices, unsaved, admissions, queue, stopped,
                 conn, adminVars, taskVars>>

-----------------------------------------------------------------------------
(* Device tasks.                                                           *)

\* serve_device: an authenticated peer connects and a permit is opened.
Connect(d) ==
  /\ Open(d)
  /\ task' = [task EXCEPT ![next] = "opened"]
  /\ conn' = conn \union {next}
  /\ UNCHANGED <<disk, devices, unsaved, invitation, admissions, queue, stopped,
                 enroll, granted, adminVars>>

\* PairingAuthority::admit hands connection and permit to the worker.
SubmitAdmit(i) ==
  /\ task[i] = "opened" /\ ~stopped
  /\ task' = [task EXCEPT ![i] = "queued"]
  /\ queue' = queue \union {i}
  /\ UNCHANGED <<accessVars, disk, devices, unsaved, invitation, admissions, stopped,
                 enroll, granted, conn, adminVars>>

Admissible(i) ==
  /\ task[i] = "queued"   \* the answer is not closed
  /\ i \in authorized \cap conn
  /\ sessions[i] \in Paired(devices)
  /\ Cardinality(LiveAdmissions) < MaxConnections

\* Command::Admit is granted and the task receives its permissions.
Admit(i) ==
  /\ ~stopped /\ i \in queue /\ Admissible(i)
  /\ queue' = queue \ {i}
  /\ KeepAdmissions(LiveAdmissions \union {i})
  /\ granted' = [granted EXCEPT ![i] = devices[sessions[i]]]
  /\ task' = [task EXCEPT ![i] = "admitted"]
  /\ invitation' = CurrentInvitation
  /\ UNCHANGED <<disk, devices, unsaved, stopped, enroll, adminVars, registryVars>>

\* Command::Admit is refused, or its answer can no longer be delivered: the
\* admission is dropped, the permit ends and the connection closes.
RefuseAdmit(i) ==
  /\ ~stopped /\ i \in queue /\ ~Admissible(i)
  /\ queue' = queue \ {i}
  /\ admissions' = LiveAdmissions
  /\ authorized' = authorized \ ((admissions \ LiveAdmissions) \union {i})
  /\ conn' = conn \ ((admissions \ LiveAdmissions) \union {i})
  /\ invitation' = CurrentInvitation
  /\ UNCHANGED <<disk, devices, unsaved, stopped, taskVars, adminVars, registryVars>>

\* SourceSessions::join: negotiation is over, the session service accepts the
\* permit and the host starts a relay on it.
Join(i) ==
  /\ task[i] = "admitted" /\ granted[i].grant \in Browsing
  /\ i \in conn
  /\ Serve(i)
  /\ task' = [task EXCEPT ![i] = "joined"]
  /\ UNCHANGED <<disk, devices, unsaved, invitation, admissions, queue, stopped,
                 enroll, granted, conn, adminVars>>

\* Mutant: leaving does not tell the host.
LeaveQuietly == UNCHANGED wake

\* SourceSessions::leave wakes the host's policy loop.
LeaveWakes == wake' = TRUE

\* The task ends (an error, a timeout, a closed connection): JoinedSession::drop
\* ends the permit and wakes the host, dropping the connection closes it.
EndTask(i) ==
  /\ LiveTask(i)
  /\ task' = [task EXCEPT ![i] = "ended"]
  /\ authorized' = authorized \ {i} /\ conn' = conn \ {i}
  /\ LeaveWakes
  /\ UNCHANGED <<accepting, blocked, sessions, next, held, served, revoked, disk,
                 devices, unsaved, invitation, admissions, queue, stopped, enroll,
                 granted, adminVars>>

\* The peer or the network closes the connection.
Disconnect(i) ==
  /\ i \in conn
  /\ conn' = conn \ {i}
  /\ UNCHANGED <<accessVars, disk, devices, unsaved, invitation, admissions, queue,
                 stopped, taskVars, adminVars>>

\* Nobody refers to the permit any more.
Forget(i) ==
  /\ ~LiveTask(i) /\ i \notin admissions \union queue
  /\ ReleasePermit(i)
  /\ UNCHANGED trustVars

\* The administrator's access commands and the host's relay servicing.
AccessStep ==
  /\ \/ \E i \in Ids : Revoke(i)
     \/ RevokeAll \/ AllowNewSessions \/ ServiceRelays
  /\ UNCHANGED trustVars

-----------------------------------------------------------------------------
AdminNext ==
  \/ Invite \/ Pending \/ CancelInvitation \/ Shutdown
  \/ \E perm \in Permissions, r \in SaveResults : perm.diagnostics = FALSE /\ Approve(perm, r)
  \/ \E d \in Devices, r \in SaveResults : RevokeDevice(d, r)
  \/ \E d \in Devices, b \in Diagnostics, r \in SaveResults : SetDiagnostics(d, b, r)

DeviceNext ==
  \/ \E d \in Devices : Connect(d) \/ EnrollmentEnds(d)
  \/ \E d \in Devices, t \in 1 .. MaxInvitations, c \in Codes : Claim(d, t, c)
  \/ \E i \in Ids : \/ SubmitAdmit(i) \/ Admit(i) \/ RefuseAdmit(i) \/ Join(i)
                    \/ EndTask(i) \/ Disconnect(i) \/ Forget(i)

Next == AdminNext \/ DeviceNext \/ InvitationExpires \/ WorkerExit \/ Restart \/ AccessStep

\* A task whose connection is closed leaves its select; a closed worker channel
\* is drained; the host services its relays when it is woken.
Fairness ==
  /\ \A i \in Ids : WF_vars(i \notin conn /\ EndTask(i))
  /\ WF_vars(WorkerExit)
  /\ WF_vars(ServiceRelays /\ UNCHANGED trustVars)

Spec == Init /\ [][Next]_vars
FairSpec == Spec /\ Fairness

-----------------------------------------------------------------------------
(* Properties.                                                             *)

TrustTypes ==
  /\ disk \in TrustMap /\ devices \in TrustMap /\ unsaved \subseteq Devices
  /\ invitation \in [token : 0 .. MaxInvitations, expired : BOOLEAN,
                     candidate : Devices \union {NoDevice}, code : Codes \union {NoDevice}]
  /\ admissions \subseteq Ids /\ queue \subseteq Ids /\ conn \subseteq Ids
  /\ enroll \in [Devices -> 0 .. MaxInvitations]
  /\ shown \in [device : Devices \union {NoDevice}, code : Codes \union {NoDevice}]
  /\ task \in [Ids -> {"none", "opened", "queued", "admitted", "joined", "ended"}]
  /\ granted \in [Ids -> Permissions \union {NoPermissions}]
  /\ issued \in Nat /\ approvals \in Nat /\ crashes \in Nat
  /\ decision \in [Devices -> {"none", "approved", "revoked", "unsaved"}]

\* The worker, the tasks and the registry hold what their Rust types allow.
TypeOK == AccessTypeOK /\ TrustTypes /\ stopped \in BOOLEAN

\* Every session that holds a working permit is on the worker's list, where a
\* revocation finds it, belongs to a device that is paired now, and carries the
\* grant that device has now (pairing.rs: approve and revoke drop admissions).
LiveSessionsAreTrusted ==
  \A i \in Ids :
    (task[i] \in {"admitted", "joined"} /\ i \in authorized \cap conn) =>
      /\ i \in admissions
      /\ sessions[i] \in Paired(devices)
      /\ granted[i].grant = devices[sessions[i]].grant

\* The file and the worker agree. Trust is written before it is acted on: whoever
\* is paired in memory survives a restart (confirmation_persists_before_authorizing).
\* And a revocation whose save failed can be retried in this life of the host
\* until some save succeeds: the device stays in unsaved_revocations as long as
\* the file still lists it.
TrustFileAgrees ==
  /\ Paired(devices) \subseteq Paired(disk)
  /\ \A d \in Devices : (decision[d] = "unsaved" /\ d \in Paired(disk)) =>
                           d \in unsaved \union Paired(devices)

\* One invitation pairs at most one device, whatever is claimed, expired,
\* cancelled, or retried in between.
OneApprovalPerInvitation == approvals <= issued

\* Unpairing a device, however its save ends, and revoking its permit both stop
\* the relays that serve it: one by the device's task, which notices the closed
\* connection and wakes the host, the other by the wake that follows the flag.
WithdrawnStopsServing ==
  \A i \in Ids :
    (i \in served /\ (i \in revoked \/ sessions[i] \notin Paired(devices))) ~> (i \notin served)

\* docs/device-pairing.md on revocation: reconnecting "must fail until a new
\* pairing is approved", and revocation "survives a desktop restart". A device
\* whose revocation was acknowledged is not trusted without a new approval.
RevokedUntilApproved == \A d \in Devices : decision[d] = "revoked" => d \notin Paired(devices)
=============================================================================
