-------------------------- MODULE DeviceTrustProofs --------------------------
(***************************************************************************)
(* Proofs about device pairing and session admission, for any devices,     *)
(* permission sets and codes and any value of every limit: the crash, the  *)
(* failing saves and the interleavings of the device tasks included.       *)
(***************************************************************************)
EXTENDS DeviceTrust, FiniteSetTheorems, TLAPS

(***************************************************************************)
(* The access registry by itself, for any participants, any capacity and   *)
(* any number of identities.                                               *)
(***************************************************************************)

\* Every held permit is registered and was issued before, which is how revoke
\* and revoke_all reach the permits that are authorized.
Reachable ==
  /\ authorized \subseteq held
  /\ \A i \in held : sessions[i] # NoParticipant /\ i < next

\* The inductive invariant.
AccessInv == AccessTypeOK /\ Reachable /\ LatchedMeansSilent

LEMMA AccessStarts == AccessInit => AccessInv
<1> SUFFICES ASSUME AccessInit PROVE AccessInv
  OBVIOUS
<1>1. RegistryTypes BY SessionsAssumption DEF AccessInit, RegistryTypes, Ids
<1>2. AccessFlags BY DEF AccessInit, AccessFlags
<1>3. Reachable /\ LatchedMeansSilent BY DEF AccessInit, Reachable, LatchedMeansSilent
<1> QED BY <1>1, <1>2, <1>3 DEF AccessInv, AccessTypeOK

\* One step of the registry keeps the invariant, and neither revives a permit
\* nor changes the entry of one that stays held.
LEMMA AccessPreserved ==
  ASSUME AccessInv, [AccessNext]_accessVars
  PROVE  /\ AccessInv'
         /\ \A i \in authorized' \ authorized : i = next /\ i \notin held
         /\ \A i \in held \cap held' : sessions[i] # NoParticipant /\ sessions'[i] = sessions[i]
<1> DEFINE Fresh == \A i \in authorized' \ authorized : i = next /\ i \notin held
           Kept == \A i \in held \cap held' : sessions[i] # NoParticipant /\ sessions'[i] = sessions[i]
<1> USE SessionsAssumption, ParticipantsAssumption
    DEF AccessInv, AccessTypeOK, Reachable, LatchedMeansSilent, Ids
<1>1. ASSUME NEW p \in Participants, Open(p) PROVE AccessInv' /\ Fresh /\ Kept
  <2> USE <1>1 DEF Open, Accepts, NextId, Pruned
  <2>1. RegistryTypes' BY DEF RegistryTypes
  <2>2. AccessFlags' BY DEF AccessFlags
  <2>3. Reachable' BY DEF RegistryTypes
  <2>4. LatchedMeansSilent' OBVIOUS
  <2>5. Fresh /\ Kept BY DEF RegistryTypes
  <2> QED BY <2>1, <2>2, <2>3, <2>4, <2>5
<1>2. ASSUME NEW p \in Participants, OpenRefused(p) PROVE AccessInv' /\ Fresh /\ Kept
  <2> USE <1>2 DEF OpenRefused, Accepts, Pruned
  <2>1. RegistryTypes' BY DEF RegistryTypes
  <2>2. AccessFlags' BY DEF AccessFlags
  <2>3. Reachable' /\ LatchedMeansSilent' /\ Fresh /\ Kept BY DEF RegistryTypes
  <2> QED BY <2>1, <2>2, <2>3
<1>3. ASSUME NEW i \in Ids, EndPermit(i) \/ ReleasePermit(i) PROVE AccessInv' /\ Fresh /\ Kept
  <2> USE <1>3 DEF EndPermit, ReleasePermit
  <2>1. RegistryTypes' BY DEF RegistryTypes
  <2>2. AccessFlags' BY DEF AccessFlags
  <2>3. Reachable' /\ LatchedMeansSilent' /\ Fresh /\ Kept BY DEF RegistryTypes
  <2> QED BY <2>1, <2>2, <2>3
<1>4. ASSUME NEW i \in Ids, Revoke(i) \/ Serve(i) PROVE AccessInv' /\ Fresh /\ Kept
  <2> USE <1>4 DEF Revoke, Serve, Notify
  <2>1. RegistryTypes' BY DEF RegistryTypes
  <2>2. AccessFlags' BY DEF AccessFlags
  <2>3. Reachable' /\ LatchedMeansSilent' /\ Fresh /\ Kept BY DEF RegistryTypes
  <2> QED BY <2>1, <2>2, <2>3
<1>5. CASE RevokeAll
  <2> USE <1>5 DEF RevokeAll, Notify
  <2>1. RegistryTypes' BY DEF RegistryTypes
  <2>2. AccessFlags' BY DEF AccessFlags
  <2>3. authorized' = {}
    BY DEF RegistryTypes
  <2>4. Reachable' /\ LatchedMeansSilent' /\ Fresh /\ Kept BY <2>3 DEF RegistryTypes
  <2> QED BY <2>1, <2>2, <2>4
<1>6. CASE AllowNewSessions \/ ServiceRelays
  <2> USE <1>6 DEF AllowNewSessions, ServiceRelays
  <2>1. RegistryTypes' BY DEF RegistryTypes
  <2>2. AccessFlags' BY DEF AccessFlags
  <2>3. Reachable' /\ LatchedMeansSilent' /\ Fresh /\ Kept BY DEF RegistryTypes
  <2> QED BY <2>1, <2>2, <2>3
<1>7. CASE UNCHANGED accessVars
  BY <1>7 DEF accessVars, RegistryTypes, AccessFlags
<1> QED
  BY <1>1, <1>2, <1>3, <1>4, <1>5, <1>6, <1>7 DEF AccessNext

\* The entries alone, which is what open counts.
RegistryFits == Cardinality(Registered(sessions)) <= MaxSessions

LEMMA RegisteredFinite ==
  \A map : IsFiniteSet(Registered(map))
<1>1. IsFiniteSet(Ids)
  BY SessionsAssumption, FS_Interval DEF Ids
<1>2. ASSUME NEW map PROVE IsFiniteSet(Registered(map))
  <2>1. Registered(map) \in SUBSET Ids BY DEF Registered
  <2> QED BY <1>1, <2>1, FS_Subset
<1> QED BY <1>2

\* Pruning takes entries away, and open adds one where there is room.
LEMMA CapacityPreserved ==
  ASSUME RegistryTypes, RegistryFits, [AccessNext]_accessVars
  PROVE  RegistryFits'
<1>1. ASSUME NEW p \in Participants, Open(p) PROVE RegistryFits'
  <2> DEFINE old == Registered(Pruned)
  <2>1. Cardinality(old) < MaxSessions /\ Pruned \in [Ids -> Participants \union {NoParticipant}]
    BY <1>1 DEF Open, Pruned, RegistryTypes
  <2>2. IsFiniteSet(old) /\ Cardinality(old) \in Nat
    BY RegisteredFinite, FS_CardinalityType
  <2>3. Registered(sessions)' = old \union {next}
    <3>1. sessions' = [Pruned EXCEPT ![next] = p] /\ next \in Ids /\ p # NoParticipant
      BY <1>1, ParticipantsAssumption DEF Open
    <3> QED BY <2>1, <3>1 DEF Registered
  <2> HIDE DEF old
  <2>4. Cardinality(old \union {next}) <= Cardinality(old) + 1
    BY <2>2, FS_AddElement
  <2>5. Cardinality(old \union {next}) \in Nat
    BY <2>2, FS_AddElement, FS_CardinalityType
  <2> QED BY <2>1, <2>2, <2>3, <2>4, <2>5, SessionsAssumption DEF RegistryFits
<1>2. ASSUME NEW p \in Participants, OpenRefused(p) PROVE RegistryFits'
  <2>1. Registered(sessions)' \in SUBSET Registered(sessions)
    BY <1>2 DEF OpenRefused, Pruned, Registered, RegistryTypes
  <2>2. Cardinality(Registered(sessions)') <= Cardinality(Registered(sessions))
    BY <2>1, RegisteredFinite, FS_Subset
  <2>3. Cardinality(Registered(sessions)) \in Nat /\ Cardinality(Registered(sessions)') \in Nat
    BY <2>1, RegisteredFinite, FS_CardinalityType, FS_Subset
  <2> QED BY <2>2, <2>3, SessionsAssumption DEF RegistryFits
<1>3. CASE UNCHANGED sessions
  BY <1>3 DEF RegistryFits, Registered
<1> QED
  BY <1>1, <1>2, <1>3 DEF AccessNext, accessVars, EndPermit, ReleasePermit, Revoke, Serve, RevokeAll,
     AllowNewSessions, ServiceRelays

\* What is held is registered, so that it fits too.
LEMMA HeldFits ==
  ASSUME AccessInv, RegistryFits
  PROVE  WithinCapacity
<1>1. held \in SUBSET Registered(sessions)
  BY DEF AccessInv, AccessTypeOK, RegistryTypes, Reachable, Registered
<1>2. Cardinality(held) <= Cardinality(Registered(sessions))
  BY <1>1, RegisteredFinite, FS_Subset
<1>3. Cardinality(held) \in Nat /\ Cardinality(Registered(sessions)) \in Nat
  BY <1>1, RegisteredFinite, FS_CardinalityType, FS_Subset
<1> QED BY <1>2, <1>3, SessionsAssumption DEF RegistryFits, WithinCapacity

LEMMA RegistryStartsEmpty == AccessInit => RegistryFits
<1> SUFFICES ASSUME AccessInit PROVE RegistryFits
  OBVIOUS
<1>1. Registered(sessions) = {} BY DEF AccessInit, Registered
<1> QED BY <1>1, FS_EmptySet, SessionsAssumption DEF RegistryFits

\* However connections open, end and are forgotten, there are never more entries
\* in the registry than its capacity, and never more permits outstanding.
THEOREM RegistryWithinCapacity == AccessSpec => []WithinCapacity
<1>1. AccessInv => RegistryTypes BY DEF AccessInv, AccessTypeOK
<1>2. AccessInv /\ RegistryFits /\ [AccessNext]_accessVars => RegistryFits'
  BY <1>1, CapacityPreserved
<1>3. AccessInv /\ RegistryFits => WithinCapacity BY HeldFits
<1> QED
  BY <1>2, <1>3, AccessStarts, AccessPreserved, RegistryStartsEmpty, PTL DEF AccessSpec

\* The registry's state is well typed: no identity beyond the last is issued.
THEOREM AccessTypeCorrect == AccessSpec => []AccessTypeOK
<1>1. AccessInv => AccessTypeOK BY DEF AccessInv
<1> QED BY <1>1, AccessStarts, AccessPreserved, PTL DEF AccessSpec

\* While admission is latched by revoke_all, no permit is authorized.
THEOREM GlobalRevocation == AccessSpec => []LatchedMeansSilent
<1>1. AccessInv => LatchedMeansSilent BY DEF AccessInv
<1> QED BY <1>1, AccessStarts, AccessPreserved, PTL DEF AccessSpec

\* A held permit keeps its meaning: a revoked or ended one is never authorized
\* again, because only open sets a flag and it sets that of a new identity, and
\* its entry stays in the registry unchanged.
THEOREM StablePermits == AccessSpec => PermitsAreStable
<1>1. AccessInv /\ [AccessNext]_accessVars =>
        [/\ \A i \in authorized' \ authorized : i = next /\ i \notin held
         /\ \A i \in held \cap held' : sessions[i] # NoParticipant /\ sessions'[i] = sessions[i]]_accessVars
  BY AccessPreserved
<1> QED BY <1>1, AccessStarts, AccessPreserved, PTL DEF AccessSpec, PermitsAreStable

-----------------------------------------------------------------------------
(* The registry as the trust worker and the device tasks use it.           *)

\* A permit the trust worker or a device task refers to is held, so that its
\* registry entry cannot be pruned under it, and was issued before.
PermitsTracked ==
  \A i \in Ids :
    /\ task[i] # "none" => i < next
    /\ LiveTask(i) \/ i \in admissions \union queue => i \in held /\ task[i] # "none"
    /\ i \in queue => task[i] \in {"queued", "ended"} /\ i \notin admissions
    /\ i \in admissions => task[i] \in {"admitted", "joined", "ended"}

\* A revocation the administrator was told is not saved is remembered.
UnsavedRemembered == \A d \in Devices : decision[d] = "unsaved" => d \in unsaved

\* The current invitation has not been approved, and only it has a candidate.
InvitationUnspent ==
  /\ issued <= MaxInvitations /\ approvals <= issued
  /\ invitation.token # 0 => approvals < issued
  /\ invitation.candidate # NoDevice => invitation.token # 0

FileInv == Paired(devices) \subseteq Paired(disk) /\ UnsavedRemembered

\* The inductive invariant.
TrustInv ==
  /\ AccessInv /\ TrustTypes /\ stopped \in BOOLEAN
  /\ PermitsTracked /\ LiveSessionsAreTrusted /\ FileInv /\ InvitationUnspent

-----------------------------------------------------------------------------
(* Operators.                                                              *)

\* The registry's invariant survives what ends permits and nothing else.
LEMMA PermitsOnlyEnd ==
  ASSUME AccessInv, UNCHANGED registryVars, authorized' \subseteq authorized
  PROVE  AccessInv'
<1>1. RegistryTypes' BY DEF AccessInv, AccessTypeOK, RegistryTypes, registryVars
<1>2. AccessFlags' BY DEF AccessInv, AccessTypeOK, AccessFlags, registryVars
<1>3. Reachable' BY DEF AccessInv, Reachable, registryVars
<1>4. LatchedMeansSilent' BY DEF AccessInv, LatchedMeansSilent, registryVars
<1> QED BY <1>1, <1>2, <1>3, <1>4 DEF AccessInv, AccessTypeOK

\* A permission set that is granted is not the absence of one.
LEMMA GrantedIsSomething == NoPermissions \notin Permissions
BY TrustAssumption DEF NoPermissions, Permissions

\* What pairing, unpairing and switching diagnostics do to a map of devices.
LEMMA TrustMapUpdates ==
  ASSUME NEW map \in TrustMap, NEW d \in Devices
  PROVE  /\ \A perm \in Permissions :
              /\ [map EXCEPT ![d] = perm] \in TrustMap
              /\ Paired([map EXCEPT ![d] = perm]) = Paired(map) \union {d}
         /\ [map EXCEPT ![d] = NoPermissions] \in TrustMap
         /\ Paired([map EXCEPT ![d] = NoPermissions]) = Paired(map) \ {d}
<1>1. ASSUME NEW perm \in Permissions
      PROVE  /\ [map EXCEPT ![d] = perm] \in TrustMap
             /\ Paired([map EXCEPT ![d] = perm]) = Paired(map) \union {d}
  BY GrantedIsSomething DEF TrustMap, Paired
<1>2. /\ [map EXCEPT ![d] = NoPermissions] \in TrustMap
      /\ Paired([map EXCEPT ![d] = NoPermissions]) = Paired(map) \ {d}
  BY DEF TrustMap, Paired
<1> QED BY <1>1, <1>2

SameGrants(map, other) == \A e \in Devices : other[e].grant = map[e].grant

\* Switching diagnostics pairs and unpairs nobody and changes no grant.
LEMMA DiagnosticsUpdate ==
  ASSUME NEW map \in TrustMap, NEW d \in Paired(map), NEW b \in Diagnostics
  PROVE  /\ [map EXCEPT ![d].diagnostics = b] \in TrustMap
         /\ Paired([map EXCEPT ![d].diagnostics = b]) = Paired(map)
         /\ SameGrants(map, [map EXCEPT ![d].diagnostics = b])
<1>1. d \in Devices /\ map[d] \in Permissions BY DEF TrustMap, Paired
<1>2. [map[d] EXCEPT !.diagnostics = b] \in Permissions
      /\ [map[d] EXCEPT !.diagnostics = b].grant = map[d].grant
  BY <1>1 DEF Permissions
<1>3. [map EXCEPT ![d].diagnostics = b] = [map EXCEPT ![d] = [map[d] EXCEPT !.diagnostics = b]]
  OBVIOUS
<1> QED BY <1>1, <1>2, <1>3, TrustMapUpdates DEF Paired, TrustMap, SameGrants

\* The invitation the worker sees at a command is the one it had, or none.
LEMMA CurrentOrNone ==
  ASSUME TrustTypes
  PROVE  /\ NoInvitation \in [token : 0 .. MaxInvitations, expired : BOOLEAN,
                     candidate : Devices \union {NoDevice}, code : Codes \union {NoDevice}]
         /\ CurrentInvitation \in {NoInvitation, invitation}
         /\ NoInvitation.token = 0 /\ NoInvitation.candidate = NoDevice
BY TrustAssumption DEF NoInvitation, CurrentInvitation

-----------------------------------------------------------------------------
(* The steps, one part of the invariant at a time.                         *)

\* What the worker's commands do to the permits: some end, the rest is left
\* alone. The commands are those that begin with State::expire.
Command ==
  \/ Invite \/ Pending \/ CancelInvitation
  \/ \E perm \in Permissions, r \in SaveResults : perm.diagnostics = FALSE /\ Approve(perm, r)
  \/ \E d \in Devices, r \in SaveResults : RevokeDevice(d, r)
  \/ \E d \in Devices, b \in Diagnostics, r \in SaveResults : SetDiagnostics(d, b, r)
  \/ \E d \in Devices, t \in 1 .. MaxInvitations, c \in Codes : Claim(d, t, c)

LEMMA CommandsEndPermits ==
  ASSUME Command
  PROVE  /\ UNCHANGED <<registryVars, task, granted, queue, stopped, crashes>>
         /\ \E kept : kept \subseteq LiveAdmissions /\ KeepAdmissions(kept)
<1> USE DEF registryVars, taskVars, adminVars
<1>1. CASE Invite BY <1>1 DEF Invite
<1>2. CASE Pending BY <1>2 DEF Pending
<1>3. CASE CancelInvitation BY <1>3 DEF CancelInvitation
<1>4. ASSUME NEW perm \in Permissions, NEW r \in SaveResults, Approve(perm, r)
      PROVE  /\ UNCHANGED <<registryVars, task, granted, queue, stopped, crashes>>
             /\ \E kept : kept \subseteq LiveAdmissions /\ KeepAdmissions(kept)
  <2>1. UNCHANGED <<registryVars, task, granted, queue, stopped, crashes>> BY <1>4 DEF Approve
  <2>2. CASE r = "ok"
    <3>1. KeepAdmissions(OthersAdmitted(invitation.candidate)) BY <1>4, <2>2 DEF Approve
    <3> QED BY <2>1, <3>1 DEF OthersAdmitted
  <2>3. CASE r # "ok"
    <3>1. KeepAdmissions(LiveAdmissions) BY <1>4, <2>3 DEF Approve
    <3> QED BY <2>1, <3>1
  <2> QED BY <2>2, <2>3
<1>5. ASSUME NEW d \in Devices, NEW r \in SaveResults, RevokeDevice(d, r)
      PROVE  /\ UNCHANGED <<registryVars, task, granted, queue, stopped, crashes>>
             /\ \E kept : kept \subseteq LiveAdmissions /\ KeepAdmissions(kept)
  BY <1>5 DEF RevokeDevice, OthersAdmitted
<1>6. ASSUME NEW d \in Devices, NEW b \in Diagnostics, NEW r \in SaveResults,
             SetDiagnostics(d, b, r)
      PROVE  /\ UNCHANGED <<registryVars, task, granted, queue, stopped, crashes>>
             /\ \E kept : kept \subseteq LiveAdmissions /\ KeepAdmissions(kept)
  BY <1>6 DEF SetDiagnostics
<1>7. ASSUME NEW d \in Devices, NEW t \in 1 .. MaxInvitations, NEW c \in Codes, Claim(d, t, c)
      PROVE  /\ UNCHANGED <<registryVars, task, granted, queue, stopped, crashes>>
             /\ \E kept : kept \subseteq LiveAdmissions /\ KeepAdmissions(kept)
  BY <1>7 DEF Claim
<1> QED BY <1>1, <1>2, <1>3, <1>4, <1>5, <1>6, <1>7 DEF Command

\* The steps of the system, with the worker's commands as one of them.
LEMMA StepKinds ==
  ASSUME [Next]_vars
  PROVE  \/ Command \/ Shutdown \/ WorkerExit \/ InvitationExpires \/ Restart \/ AccessStep
         \/ \E d \in Devices : Connect(d) \/ EnrollmentEnds(d)
         \/ \E i \in Ids : \/ SubmitAdmit(i) \/ Admit(i) \/ RefuseAdmit(i) \/ Join(i)
                           \/ EndTask(i) \/ Disconnect(i) \/ Forget(i)
         \/ UNCHANGED vars
BY DEF Next, AdminNext, DeviceNext, Command

\* Every step but a restart is a step of the access registry or ends permits.
LEMMA RegistryPreserved ==
  ASSUME AccessInv, [Next]_vars
  PROVE  /\ AccessInv'
         /\ \A i \in authorized' \ authorized : i = next /\ i \notin held
         /\ \A i \in held \cap held' : sessions[i] # NoParticipant /\ sessions'[i] = sessions[i]
<1> DEFINE Goal ==
      /\ AccessInv'
      /\ \A i \in authorized' \ authorized : i = next /\ i \notin held
      /\ \A i \in held \cap held' : sessions[i] # NoParticipant /\ sessions'[i] = sessions[i]
<1> SUFFICES Goal OBVIOUS
<1>0. ASSUME UNCHANGED registryVars, authorized' \subseteq authorized PROVE Goal
  BY <1>0, PermitsOnlyEnd DEF registryVars, AccessInv, Reachable
<1>a. ASSUME [AccessNext]_accessVars PROVE Goal
  BY <1>a, AccessPreserved
<1>1. CASE Command
  <2>1. PICK kept : KeepAdmissions(kept) BY <1>1, CommandsEndPermits
  <2>2. authorized' \subseteq authorized BY <2>1 DEF KeepAdmissions
  <2> QED BY <1>0, <1>1, <2>2, CommandsEndPermits
<1>2. CASE Shutdown \/ InvitationExpires \/ UNCHANGED vars
  <2>1. UNCHANGED accessVars BY <1>2 DEF Shutdown, InvitationExpires, vars
  <2> QED BY <1>a, <2>1
<1>3. CASE WorkerExit
  <2>1. UNCHANGED registryVars /\ authorized' \subseteq authorized BY <1>3 DEF WorkerExit
  <2> QED BY <1>0, <2>1
<1>4. CASE Restart
  <2>1. AccessInit' BY <1>4 DEF Restart, Started, AccessInit
  <2>2. AccessInv' BY <2>1, AccessStarts, PTL
  <2> QED BY <2>1, <2>2 DEF AccessInit
<1>5. CASE AccessStep
  <2>1. AccessNext BY <1>5 DEF AccessStep, AccessNext
  <2> QED BY <1>a, <2>1
<1>6. ASSUME NEW d \in Devices, Connect(d) \/ EnrollmentEnds(d) PROVE Goal
  <2>1. [AccessNext]_accessVars BY <1>6 DEF Connect, EnrollmentEnds, AccessNext, Devices
  <2> QED BY <1>a, <2>1
<1>7. ASSUME NEW i \in Ids, SubmitAdmit(i) \/ Disconnect(i) \/ Join(i) \/ Forget(i) PROVE Goal
  <2>1. [AccessNext]_accessVars BY <1>7 DEF SubmitAdmit, Disconnect, Join, Forget, AccessNext
  <2> QED BY <1>a, <2>1
<1>8. ASSUME NEW i \in Ids, Admit(i) \/ RefuseAdmit(i) PROVE Goal
  <2>1. UNCHANGED registryVars /\ authorized' \subseteq authorized
    BY <1>8 DEF Admit, RefuseAdmit, KeepAdmissions
  <2> QED BY <1>0, <2>1
<1>9. ASSUME NEW i \in Ids, EndTask(i) PROVE Goal
  <2> USE <1>9 DEF EndTask, LeaveWakes, AccessInv
  <2>1. RegistryTypes' BY DEF AccessTypeOK, RegistryTypes
  <2>2. AccessFlags' BY DEF AccessTypeOK, AccessFlags
  <2>3. Reachable' /\ LatchedMeansSilent' BY DEF Reachable, LatchedMeansSilent
  <2> QED BY <2>1, <2>2, <2>3 DEF AccessTypeOK, Reachable
<1> HIDE DEF Goal
<1> QED BY <1>1, <1>2, <1>3, <1>4, <1>5, <1>6, <1>7, <1>8, <1>9, StepKinds

\* The worker's and the tasks' state stays well typed.
LEMMA TypesPreserved ==
  ASSUME TrustInv, [Next]_vars
  PROVE  TrustTypes' /\ stopped' \in BOOLEAN
<1> DEFINE Invitations == [token : 0 .. MaxInvitations, expired : BOOLEAN,
                    candidate : Devices \union {NoDevice}, code : Codes \union {NoDevice}]
<1> SUFFICES TrustTypes' /\ stopped' \in BOOLEAN OBVIOUS
<1>0. TrustTypes /\ stopped \in BOOLEAN /\ next \in 1 .. LastId + 1 /\ sessions \in [Ids -> Participants \union {NoParticipant}]
  BY DEF TrustInv, AccessInv, AccessTypeOK, RegistryTypes
<1>c. NoInvitation \in Invitations /\ CurrentInvitation \in Invitations
  BY <1>0, CurrentOrNone DEF TrustTypes
<1>k. ASSUME NEW kept, kept \subseteq Ids, KeepAdmissions(kept) PROVE admissions' \subseteq Ids /\ conn' \subseteq Ids
  BY <1>0, <1>k DEF KeepAdmissions, TrustTypes
<1>l. LiveAdmissions \subseteq Ids BY <1>0 DEF LiveAdmissions, TrustTypes
<1> HIDE DEF Invitations
<1> USE TrustAssumption DEF taskVars, adminVars
<1>1. CASE Invite
  <2>1. invitation' \in Invitations
    <3>1. issued + 1 \in 0 .. MaxInvitations BY <1>0, <1>1 DEF Invite, TrustTypes
    <3> QED BY <1>1, <1>c, <3>1 DEF Invite, Invitations
  <2>2. admissions' \subseteq Ids /\ conn' \subseteq Ids BY <1>1, <1>k, <1>l DEF Invite
  <2>3. TrustTypes' BY <1>0, <1>1, <2>1, <2>2 DEF Invite, TrustTypes, Invitations
  <2> QED BY <1>0, <1>1, <2>3 DEF Invite
<1>2. CASE Pending
  <2>1. admissions' \subseteq Ids /\ conn' \subseteq Ids BY <1>2, <1>k, <1>l DEF Pending
  <2>2. shown' \in [device : Devices \union {NoDevice}, code : Codes \union {NoDevice}]
    BY <1>2, <1>c DEF Pending, Invitations
  <2>3. TrustTypes' BY <1>0, <1>2, <1>c, <2>1, <2>2 DEF Pending, TrustTypes, Invitations
  <2> QED BY <1>0, <1>2, <2>3 DEF Pending
<1>3. CASE CancelInvitation
  <2>1. admissions' \subseteq Ids /\ conn' \subseteq Ids BY <1>3, <1>k, <1>l DEF CancelInvitation
  <2>2. TrustTypes' BY <1>0, <1>3, <1>c, <2>1 DEF CancelInvitation, TrustTypes, Invitations
  <2> QED BY <1>0, <1>3, <2>2 DEF CancelInvitation
<1>4. ASSUME NEW perm \in Permissions, NEW r \in SaveResults, Approve(perm, r)
      PROVE  TrustTypes' /\ stopped' \in BOOLEAN
  <2> DEFINE d == invitation.candidate
             map == [devices EXCEPT ![d] = perm]
  <2>1. d \in Devices
    BY <1>0, <1>4, CurrentOrNone DEF Approve, Approvable, TrustTypes
  <2>2. map \in TrustMap BY <1>0, <2>1, TrustMapUpdates DEF TrustTypes
  <2>3. disk' \in TrustMap BY <1>0, <1>4, <2>2 DEF Approve, Save, TrustTypes
  <2>4. CASE r = "ok"
    <3>1. admissions' \subseteq Ids /\ conn' \subseteq Ids
      <4>1. KeepAdmissions(OthersAdmitted(d)) BY <1>4, <2>4 DEF Approve
      <4>2. OthersAdmitted(d) \subseteq Ids BY <1>l DEF OthersAdmitted
      <4> QED BY <1>k, <4>1, <4>2
    <3>2. decision' \in [Devices -> {"none", "approved", "revoked", "unsaved"}]
      BY <1>0, <1>4, <2>4 DEF Approve, Settled, TrustTypes
    <3>3. /\ devices' = map /\ unsaved' = {} /\ invitation' = NoInvitation
          /\ enroll' = [enroll EXCEPT ![d] = 0] /\ approvals' = approvals + 1
          /\ UNCHANGED <<queue, stopped, shown, issued, crashes, task, granted>>
      BY <1>4, <2>4 DEF Approve, SpentInvitation
    <3> HIDE DEF d, map
    <3>4. TrustTypes'
      <4>1. enroll' \in [Devices -> 0 .. MaxInvitations]
        <5>1. enroll \in [Devices -> 0 .. MaxInvitations] BY <1>0 DEF TrustTypes
        <5>2. 0 \in 0 .. MaxInvitations OBVIOUS
        <5> QED BY <3>3, <5>1, <5>2
      <4>2. approvals' \in Nat BY <1>0, <3>3 DEF TrustTypes
      <4> QED BY <1>0, <1>c, <2>2, <2>3, <3>1, <3>2, <3>3, <4>1, <4>2 DEF TrustTypes, Invitations
    <3> QED BY <1>0, <3>3, <3>4
  <2>5. CASE r # "ok"
    <3>1. admissions' \subseteq Ids /\ conn' \subseteq Ids
      BY <1>4, <1>k, <1>l, <2>5 DEF Approve
    <3>2. UNCHANGED <<devices, unsaved, invitation, enroll, approvals, decision,
                      queue, stopped, shown, issued, crashes, task, granted>>
      BY <1>4, <2>5 DEF Approve
    <3>3. TrustTypes' BY <1>0, <2>3, <3>1, <3>2 DEF TrustTypes
    <3> QED BY <1>0, <3>2, <3>3
  <2> QED BY <2>4, <2>5
<1>5. ASSUME NEW d \in Devices, NEW r \in SaveResults, RevokeDevice(d, r)
      PROVE  TrustTypes' /\ stopped' \in BOOLEAN
  <2> DEFINE map == [devices EXCEPT ![d] = NoPermissions]
  <2>1. map \in TrustMap BY <1>0, TrustMapUpdates DEF TrustTypes
  <2>2. disk' \in TrustMap /\ devices' \in TrustMap
    BY <1>0, <1>5, <2>1 DEF RevokeDevice, Save, TrustTypes
  <2>3. admissions' \subseteq Ids /\ conn' \subseteq Ids
    <3>1. OthersAdmitted(d) \subseteq Ids BY <1>l DEF OthersAdmitted
    <3> QED BY <1>5, <1>k, <3>1 DEF RevokeDevice
  <2>4. decision' \in [Devices -> {"none", "approved", "revoked", "unsaved"}]
    BY <1>0, <1>5 DEF RevokeDevice, Settled, TrustTypes
  <2>5. unsaved' \subseteq Devices BY <1>0, <1>5 DEF RevokeDevice, UnsavedAfter, TrustTypes
  <2>6. TrustTypes'
    BY <1>0, <1>5, <1>c, <2>2, <2>3, <2>4, <2>5 DEF RevokeDevice, TrustTypes, Invitations
  <2> QED BY <1>0, <1>5, <2>6 DEF RevokeDevice
<1>6. ASSUME NEW d \in Devices, NEW b \in Diagnostics, NEW r \in SaveResults,
             SetDiagnostics(d, b, r)
      PROVE  TrustTypes' /\ stopped' \in BOOLEAN
  <2> DEFINE map == [devices EXCEPT ![d].diagnostics = b]
  <2>1. map \in TrustMap BY <1>0, <1>6, DiagnosticsUpdate DEF TrustTypes, SetDiagnostics
  <2> /\ Save(map, r)
      /\ IF r = "ok" THEN devices' = map /\ unsaved' = {} /\ decision' = Settled
                     ELSE UNCHANGED <<devices, unsaved, decision>>
    BY <1>6 DEF SetDiagnostics
  <2> HIDE DEF map
  <2>2. disk' \in TrustMap /\ devices' \in TrustMap
    BY <1>0, <2>1 DEF Save, TrustTypes
  <2>3. admissions' \subseteq Ids /\ conn' \subseteq Ids
    BY <1>6, <1>k, <1>l DEF SetDiagnostics
  <2>4. /\ decision' \in [Devices -> {"none", "approved", "revoked", "unsaved"}]
        /\ unsaved' \subseteq Devices
    BY <1>0 DEF Settled, TrustTypes
  <2>5. /\ invitation' = CurrentInvitation
        /\ UNCHANGED <<queue, stopped, shown, issued, approvals, crashes, taskVars>>
    BY <1>6 DEF SetDiagnostics
  <2>6. TrustTypes'
    BY <1>0, <1>c, <2>2, <2>3, <2>4, <2>5 DEF TrustTypes, Invitations
  <2> QED BY <1>0, <2>5, <2>6
<1>7. ASSUME NEW d \in Devices, NEW t \in 1 .. MaxInvitations, NEW c \in Codes, Claim(d, t, c)
      PROVE  TrustTypes' /\ stopped' \in BOOLEAN
  <2>1. admissions' \subseteq Ids /\ conn' \subseteq Ids BY <1>7, <1>k, <1>l DEF Claim
  <2>2. invitation' \in Invitations BY <1>7, <1>c DEF Claim, Invitations
  <2>3. enroll' \in [Devices -> 0 .. MaxInvitations] BY <1>0, <1>7 DEF Claim, WaitsOn, TrustTypes
  <2>4. TrustTypes' BY <1>0, <1>7, <2>1, <2>2, <2>3 DEF Claim, TrustTypes, Invitations
  <2> QED BY <1>0, <1>7, <2>4 DEF Claim
<1>8. CASE Command
  BY <1>1, <1>2, <1>3, <1>4, <1>5, <1>6, <1>7, <1>8 DEF Command
<1>9. CASE Shutdown \/ WorkerExit
  <2>1. TrustTypes' BY <1>0, <1>9 DEF Shutdown, WorkerExit, TrustTypes
  <2>2. stopped' \in BOOLEAN BY <1>0, <1>9 DEF Shutdown, WorkerExit
  <2> QED BY <2>1, <2>2
<1>10. CASE InvitationExpires
  <2>1. invitation' \in Invitations BY <1>0, <1>10 DEF InvitationExpires, Invitations, TrustTypes
  <2>2. TrustTypes' BY <1>0, <1>10, <2>1 DEF InvitationExpires, TrustTypes, Invitations
  <2> QED BY <1>0, <1>10, <2>2 DEF InvitationExpires
<1>11. CASE Restart
  <2>1. stopped' \in BOOLEAN BY <1>11 DEF Restart, Started
  <2>2. decision' \in [Devices -> {"none", "approved", "revoked", "unsaved"}]
    BY <1>0, <1>11 DEF Restart, TrustTypes
  <2>3. TrustTypes'
    BY <1>0, <1>11, <1>c, <2>2 DEF Restart, Started, TrustTypes, Invitations, NoCandidate
  <2> QED BY <2>1, <2>3
<1>12. CASE AccessStep \/ UNCHANGED vars
  <2>1. UNCHANGED trustVars BY <1>12 DEF AccessStep, vars
  <2>2. TrustTypes' BY <1>0, <2>1 DEF trustVars, TrustTypes
  <2> QED BY <1>0, <2>1, <2>2 DEF trustVars
<1>13. ASSUME NEW d \in Devices, Connect(d) \/ EnrollmentEnds(d)
       PROVE  TrustTypes' /\ stopped' \in BOOLEAN
  <2>1. TrustTypes' BY <1>0, <1>13 DEF Connect, Open, EnrollmentEnds, TrustTypes
  <2> QED BY <1>0, <1>13, <2>1 DEF Connect, EnrollmentEnds
<1>14. ASSUME NEW i \in Ids, SubmitAdmit(i) \/ Join(i) \/ EndTask(i) \/ Disconnect(i) \/ Forget(i)
       PROVE  TrustTypes' /\ stopped' \in BOOLEAN
  <2>1. TrustTypes'
    BY <1>0, <1>14 DEF SubmitAdmit, Join, EndTask, Disconnect, Forget, trustVars, TrustTypes
  <2> QED BY <1>0, <1>14, <2>1 DEF SubmitAdmit, Join, EndTask, Disconnect, Forget, trustVars
<1>15. ASSUME NEW i \in Ids, Admit(i) \/ RefuseAdmit(i)
       PROVE  TrustTypes' /\ stopped' \in BOOLEAN
  <2>1. sessions[i] \in Devices => devices[sessions[i]] \in Permissions \union {NoPermissions}
    BY <1>0 DEF TrustTypes, TrustMap
  <2>2. Admit(i) => sessions[i] \in Devices BY DEF Admit, Admissible, Paired
  <2>3. admissions' \subseteq Ids /\ conn' \subseteq Ids
    BY <1>0, <1>15, <1>k, <1>l DEF Admit, RefuseAdmit, TrustTypes
  <2>4. TrustTypes'
    BY <1>0, <1>15, <1>c, <2>1, <2>2, <2>3 DEF Admit, RefuseAdmit, TrustTypes, Invitations
  <2> QED BY <1>0, <1>15, <2>4 DEF Admit, RefuseAdmit
<1> QED BY <1>8, <1>9, <1>10, <1>11, <1>12, <1>13, <1>14, <1>15, StepKinds

\* A command changes the permissions of no device whose sessions it keeps.
LEMMA CommandsKeepGrants ==
  ASSUME TrustInv, Command
  PROVE  \A i \in admissions' : sessions[i] \in Paired(devices) =>
           /\ sessions[i] \in Paired(devices')
           /\ devices'[sessions[i]].grant = devices[sessions[i]].grant
<1>0. devices \in TrustMap BY DEF TrustInv, TrustTypes
<1> DEFINE Kept(i) == sessions[i] \in Paired(devices) =>
                        /\ sessions[i] \in Paired(devices')
                        /\ devices'[sessions[i]].grant = devices[sessions[i]].grant
<1>1. CASE Invite \/ Pending \/ CancelInvitation
  BY <1>1 DEF Invite, Pending, CancelInvitation
<1>2. ASSUME NEW perm \in Permissions, NEW r \in SaveResults, Approve(perm, r)
      PROVE  \A i \in admissions' : Kept(i)
  <2> DEFINE d == invitation.candidate
  <2>1. d \in Devices
    BY <1>2, CurrentOrNone DEF TrustInv, Approve, Approvable, TrustTypes
  <2>2. CASE r = "ok"
    <3>1. /\ devices' = [devices EXCEPT ![d] = perm]
          /\ admissions' = OthersAdmitted(d)
      BY <1>2, <2>2 DEF Approve, KeepAdmissions
    <3>2. ASSUME NEW i \in admissions' PROVE sessions[i] # d BY <3>1 DEF OthersAdmitted
    <3> QED BY <1>0, <2>1, <3>1, <3>2 DEF Paired, TrustMap
  <2>3. CASE r # "ok" BY <1>2, <2>3 DEF Approve
  <2> QED BY <2>2, <2>3
<1>3. ASSUME NEW d \in Devices, NEW r \in SaveResults, RevokeDevice(d, r)
      PROVE  \A i \in admissions' : Kept(i)
  <2>1. /\ devices' = [devices EXCEPT ![d] = NoPermissions]
        /\ admissions' = OthersAdmitted(d)
    BY <1>3 DEF RevokeDevice, KeepAdmissions
  <2>2. ASSUME NEW i \in admissions' PROVE sessions[i] # d BY <2>1 DEF OthersAdmitted
  <2> QED BY <1>0, <2>1, <2>2 DEF Paired, TrustMap
<1>4. ASSUME NEW d \in Devices, NEW b \in Diagnostics, NEW r \in SaveResults,
             SetDiagnostics(d, b, r)
      PROVE  \A i \in admissions' : Kept(i)
  <2>1. CASE r = "ok"
    <3>1. devices' = [devices EXCEPT ![d].diagnostics = b] /\ d \in Paired(devices)
      BY <1>4, <2>1 DEF SetDiagnostics
    <3> DEFINE map == [devices EXCEPT ![d].diagnostics = b]
    <3>2. d \in Paired(devices) BY <3>1
    <3>a. Paired(map) = Paired(devices) BY <1>0, <3>2, DiagnosticsUpdate
    <3>b. SameGrants(devices, map) BY <1>0, <3>2, DiagnosticsUpdate
    <3>3. devices' = map BY <3>1
    <3> HIDE DEF map
    <3> QED BY <3>a, <3>b, <3>3 DEF Paired, SameGrants
  <2>2. CASE r # "ok" BY <1>4, <2>2 DEF SetDiagnostics
  <2> QED BY <2>1, <2>2
<1>5. ASSUME NEW d \in Devices, NEW t \in 1 .. MaxInvitations, NEW c \in Codes, Claim(d, t, c)
      PROVE  \A i \in admissions' : Kept(i)
  BY <1>5 DEF Claim
<1> QED BY <1>1, <1>2, <1>3, <1>4, <1>5 DEF Command

\* The permits stay tracked and the live sessions stay trusted.
LEMMA SessionsPreserved ==
  ASSUME TrustInv, [Next]_vars
  PROVE  PermitsTracked' /\ LiveSessionsAreTrusted'
<1> SUFFICES PermitsTracked' /\ LiveSessionsAreTrusted' OBVIOUS
<1>0. /\ PermitsTracked /\ LiveSessionsAreTrusted
      /\ authorized \subseteq held /\ \A i \in held : sessions[i] # NoParticipant /\ i < next
      /\ task \in [Ids -> {"none", "opened", "queued", "admitted", "joined", "ended"}]
      /\ granted \in [Ids -> Permissions \union {NoPermissions}]
      /\ admissions \subseteq Ids /\ queue \subseteq Ids /\ held \subseteq Ids
      /\ next \in 1 .. LastId + 1 /\ sessions \in [Ids -> Participants \union {NoParticipant}]
  BY DEF TrustInv, AccessInv, Reachable, TrustTypes, AccessTypeOK, RegistryTypes
<1> USE DEF PermitsTracked, LiveSessionsAreTrusted, LiveTask, registryVars, taskVars
<1>1. CASE Command
  <2>1. UNCHANGED <<registryVars, task, granted, queue>> BY <1>1, CommandsEndPermits
  <2>2. PICK kept : kept \subseteq LiveAdmissions /\ KeepAdmissions(kept)
    BY <1>1, CommandsEndPermits
  <2>3. PermitsTracked' BY <1>0, <2>1, <2>2 DEF KeepAdmissions, LiveAdmissions
  <2>4. ASSUME NEW i \in Ids, task'[i] \in {"admitted", "joined"}, i \in authorized' \cap conn'
        PROVE  i \in admissions' /\ sessions[i] \in Paired(devices)
               /\ granted[i].grant = devices[sessions[i]].grant
    BY <1>0, <2>1, <2>2, <2>4 DEF KeepAdmissions
  <2>5. LiveSessionsAreTrusted' BY <1>1, <2>1, <2>4, CommandsKeepGrants
  <2> QED BY <2>3, <2>5
<1>2. CASE Shutdown \/ InvitationExpires \/ UNCHANGED vars
  BY <1>0, <1>2 DEF Shutdown, InvitationExpires, vars, accessVars, trustVars
<1>3. CASE WorkerExit
  BY <1>0, <1>3 DEF WorkerExit
<1>4. CASE Restart
  BY <1>4 DEF Restart, Started
<1>5. CASE AccessStep
  <2>1. UNCHANGED <<trustVars, sessions, next, held>> /\ authorized' \subseteq authorized
    BY <1>5 DEF AccessStep, Revoke, RevokeAll, AllowNewSessions, ServiceRelays
  <2> QED BY <1>0, <2>1 DEF trustVars
<1>6. ASSUME NEW d \in Devices, EnrollmentEnds(d) PROVE PermitsTracked' /\ LiveSessionsAreTrusted'
  BY <1>0, <1>6 DEF EnrollmentEnds, accessVars
<1>7. ASSUME NEW d \in Devices, Connect(d) PROVE PermitsTracked' /\ LiveSessionsAreTrusted'
  <2>1. /\ next \in Ids /\ next' = next + 1 /\ held' = held \union {next}
        /\ authorized' = authorized \union {next} /\ conn' = conn \union {next}
        /\ task' = [task EXCEPT ![next] = "opened"]
        /\ UNCHANGED <<admissions, queue, granted, devices>>
    BY <1>7 DEF Connect, Open, NextId
  <2>2. \A i \in held : sessions'[i] = sessions[i] /\ i # next /\ i \in Ids
    BY <1>0, <1>7 DEF Connect, Open, Pruned, Ids
  <2>3. PermitsTracked' BY <1>0, <2>1 DEF Ids
  <2>4. ASSUME NEW i \in Ids, task'[i] \in {"admitted", "joined"}, i \in authorized' \cap conn'
        PROVE  i \in held /\ i # next /\ task[i] = task'[i] /\ i \in authorized \cap conn
    BY <1>0, <2>1, <2>4
  <2>5. LiveSessionsAreTrusted' BY <1>0, <2>1, <2>2, <2>4
  <2> QED BY <2>3, <2>5
<1>8. ASSUME NEW i \in Ids, SubmitAdmit(i) PROVE PermitsTracked' /\ LiveSessionsAreTrusted'
  <2>1. PermitsTracked' BY <1>0, <1>8 DEF SubmitAdmit, accessVars
  <2>2. LiveSessionsAreTrusted' BY <1>0, <1>8 DEF SubmitAdmit, accessVars
  <2> QED BY <2>1, <2>2
<1>9. ASSUME NEW i \in Ids, Admit(i) PROVE PermitsTracked' /\ LiveSessionsAreTrusted'
  <2>1. /\ i \in queue /\ queue' = queue \ {i} /\ task[i] = "queued" /\ i \in authorized \cap conn
        /\ sessions[i] \in Paired(devices)
        /\ admissions' = LiveAdmissions \union {i}
        /\ authorized' = authorized \ (admissions \ (LiveAdmissions \union {i}))
        /\ conn' = conn \ (admissions \ (LiveAdmissions \union {i}))
        /\ granted' = [granted EXCEPT ![i] = devices[sessions[i]]]
        /\ task' = [task EXCEPT ![i] = "admitted"]
        /\ UNCHANGED <<devices, sessions, held, next>>
    BY <1>9 DEF Admit, Admissible, KeepAdmissions
  <2>2. PermitsTracked' BY <1>0, <2>1 DEF LiveAdmissions
  <2>3. LiveSessionsAreTrusted' BY <1>0, <2>1 DEF LiveAdmissions
  <2> QED BY <2>2, <2>3
<1>10. ASSUME NEW i \in Ids, RefuseAdmit(i) PROVE PermitsTracked' /\ LiveSessionsAreTrusted'
  <2>1. PermitsTracked' BY <1>0, <1>10 DEF RefuseAdmit, LiveAdmissions
  <2>2. LiveSessionsAreTrusted' BY <1>0, <1>10 DEF RefuseAdmit, LiveAdmissions
  <2> QED BY <2>1, <2>2
<1>11. ASSUME NEW i \in Ids, Join(i) PROVE PermitsTracked' /\ LiveSessionsAreTrusted'
  <2>1. PermitsTracked' BY <1>0, <1>11 DEF Join, Serve
  <2>2. LiveSessionsAreTrusted' BY <1>0, <1>11 DEF Join, Serve
  <2> QED BY <2>1, <2>2
<1>12. ASSUME NEW i \in Ids, EndTask(i) PROVE PermitsTracked' /\ LiveSessionsAreTrusted'
  <2>1. PermitsTracked' BY <1>0, <1>12 DEF EndTask
  <2>2. LiveSessionsAreTrusted' BY <1>0, <1>12 DEF EndTask
  <2> QED BY <2>1, <2>2
<1>13. ASSUME NEW i \in Ids, Disconnect(i) \/ Forget(i) PROVE PermitsTracked' /\ LiveSessionsAreTrusted'
  <2>1. PermitsTracked' BY <1>0, <1>13 DEF Disconnect, Forget, ReleasePermit, accessVars, trustVars
  <2>2. LiveSessionsAreTrusted'
    BY <1>0, <1>13 DEF Disconnect, Forget, ReleasePermit, accessVars, trustVars
  <2> QED BY <2>1, <2>2
<1> QED
  BY <1>1, <1>2, <1>3, <1>4, <1>5, <1>6, <1>7, <1>8, <1>9, <1>10, <1>11, <1>12, <1>13, StepKinds

\* A save leaves the old map or the new one, and the new one if it succeeds.
LEMMA SaveOutcome ==
  ASSUME NEW map, NEW r \in SaveResults, Save(map, r)
  PROVE  disk' \in {disk, map} /\ (r = "ok" => disk' = map)
BY DEF Save, SaveResults

\* The file keeps listing what memory trusts, whatever save failed, and a
\* revocation that is not saved stays remembered.
LEMMA FilePreserved ==
  ASSUME TrustInv, [Next]_vars
  PROVE  FileInv'
<1> SUFFICES FileInv' OBVIOUS
<1>0. /\ Paired(devices) \subseteq Paired(disk) /\ UnsavedRemembered
      /\ devices \in TrustMap
      /\ decision \in [Devices -> {"none", "approved", "revoked", "unsaved"}]
  BY DEF TrustInv, FileInv, TrustTypes
<1>1. ASSUME UNCHANGED <<disk, devices, unsaved, decision>> PROVE FileInv'
  BY <1>0, <1>1 DEF FileInv, UnsavedRemembered
<1>2. ASSUME NEW perm \in Permissions, NEW r \in SaveResults, Approve(perm, r) PROVE FileInv'
  <2> DEFINE d == invitation.candidate
             map == [devices EXCEPT ![d] = perm]
  <2>1. d \in Devices
    BY <1>2, CurrentOrNone DEF TrustInv, Approve, Approvable, TrustTypes
  <2>2. Paired(map) = Paired(devices) \union {d} BY <1>0, <2>1, TrustMapUpdates
  <2>3. disk' \in {disk, map} /\ (r = "ok" => disk' = map)
    BY <1>2, SaveOutcome DEF Approve
  <2>4. CASE r = "ok"
    <3>1. devices' = map /\ unsaved' = {} /\ decision' = [Settled EXCEPT ![d] = "approved"]
      BY <1>2, <2>4 DEF Approve
    <3>2. UnsavedRemembered' BY <1>0, <2>1, <3>1 DEF UnsavedRemembered, Settled
    <3> HIDE DEF map
    <3> QED BY <2>3, <2>4, <3>1, <3>2 DEF FileInv
  <2>5. CASE r # "ok"
    <3>1. UNCHANGED <<devices, unsaved, decision>> BY <1>2, <2>5 DEF Approve
    <3> HIDE DEF map
    <3> QED BY <1>0, <2>2, <2>3, <3>1 DEF FileInv, UnsavedRemembered
  <2> QED BY <2>4, <2>5
<1>3. ASSUME NEW d \in Devices, NEW r \in SaveResults, RevokeDevice(d, r) PROVE FileInv'
  <2> DEFINE map == [devices EXCEPT ![d] = NoPermissions]
  <2>1. Paired(map) = Paired(devices) \ {d} BY <1>0, TrustMapUpdates
  <2>2. disk' \in {disk, map} BY <1>3, SaveOutcome DEF RevokeDevice
  <2>3. devices' = map BY <1>3 DEF RevokeDevice
  <2>4. UnsavedRemembered'
    BY <1>0, <1>3 DEF RevokeDevice, UnsavedAfter, UnsavedRemembered, Settled
  <2> HIDE DEF map
  <2> QED BY <1>0, <2>1, <2>2, <2>3, <2>4 DEF FileInv
<1>4. ASSUME NEW d \in Devices, NEW b \in Diagnostics, NEW r \in SaveResults,
             SetDiagnostics(d, b, r)
      PROVE  FileInv'
  <2> DEFINE map == [devices EXCEPT ![d].diagnostics = b]
  <2>1. Save(map, r) /\ d \in Paired(devices) BY <1>4 DEF SetDiagnostics
  <2>2. IF r = "ok" THEN devices' = map /\ unsaved' = {} /\ decision' = Settled
                    ELSE UNCHANGED <<devices, unsaved, decision>>
    BY <1>4 DEF SetDiagnostics
  <2>3. Paired(map) = Paired(devices) BY <1>0, <2>1, DiagnosticsUpdate
  <2> HIDE DEF map
  <2>4. disk' \in {disk, map} /\ (r = "ok" => disk' = map) BY <2>1, SaveOutcome
  <2>5. UnsavedRemembered' BY <1>0, <2>2 DEF UnsavedRemembered, Settled
  <2> QED BY <1>0, <2>2, <2>3, <2>4, <2>5 DEF FileInv
<1>5. CASE Command
  <2>1. CASE Invite \/ Pending \/ CancelInvitation
    BY <1>1, <2>1 DEF Invite, Pending, CancelInvitation, adminVars
  <2>2. ASSUME NEW d \in Devices, NEW t \in 1 .. MaxInvitations, NEW c \in Codes, Claim(d, t, c)
        PROVE  FileInv'
    BY <1>1, <2>2 DEF Claim, adminVars
  <2> QED BY <1>2, <1>3, <1>4, <1>5, <2>1, <2>2 DEF Command
<1>6. CASE Restart
  BY <1>0, <1>6 DEF Restart, Started, FileInv, UnsavedRemembered
<1>7. CASE Shutdown \/ WorkerExit \/ InvitationExpires \/ AccessStep \/ UNCHANGED vars
  <2>1. UNCHANGED <<disk, devices, unsaved, decision>>
    BY <1>7 DEF Shutdown, WorkerExit, InvitationExpires, AccessStep, vars, trustVars, adminVars
  <2> QED BY <1>1, <2>1
<1>8. ASSUME NEW d \in Devices, Connect(d) \/ EnrollmentEnds(d) PROVE FileInv'
  BY <1>1, <1>8 DEF Connect, EnrollmentEnds, adminVars
<1>9. ASSUME NEW i \in Ids, \/ SubmitAdmit(i) \/ Admit(i) \/ RefuseAdmit(i) \/ Join(i)
                            \/ EndTask(i) \/ Disconnect(i) \/ Forget(i)
      PROVE  FileInv'
  <2>1. UNCHANGED <<disk, devices, unsaved, decision>>
    BY <1>9 DEF SubmitAdmit, Admit, RefuseAdmit, Join, EndTask, Disconnect, Forget,
                trustVars, adminVars
  <2> QED BY <1>1, <2>1
<1> QED BY <1>5, <1>6, <1>7, <1>8, <1>9, StepKinds

\* An invitation that is offered has not been approved.
LEMMA InvitationPreserved ==
  ASSUME TrustInv, [Next]_vars
  PROVE  InvitationUnspent'
<1> SUFFICES InvitationUnspent' OBVIOUS
<1>0. /\ issued \in Nat /\ approvals \in Nat /\ InvitationUnspent /\ MaxInvitations \in Nat
      /\ invitation \in [token : 0 .. MaxInvitations, expired : BOOLEAN,
                     candidate : Devices \union {NoDevice}, code : Codes \union {NoDevice}]
  BY TrustAssumption DEF TrustInv, TrustTypes
<1>c. /\ CurrentInvitation \in {NoInvitation, invitation}
      /\ NoInvitation.token = 0 /\ NoInvitation.candidate = NoDevice
      /\ NoInvitation \in [token : 0 .. MaxInvitations, expired : BOOLEAN,
                     candidate : Devices \union {NoDevice}, code : Codes \union {NoDevice}]
  BY CurrentOrNone DEF TrustInv
<1>1. ASSUME UNCHANGED <<issued, approvals>>, invitation' \in {NoInvitation, invitation}
      PROVE  InvitationUnspent'
  BY <1>0, <1>1, <1>c DEF InvitationUnspent
<1> USE DEF adminVars
<1>2. CASE Command
  <2>1. CASE Invite
    BY <1>0, <1>c, <2>1 DEF Invite, InvitationUnspent
  <2>2. CASE Pending \/ CancelInvitation
    BY <1>1, <1>c, <2>2 DEF Pending, CancelInvitation
  <2>3. ASSUME NEW perm \in Permissions, NEW r \in SaveResults, Approve(perm, r)
        PROVE  InvitationUnspent'
    <3>1. CASE r = "ok"
      <4>1. invitation.candidate # NoDevice
        BY <1>c, <2>3 DEF Approve, Approvable
      <4>2. approvals' = approvals + 1 /\ issued' = issued /\ invitation' = NoInvitation
        BY <2>3, <3>1 DEF Approve, SpentInvitation
      <4> QED BY <1>0, <1>c, <4>1, <4>2 DEF InvitationUnspent
    <3>2. CASE r # "ok" BY <1>1, <2>3, <3>2 DEF Approve
    <3> QED BY <3>1, <3>2
  <2>4. ASSUME NEW d \in Devices, NEW r \in SaveResults, RevokeDevice(d, r)
        PROVE  InvitationUnspent'
    BY <1>1, <1>c, <2>4 DEF RevokeDevice
  <2>5. ASSUME NEW d \in Devices, NEW b \in Diagnostics, NEW r \in SaveResults,
               SetDiagnostics(d, b, r)
        PROVE  InvitationUnspent'
    <3>1. invitation' = CurrentInvitation /\ UNCHANGED <<issued, approvals>>
      BY <2>5 DEF SetDiagnostics
    <3> QED BY <1>1, <1>c, <3>1
  <2>6. ASSUME NEW d \in Devices, NEW t \in 1 .. MaxInvitations, NEW c \in Codes, Claim(d, t, c)
        PROVE  InvitationUnspent'
    <3>1. CurrentInvitation.token = t /\ t # 0 BY <2>6 DEF Claim
    <3>2. CurrentInvitation = invitation /\ invitation.token # 0 BY <1>c, <3>1
    <3> QED BY <1>0, <2>6, <3>2 DEF Claim, InvitationUnspent
  <2> QED BY <1>2, <2>1, <2>2, <2>3, <2>4, <2>5, <2>6 DEF Command
<1>3. CASE Shutdown \/ WorkerExit \/ AccessStep \/ UNCHANGED vars
  BY <1>1, <1>3 DEF Shutdown, WorkerExit, AccessStep, vars, trustVars
<1>4. CASE InvitationExpires
  BY <1>0, <1>4 DEF InvitationExpires, InvitationUnspent
<1>5. CASE Restart
  BY <1>1, <1>5 DEF Restart, Started
<1>6. ASSUME NEW d \in Devices, Connect(d) \/ EnrollmentEnds(d) PROVE InvitationUnspent'
  BY <1>1, <1>6 DEF Connect, EnrollmentEnds
<1>7. ASSUME NEW i \in Ids, \/ SubmitAdmit(i) \/ Admit(i) \/ RefuseAdmit(i) \/ Join(i)
                            \/ EndTask(i) \/ Disconnect(i) \/ Forget(i)
      PROVE  InvitationUnspent'
  <2>1. UNCHANGED <<issued, approvals>> /\ invitation' \in {CurrentInvitation, invitation}
    BY <1>7 DEF SubmitAdmit, Admit, RefuseAdmit, Join, EndTask, Disconnect, Forget, trustVars
  <2> QED BY <1>1, <1>c, <2>1
<1> QED BY <1>2, <1>3, <1>4, <1>5, <1>6, <1>7, StepKinds

-----------------------------------------------------------------------------
LEMMA TrustStarts == Init => TrustInv
<1> SUFFICES ASSUME Init PROVE TrustInv
  OBVIOUS
<1> USE TrustAssumption DEF Init
<1>1. AccessInv BY AccessStarts
<1>2. TrustTypes
  <2>1. disk \in TrustMap /\ devices \in TrustMap BY DEF Nothing, TrustMap
  <2>2. invitation \in [token : 0 .. MaxInvitations, expired : BOOLEAN,
                      candidate : Devices \union {NoDevice}, code : Codes \union {NoDevice}]
    BY DEF NoInvitation
  <2> QED BY <2>1, <2>2 DEF TrustTypes, NoCandidate
<1>a. stopped \in BOOLEAN OBVIOUS
<1>3. PermitsTracked /\ LiveSessionsAreTrusted
  BY DEF PermitsTracked, LiveSessionsAreTrusted, LiveTask
<1>4. FileInv BY DEF FileInv, UnsavedRemembered
<1>5. InvitationUnspent BY DEF InvitationUnspent, NoInvitation
<1> QED BY <1>1, <1>2, <1>a, <1>3, <1>4, <1>5 DEF TrustInv

LEMMA TrustPreserved == TrustInv /\ [Next]_vars => TrustInv'
<1> SUFFICES ASSUME TrustInv, [Next]_vars PROVE TrustInv'
  OBVIOUS
<1>1. AccessInv' BY RegistryPreserved DEF TrustInv
<1> QED
  BY <1>1, TypesPreserved, SessionsPreserved, FilePreserved, InvitationPreserved DEF TrustInv

\* The worker, the device tasks and the registry stay well typed.
THEOREM TrustTypeCorrect == Spec => []TypeOK
<1>1. TrustInv => TypeOK BY DEF TrustInv, AccessInv, TypeOK
<1> QED BY <1>1, TrustStarts, TrustPreserved, PTL DEF Spec

\* Whatever is approved, revoked, refused, disconnected or restarted in between,
\* a session with a working permit and connection is on the worker's list,
\* belongs to a paired device and carries the grant that device has now.
THEOREM SessionsTrusted == Spec => []LiveSessionsAreTrusted
<1>1. TrustInv => LiveSessionsAreTrusted BY DEF TrustInv
<1> QED BY <1>1, TrustStarts, TrustPreserved, PTL DEF Spec

\* However the saves of approvals, revocations and permission changes fail, no
\* device is trusted that the file does not list, and a revocation that did not
\* reach the file can be retried.
THEOREM TrustFile == Spec => []TrustFileAgrees
<1>1. TrustInv => TrustFileAgrees
  BY DEF TrustInv, FileInv, UnsavedRemembered, TrustFileAgrees
<1> QED BY <1>1, TrustStarts, TrustPreserved, PTL DEF Spec

\* There are never more acknowledged approvals than invitations: approve takes
\* the invitation, and no expiry, cancellation, failed save or late claim
\* brings it back.
THEOREM InvitationsSingleUse == Spec => []OneApprovalPerInvitation
<1>1. TrustInv => OneApprovalPerInvitation
  BY DEF TrustInv, InvitationUnspent, OneApprovalPerInvitation
<1> QED BY <1>1, TrustStarts, TrustPreserved, PTL DEF Spec

LEMMA CapacityInTrust ==
  ASSUME TrustInv, RegistryFits, [Next]_vars
  PROVE  RegistryFits'
<1>0. RegistryTypes BY DEF TrustInv, AccessInv, AccessTypeOK
<1>a. ASSUME UNCHANGED sessions PROVE RegistryFits'
  BY <1>a DEF RegistryFits, Registered
<1>b. ASSUME [AccessNext]_accessVars PROVE RegistryFits'
  BY <1>0, <1>b, CapacityPreserved
<1>1. CASE Command
  BY <1>1, <1>a, CommandsEndPermits DEF registryVars
<1>2. CASE Shutdown \/ InvitationExpires \/ WorkerExit \/ UNCHANGED vars
  BY <1>2, <1>a DEF Shutdown, InvitationExpires, WorkerExit, vars, accessVars, registryVars
<1>3. CASE Restart
  <2>1. AccessInit' BY <1>3 DEF Restart, Started, AccessInit
  <2> QED BY <2>1, RegistryStartsEmpty, PTL
<1>4. CASE AccessStep
  <2>1. AccessNext BY <1>4 DEF AccessStep, AccessNext
  <2> QED BY <1>b, <2>1
<1>5. ASSUME NEW d \in Devices, Connect(d) \/ EnrollmentEnds(d) PROVE RegistryFits'
  <2>1. [AccessNext]_accessVars BY <1>5 DEF Connect, EnrollmentEnds, AccessNext, Devices
  <2> QED BY <1>b, <2>1
<1>6. ASSUME NEW i \in Ids, SubmitAdmit(i) \/ Disconnect(i) \/ Join(i) \/ Forget(i) PROVE RegistryFits'
  <2>1. [AccessNext]_accessVars BY <1>6 DEF SubmitAdmit, Disconnect, Join, Forget, AccessNext
  <2> QED BY <1>b, <2>1
<1>7. ASSUME NEW i \in Ids, Admit(i) \/ RefuseAdmit(i) \/ EndTask(i) PROVE RegistryFits'
  BY <1>7, <1>a DEF Admit, RefuseAdmit, EndTask, registryVars
<1> QED BY <1>1, <1>2, <1>3, <1>4, <1>5, <1>6, <1>7, StepKinds

\* The capacity holds in the composition: a device that connects, is refused or
\* disconnects takes at most one place, and a restart gives all of them back.
THEOREM CapacityComposed == Spec => []WithinCapacity
<1>1. Init => RegistryFits BY RegistryStartsEmpty DEF Init
<1>2. TrustInv /\ RegistryFits /\ [Next]_vars => RegistryFits' BY CapacityInTrust
<1>3. TrustInv /\ RegistryFits => WithinCapacity BY HeldFits DEF TrustInv
<1> QED BY <1>1, <1>2, <1>3, TrustStarts, TrustPreserved, PTL DEF Spec

\* The latch of revoke_all holds inside the composition too: the trust worker,
\* the device tasks and a restart authorize nothing while admission is closed.
THEOREM LatchComposed == Spec => []LatchedMeansSilent
<1>1. TrustInv => LatchedMeansSilent BY DEF TrustInv, AccessInv
<1> QED BY <1>1, TrustStarts, TrustPreserved, PTL DEF Spec

\* And so does the stability of permits: no step of the worker or of a device
\* task revives a permit or rebinds an identity that is held.
THEOREM PermitsComposed == Spec => PermitsAreStable
<1>1. TrustInv /\ [Next]_vars =>
        [/\ \A i \in authorized' \ authorized : i = next /\ i \notin held
         /\ \A i \in held \cap held' : sessions[i] # NoParticipant /\ sessions'[i] = sessions[i]]_accessVars
  BY RegistryPreserved DEF TrustInv
<1> QED BY <1>1, TrustStarts, TrustPreserved, PTL DEF Spec, PermitsAreStable
=============================================================================
