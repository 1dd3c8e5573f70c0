-------------------------- MODULE AccessAuthority --------------------------
(***************************************************************************)
(* weld-access: the registry of live access sessions. A permit is an       *)
(* AccessSession handed to one connection; the registry keeps weak         *)
(* references to it, so that a forgotten permit stops counting against the *)
(* capacity. One mutex serialises the registry; an authorized flag is an   *)
(* atomic that its holder clears without the lock.                         *)
(*                                                                         *)
(* The relays that serve permits (weld-hoist-core relay.rs, check_access)  *)
(* look at the flag when they are woken; `served' are the permits whose    *)
(* relay still runs.                                                       *)
(***************************************************************************)
EXTENDS Naturals, FiniteSets

CONSTANTS Participants,
          NoParticipant,
          MaxSessions,     \* MAX_SESSIONS
          LastId           \* u64::MAX, the last identity `next' can issue

ASSUME ParticipantsAssumption == NoParticipant \notin Participants
ASSUME SessionsAssumption == MaxSessions \in Nat \ {0} /\ LastId \in Nat \ {0}

Ids == 1 .. LastId

VARIABLES
  accepting,   \* Registry.accepting
  blocked,     \* Registry.blocked_participants
  sessions,    \* Registry.sessions: id -> participant of the entry
  next,        \* Registry.next; LastId + 1 stands for None
  held,        \* ids some AccessSession clone still refers to (strong_count > 0)
  authorized,  \* ids that are held and whose authorized flag is set
  served,      \* ids a relay is serving
  wake,        \* the notify callback ran and the host has not yet serviced it
  revoked      \* history: ids cleared by revoke or revoke_all

accessVars == <<accepting, blocked, sessions, next, held, authorized, served, wake, revoked>>

AccessInit ==
  /\ accepting = TRUE /\ blocked = {} /\ next = 1
  /\ sessions = [i \in Ids |-> NoParticipant]
  /\ held = {} /\ authorized = {} /\ served = {} /\ wake = FALSE
  /\ revoked = {}

\* sessions.retain(strong_count > 0)
Pruned == [i \in Ids |-> IF i \in held THEN sessions[i] ELSE NoParticipant]

Registered(map) == {i \in Ids : map[i] # NoParticipant}

\* Mutant: identities start over when they run out.
NextIdWrapped == IF next = LastId THEN 1 ELSE next + 1

\* raw.checked_add(1)
NextId == next + 1

\* Mutant: a latched registry still hands out permits to unblocked participants.
AcceptsUnlatched(p) == p \notin blocked

Accepts(p) == accepting /\ p \notin blocked

\* AccessAuthority::open. The checks and the insertion share one lock.
Open(p) ==
  /\ Accepts(p)
  /\ Cardinality(Registered(Pruned)) < MaxSessions
  /\ next \in Ids
  /\ next' = NextId
  /\ sessions' = [Pruned EXCEPT ![next] = p]
  /\ held' = held \union {next}
  /\ authorized' = authorized \union {next}
  /\ UNCHANGED <<accepting, blocked, served, wake, revoked>>

\* The capacity or the identities are exhausted: the caller gets an error, but
\* the pruning has already happened.
OpenRefused(p) ==
  /\ Accepts(p)
  /\ Cardinality(Registered(Pruned)) >= MaxSessions \/ next \notin Ids
  /\ sessions' = Pruned
  /\ UNCHANGED <<accepting, blocked, next, held, authorized, served, wake, revoked>>

\* AccessSession::end, called by the holder.
EndPermit(i) ==
  /\ i \in held
  /\ authorized' = authorized \ {i}
  /\ UNCHANGED <<accepting, blocked, sessions, next, held, served, wake, revoked>>

\* The last clone of the permit is dropped.
ReleasePermit(i) ==
  /\ i \in held /\ i \notin served
  /\ held' = held \ {i} /\ authorized' = authorized \ {i}
  /\ UNCHANGED <<accepting, blocked, sessions, next, served, wake, revoked>>

\* Mutant: revocation wakes nobody.
NotifyNobody == UNCHANGED wake

\* (self.notify)()
Notify == wake' = TRUE

\* AccessAuthority::revoke: block the participant, clear the flag, then notify.
\* The callback runs after the unlock; a relay polled in between only finds the
\* cleared flag earlier, so that the two are one step.
Revoke(i) ==
  /\ sessions[i] # NoParticipant /\ i \in held
  /\ blocked' = blocked \union {sessions[i]}
  /\ authorized' = authorized \ {i}
  /\ revoked' = revoked \union {i}
  /\ Notify
  /\ UNCHANGED <<accepting, sessions, next, held, served>>

\* AccessAuthority::revoke_all
RevokeAll ==
  /\ accepting' = FALSE /\ blocked' = {}
  /\ LET reached == {i \in held : sessions[i] # NoParticipant}
     IN /\ authorized' = authorized \ reached
        /\ revoked' = revoked \union reached
  /\ Notify
  /\ UNCHANGED <<sessions, next, held, served>>

\* Mutant: reopening authorizes the permits that are still held.
AllowRevives ==
  /\ accepting' = TRUE /\ blocked' = {}
  /\ authorized' = held
  /\ UNCHANGED <<sessions, next, held, served, wake, revoked>>

\* AccessAuthority::allow_new_sessions
AllowNewSessions ==
  /\ accepting' = TRUE /\ blocked' = {}
  /\ UNCHANGED <<sessions, next, held, authorized, served, wake, revoked>>

\* A relay starts on a permit that is authorized when it is handed over.
Serve(i) ==
  /\ i \in held \cap authorized
  /\ served' = served \union {i}
  /\ UNCHANGED <<accepting, blocked, sessions, next, held, authorized, wake, revoked>>

\* The woken host polls its relays; check_access fails the revoked ones.
ServiceRelays ==
  /\ wake /\ wake' = FALSE
  /\ served' = served \cap authorized
  /\ UNCHANGED <<accepting, blocked, sessions, next, held, authorized, revoked>>

AccessNext ==
  \/ \E p \in Participants : Open(p) \/ OpenRefused(p)
  \/ \E i \in Ids : EndPermit(i) \/ ReleasePermit(i) \/ Revoke(i) \/ Serve(i)
  \/ RevokeAll \/ AllowNewSessions \/ ServiceRelays

AccessSpec == AccessInit /\ [][AccessNext]_accessVars /\ WF_accessVars(ServiceRelays)

-----------------------------------------------------------------------------
RegistryTypes ==
  /\ blocked \subseteq Participants
  /\ sessions \in [Ids -> Participants \union {NoParticipant}]
  /\ next \in 1 .. LastId + 1
  /\ held \subseteq Ids /\ authorized \subseteq Ids /\ served \subseteq Ids
  /\ revoked \subseteq Ids

AccessFlags == accepting \in BOOLEAN /\ wake \in BOOLEAN

\* The registry holds what its Rust types allow.
AccessTypeOK == RegistryTypes /\ AccessFlags

\* The registry never has more entries than its capacity, and no more permits are
\* outstanding: forgotten ones stop counting only when open prunes their entries.
WithinCapacity ==
  /\ Cardinality(Registered(sessions)) <= MaxSessions
  /\ Cardinality(held) <= MaxSessions

\* After a global revocation no permit is authorized until the administrator
\* reopens admission: open and revoke_all exclude each other (the registry
\* mutex), and every authorized permit is registered where revoke_all finds it.
LatchedMeansSilent == ~accepting => authorized = {}

\* A permit keeps its meaning as long as somebody holds it. "Revocation
\* permanently invalidates a session's permit" (weld-access header): the only
\* permits that become authorized are freshly numbered ones. And a selector names
\* one session for ever: while a permit is held its entry stays in the registry
\* under the same participant, so that revoke reaches it and blocks the right one.
PermitsAreStable ==
  [][/\ \A i \in authorized' \ authorized : i = next /\ i \notin held
     /\ \A i \in held \cap held' : sessions[i] # NoParticipant /\ sessions'[i] = sessions[i]]_accessVars
=============================================================================
