------------------------ MODULE HoistLifecycleProofs ------------------------
(***************************************************************************)
(* HoistsAccounted for any number of toplevels, endpoints and families.    *)
(* Beside the types the induction needs one fact, SessionsMet: a session   *)
(* is of a client that was seen, and it is closed only when the client is  *)
(* gone. It separates the sessions that BeginHoist makes from the ones that *)
(* exist: their clients occupy windows, so are neither held nor gone.      *)
(***************************************************************************)
EXTENDS HoistLifecycle, TLAPS

States == {"mapping", "active", "reclaiming", "unmapping", "closed"}

SessionType ==
  [top : Toplevels, family : Nat, root : Toplevels \union {NoRoot}, declared : BOOLEAN,
   slot : BOOLEAN, bound : {"none", "here", "gone"}, settled : BOOLEAN, detach : BOOLEAN, state : States]

LifecycleTypes ==
  /\ client \in [Toplevels -> {"absent", "unmapped", "mapped", "gone"}]
  /\ root \in [Toplevels -> Toplevels \union {NoRoot}]
  /\ held \in SUBSET Toplevels /\ occupies \in SUBSET Toplevels
  /\ window \in [Toplevels -> {"none", "plain", "live", "closed"}]
  /\ sessions \in SUBSET SessionType /\ families \in Nat /\ endpoint \in EndpointType

SessionsMet ==
  \A s \in sessions : client[s.top] # "absent" /\ (~Living(s) => client[s.top] = "gone")

HoistInv == LifecycleTypes /\ SessionsMet /\ HoistsAccounted

-----------------------------------------------------------------------------
(* The steps outside the frame's systems.                                  *)

LEMMA InitHoist == Init => HoistInv
BY LifecycleAssumption DEF Init, HoistInv, LifecycleTypes, SessionsMet, HoistsAccounted, OneSession, ClientsOwned,
       WindowsOwned, EndpointAgrees, Shown

\* What no part of the invariant reads may change.
LEMMA SameHoists ==
  ASSUME HoistInv,
         UNCHANGED <<client, root, held, occupies, window, sessions, families>>,
         \/ UNCHANGED <<endpoint, mapped>>
         \/ endpoint' \in EndpointType /\ ~endpoint'.available
  PROVE  HoistInv'
BY DEF HoistInv, LifecycleTypes, SessionsMet, HoistsAccounted, OneSession, ClientsOwned,
       WindowsOwned, EndpointAgrees, Shown, Living

LEMMA MapHoists ==
  ASSUME HoistInv, NEW t \in Toplevels, Map(t) \/ Unmap(t)
  PROVE  HoistInv'
<1> USE DEF Map, Unmap, Ingress, windowVars, hoistVars
<1>1. LifecycleTypes'
  BY DEF HoistInv, LifecycleTypes
<1>2. SessionsMet' /\ OneSession' /\ EndpointAgrees' /\ WindowsOwned'
  BY DEF HoistInv, LifecycleTypes, HoistsAccounted, SessionsMet, OneSession, EndpointAgrees,
         WindowsOwned, Living, SessionType
<1>3. ClientsOwned'
  BY DEF HoistInv, LifecycleTypes, HoistsAccounted, SessionsMet, ClientsOwned, Shown, Living, SessionType
<1> QED
  BY <1>1, <1>2, <1>3 DEF HoistInv, HoistsAccounted

LEMMA DestroyHoists ==
  ASSUME HoistInv, NEW t \in Toplevels, Destroy(t)
  PROVE  HoistInv'
<1>1. LifecycleTypes'
  BY DEF HoistInv, LifecycleTypes, Destroy, Ingress, hoistVars
<1>2. SessionsMet' /\ OneSession' /\ EndpointAgrees'
  BY DEF HoistInv, LifecycleTypes, HoistsAccounted, SessionsMet, OneSession, EndpointAgrees, Living, SessionType,
         Destroy, Ingress, hoistVars
<1>3. ClientsOwned'
  BY DEF HoistInv, LifecycleTypes, HoistsAccounted, ClientsOwned, Shown, Living, SessionType, Destroy, Ingress, hoistVars
<1>4. WindowsOwned'
  BY DEF HoistInv, LifecycleTypes, HoistsAccounted, WindowsOwned, Living, SessionType, Destroy, Ingress, hoistVars
<1> QED
  BY <1>1, <1>2, <1>3, <1>4 DEF HoistInv, HoistsAccounted

LEMMA ReparentHoists ==
  ASSUME HoistInv, NEW t \in Toplevels, NEW r \in Toplevels, Reparent(t, r)
  PROVE  HoistInv'
BY DEF HoistInv, LifecycleTypes, SessionsMet, HoistsAccounted, OneSession, ClientsOwned,
       WindowsOwned, EndpointAgrees, Shown, Living, Reparent, Ingress, windowVars, hoistVars

LEMMA SlotRemovedHoists ==
  ASSUME HoistInv, NEW t \in Toplevels, SlotRemoved(t)
  PROVE  HoistInv'
BY DEF HoistInv, LifecycleTypes, SessionsMet, HoistsAccounted, OneSession, ClientsOwned,
       WindowsOwned, EndpointAgrees, Shown, Living, SlotRemoved, Ingress, clientVars, hoistVars

LEMMA AdmitHoists ==
  ASSUME HoistInv, Admit
  PROVE  HoistInv'
BY DEF HoistInv, LifecycleTypes, SessionsMet, HoistsAccounted, OneSession, ClientsOwned,
       WindowsOwned, EndpointAgrees, Shown, Living, SessionType, Admit, Unclaimed, clientVars, hoistVars

-----------------------------------------------------------------------------
(* The steps that only change what sessions are doing.                     *)

\* `f' is what becomes of each session: none is closed, opened or given away.
LEMMA SessionsMoveOn ==
  ASSUME HoistInv, NEW f \in [sessions -> SessionType], sessions' = {f[s] : s \in sessions},
         \A s \in sessions : f[s].top = s.top /\ f[s].slot = s.slot /\ (Living(f[s]) <=> Living(s)),
         UNCHANGED <<client, root, held, occupies, window, families, endpoint>>, EndpointAgrees'
  PROVE  HoistInv'
<1>1. LifecycleTypes'
  BY DEF HoistInv, LifecycleTypes
<1>2. SessionsMet' /\ OneSession'
  BY DEF HoistInv, HoistsAccounted, SessionsMet, OneSession, Living
<1>3. ClientsOwned'
  BY DEF HoistInv, HoistsAccounted, ClientsOwned, Shown, Living
<1>4. WindowsOwned'
  BY DEF HoistInv, HoistsAccounted, WindowsOwned, Living
<1> QED
  BY <1>1, <1>2, <1>3, <1>4 DEF HoistInv, HoistsAccounted

SettledOf(s) == [s EXCEPT !.settled = TRUE]
ActiveOf(s) == [s EXCEPT !.state = "active", !.bound = "here"]

BereftOf(s) == [s EXCEPT !.bound = "gone"]

LEMMA SettledSession ==
  ASSUME NEW s \in SessionType
  PROVE  /\ SettledOf(s) \in SessionType
         /\ SettledOf(s).top = s.top /\ SettledOf(s).slot = s.slot /\ SettledOf(s).state = s.state
<1>1. SettledOf(s) \in SessionType
  BY DEF SettledOf, SessionType
<1> QED
  BY <1>1 DEF SettledOf, SessionType

LEMMA BereftSession ==
  ASSUME NEW s \in SessionType
  PROVE  /\ BereftOf(s) \in SessionType
         /\ BereftOf(s).top = s.top /\ BereftOf(s).slot = s.slot /\ BereftOf(s).state = s.state
<1>1. BereftOf(s) \in SessionType
  BY DEF BereftOf, SessionType
<1> QED
  BY <1>1 DEF BereftOf, SessionType

LEMMA ActiveSession ==
  ASSUME NEW s \in SessionType
  PROVE  /\ ActiveOf(s) \in SessionType
         /\ ActiveOf(s).top = s.top /\ ActiveOf(s).slot = s.slot /\ ActiveOf(s).state = "active"
<1>1. ActiveOf(s) \in SessionType
  BY DEF ActiveOf, SessionType, States
<1> QED
  BY <1>1 DEF ActiveOf, SessionType

LEMMA SettleHoists ==
  ASSUME HoistInv, NEW t \in Toplevels, Settle(t)
  PROVE  HoistInv'
<1> DEFINE f == [s \in sessions |-> IF s.top = t /\ s.state = "reclaiming"
                                      THEN SettledOf(s) ELSE s]
<1>1. /\ sessions' = {f[s] : s \in sessions}
      /\ UNCHANGED <<client, root, held, occupies, window, families, mapped, endpoint>>
  BY DEF SettledOf, Settle, clientVars, windowVars
<1>2. f \in [sessions -> SessionType]
  BY SettledSession DEF HoistInv, LifecycleTypes
<1>3. \A s \in sessions : f[s].top = s.top /\ f[s].slot = s.slot /\ f[s].state = s.state
  BY SettledSession DEF HoistInv, LifecycleTypes
<1> HIDE DEF f
<1>4. EndpointAgrees'
  BY <1>1, <1>3 DEF HoistInv, HoistsAccounted, EndpointAgrees
<1> QED
  BY <1>1, <1>2, <1>3, <1>4, SessionsMoveOn DEF Living

LEMMA ReceiverGoesHoists ==
  ASSUME HoistInv, NEW t \in Toplevels, ReceiverGoes(t)
  PROVE  HoistInv'
<1> DEFINE f == [s \in sessions |-> IF s.top = t /\ s.bound = "here" THEN BereftOf(s) ELSE s]
<1>1. /\ sessions' = {f[s] : s \in sessions}
      /\ UNCHANGED <<client, root, held, occupies, window, families, mapped, endpoint>>
  BY DEF BereftOf, ReceiverGoes, clientVars, windowVars
<1>2. f \in [sessions -> SessionType]
  BY BereftSession DEF HoistInv, LifecycleTypes
<1>3. \A s \in sessions : f[s].top = s.top /\ f[s].slot = s.slot /\ f[s].state = s.state
  BY BereftSession DEF HoistInv, LifecycleTypes
<1> HIDE DEF f
<1>4. EndpointAgrees'
  BY <1>1, <1>3 DEF HoistInv, HoistsAccounted, EndpointAgrees
<1> QED
  BY <1>1, <1>2, <1>3, <1>4, SessionsMoveOn DEF Living

LEMMA BindHoists ==
  ASSUME HoistInv, Bind
  PROVE  HoistInv'
<1> DEFINE f == [s \in sessions |-> IF s.state = "mapping" /\ endpoint.available /\ s.top \in receiver
                                      THEN ActiveOf(s) ELSE s]
<1>1. /\ sessions' = {f[s] : s \in sessions}
      /\ UNCHANGED <<client, root, held, occupies, window, families, mapped, endpoint>>
  BY DEF ActiveOf, Bind, clientVars, windowVars
<1>2. f \in [sessions -> SessionType]
  BY ActiveSession DEF HoistInv, LifecycleTypes
<1>3. \A s \in sessions : /\ f[s].top = s.top /\ f[s].slot = s.slot
                          /\ f[s].state = s.state \/ (s.state = "mapping" /\ f[s].state = "active")
  BY ActiveSession DEF HoistInv, LifecycleTypes
<1> HIDE DEF f
<1>4. EndpointAgrees'
  BY <1>1, <1>3 DEF HoistInv, HoistsAccounted, EndpointAgrees
<1> QED
  BY <1>1, <1>2, <1>3, <1>4, SessionsMoveOn DEF Living

LEMMA CompleteHoists ==
  ASSUME HoistInv, Complete
  PROVE  HoistInv'
<1> DEFINE ready == {s \in sessions : s.state = "reclaiming" /\ FamilyReady(s.family)}
           f == [s \in sessions |-> IF s \in ready THEN [s EXCEPT !.state = "unmapping"] ELSE s]
<1>1. /\ sessions' = {f[s] : s \in sessions} /\ mapped' = Unmapped({s.top : s \in ready})
      /\ UNCHANGED <<client, root, held, occupies, window, families, endpoint>>
  BY DEF Complete, clientVars, windowVars
<1>2. f \in [sessions -> SessionType]
  BY DEF HoistInv, LifecycleTypes, SessionType, States
<1>3. \A s \in sessions : /\ f[s].top = s.top /\ f[s].slot = s.slot
                          /\ IF s \in ready THEN s.state = "reclaiming" /\ f[s].state = "unmapping"
                             ELSE f[s].state = s.state
  BY DEF HoistInv, LifecycleTypes, SessionType
<1>4. ready \subseteq sessions
  OBVIOUS
<1> HIDE DEF f, ready
<1>5. EndpointAgrees'
  <2> SUFFICES ASSUME endpoint.available
               PROVE  mapped' = {s.top : s \in {r \in sessions' :
                                   r.state \in {"mapping", "active", "reclaiming"}}}
    BY <1>1 DEF EndpointAgrees
  <2>1. mapped' = mapped \ {s.top : s \in ready}
    BY <1>1 DEF Unmapped
  <2>2. mapped = {s.top : s \in {r \in sessions : r.state \in {"mapping", "active", "reclaiming"}}}
    BY DEF HoistInv, HoistsAccounted, EndpointAgrees
  <2> QED
    BY <1>1, <1>3, <1>4, <2>1, <2>2 DEF HoistInv, HoistsAccounted, OneSession
<1> QED
  BY <1>1, <1>2, <1>3, <1>5, SessionsMoveOn DEF Living

-----------------------------------------------------------------------------
(* begin_requested_hoists *)

LEMMA BeginHoistHoists ==
  ASSUME HoistInv, NEW family \in Nat, NEW groot \in Toplevels \union {NoRoot},
         NEW planned \in SUBSET Hoistable, NEW slots, BeginHoist(family, groot, planned, slots),
         UNCHANGED <<client, root, endpoint>>, families' \in Nat
  PROVE  HoistInv'
<1> DEFINE N(u) == [top |-> u, family |-> family, root |-> groot, declared |-> root[u] = groot,
                    slot |-> u \in slots, bound |-> "none", settled |-> FALSE, detach |-> FALSE,
                    state |-> IF endpoint.local THEN "mapping" ELSE "active"]
<1>1. /\ sessions' = sessions \union {N(u) : u \in planned} /\ mapped' = mapped \union planned
      /\ held' = held \union planned /\ occupies' = occupies \ planned
      /\ window' = [u \in Toplevels |-> CASE u \in planned \ slots -> "none"
                                          [] u \in planned \intersect slots -> "live"
                                          [] OTHER -> window[u]]
  BY DEF BeginHoist
<1>2. planned \subseteq Toplevels /\ \A u \in planned : u \in occupies /\ client[u] = "mapped"
  BY DEF Hoistable, HoistInv, LifecycleTypes
<1>3. \A u \in planned : N(u) \in SessionType
  BY <1>2 DEF SessionType, States
<1>4. \A u \in planned : /\ N(u).top = u /\ Living(N(u)) /\ (N(u).slot <=> u \in slots)
                         /\ N(u).state \in {"mapping", "active"}
  BY DEF Living
<1> HIDE DEF N
<1>5. \A u \in planned : u \notin held /\ \A s \in sessions : s.top # u
  BY <1>2 DEF HoistInv, HoistsAccounted, ClientsOwned, SessionsMet, Shown
<1>6. window' \in [Toplevels -> {"none", "plain", "live", "closed"}]
  BY <1>1 DEF HoistInv, LifecycleTypes
<1>7. LifecycleTypes'
  BY <1>1, <1>2, <1>3, <1>6 DEF HoistInv, LifecycleTypes
<1>8. SessionsMet' /\ OneSession'
  BY <1>1, <1>2, <1>4, <1>5 DEF HoistInv, HoistsAccounted, SessionsMet, OneSession, Living
<1>9. ClientsOwned'
  BY <1>1, <1>2, <1>4, <1>5 DEF HoistInv, HoistsAccounted, ClientsOwned, Shown, Living
<1>10. WindowsOwned'
  <2>1. \A u \in Toplevels : window'[u] = IF u \in planned THEN IF u \in slots THEN "live" ELSE "none"
                                          ELSE window[u]
    BY <1>1
  <2> QED
    BY <1>1, <1>2, <1>4, <1>5, <2>1 DEF HoistInv, HoistsAccounted, LifecycleTypes, SessionType, WindowsOwned, Living
<1>11. EndpointAgrees'
  BY <1>1, <1>4 DEF HoistInv, HoistsAccounted, EndpointAgrees
<1> QED
  BY <1>7, <1>8, <1>9, <1>10, <1>11 DEF HoistInv, HoistsAccounted

LEMMA BeginHoists ==
  ASSUME HoistInv, NEW ask \in Requests, Begin(ask)
  PROVE  HoistInv'
<1> DEFINE t == IF ask \in Hoistable /\ root[ask] # NoRoot THEN ask ELSE NoRequest
<1>1. UNCHANGED <<client, root, endpoint>>
  BY DEF Begin, clientVars
<1>2. \A family : Planned(family, t) \in SUBSET Hoistable
  BY DEF Planned
<1>3. CASE UNCHANGED <<windowVars, hoistVars>>
  BY <1>1, <1>3, SameHoists DEF windowVars, hoistVars
<1>4. CASE UNCHANGED families /\ \E s \in Carried :
             BeginHoist(s.family, s.root, Planned(s.family, t), Hoistable \intersect {t})
  <2>1. PICK s \in Carried : BeginHoist(s.family, s.root, Planned(s.family, t), Hoistable \intersect {t})
    BY <1>4
  <2>2. s.family \in Nat /\ s.root \in Toplevels \union {NoRoot} /\ families' \in Nat
    BY <1>4 DEF Carried, HoistInv, LifecycleTypes, SessionType
  <2> QED
    BY <1>1, <1>2, <2>1, <2>2, BeginHoistHoists
<1>5. CASE /\ ask \in Hoistable /\ root[ask] # NoRoot /\ families' = families + 1
           /\ BeginHoist(families', root[t], Planned(families', t), Planned(families', t))
  <2>1. families' \in Nat /\ root[t] \in Toplevels \union {NoRoot}
    BY <1>5 DEF Hoistable, HoistInv, LifecycleTypes
  <2> QED
    BY <1>1, <1>2, <1>5, <2>1, BeginHoistHoists
<1> QED
  BY <1>3, <1>4, <1>5 DEF Begin

-----------------------------------------------------------------------------
(* maintain_sessions *)

Leaves == {"end", "restore", "detach and restore"}
Fates == Leaves \union {"close", "detach", "unmap", "reclaim", "keep"}

\* When each fate befalls a session.
LEMMA FateFacts ==
  ASSUME HoistInv, NEW s \in sessions, NEW family, NEW dismissed
  PROVE  LET f == Fate(s, family, dismissed)
         IN /\ f \in Fates
            /\ f = "close" => Living(s) /\ client[s.top] = "gone" /\ s.slot /\ window[s.top] = "live"
            /\ f = "end" => client[s.top] = "gone"
            /\ f \in {"restore", "detach and restore", "detach", "unmap", "reclaim"} =>
                 Living(s) /\ client[s.top] # "gone"
            /\ f = "restore" /\ endpoint.available => s.state = "unmapping"
            /\ f = "reclaim" => s.state = "active"
BY DEF Fate, Fates, Leaves, Living, HoistInv, SessionsMet

\* What a session that stays becomes.
LEMMA MaintainedFacts ==
  ASSUME NEW s \in SessionType, NEW f \in Fates \ Leaves
  PROVE  LET m == Maintained(s, f)
         IN /\ m \in SessionType /\ m.top = s.top /\ m.slot = s.slot
            /\ f = "close" => m.state = "closed"
            /\ f \in {"detach", "unmap"} => m.state = "unmapping"
            /\ f = "reclaim" => m.state = "reclaiming"
            /\ f = "keep" => m.state = s.state
<1> DEFINE P == [s EXCEPT !.declared = s.declared \/ root[s.top] = s.root]
<1>1. P \in SessionType
  BY DEF SessionType
<1>2. P.top = s.top /\ P.slot = s.slot /\ P.state = s.state
  BY DEF SessionType
<1>3. Promoted(s) = P
  BY DEF Promoted
<1> HIDE DEF P
<1>4. CASE f = "close"
  <2>1. Maintained(s, f) = [s EXCEPT !.state = "closed"]
    BY <1>4 DEF Maintained
  <2> QED
    BY <1>4, <2>1 DEF SessionType, States
<1>5. CASE f = "detach"
  <2> DEFINE D == [s EXCEPT !.state = "unmapping", !.detach = TRUE]
  <2>1. Maintained(s, f) = D
    BY <1>5 DEF Maintained
  <2>2. D \in SessionType
    BY DEF SessionType, States
  <2>3. D.top = s.top /\ D.slot = s.slot /\ D.state = "unmapping"
    BY DEF SessionType
  <2> HIDE DEF D
  <2> QED
    BY <1>5, <2>1, <2>2, <2>3
<1>6. CASE f = "unmap"
  <2>1. Maintained(s, f) = [P EXCEPT !.state = "unmapping"]
    BY <1>3, <1>6 DEF Maintained
  <2> QED
    BY <1>1, <1>2, <1>6, <2>1 DEF SessionType, States
<1>7. CASE f = "reclaim"
  <2>1. Maintained(s, f) = [P EXCEPT !.state = "reclaiming"]
    BY <1>3, <1>7 DEF Maintained
  <2> QED
    BY <1>1, <1>2, <1>7, <2>1 DEF SessionType, States
<1>8. CASE f = "keep"
  <2>1. Maintained(s, f) \in {s, P}
    BY <1>3, <1>8 DEF Maintained
  <2> QED
    BY <1>1, <1>2, <1>8, <2>1
<1> QED
  BY <1>4, <1>5, <1>6, <1>7, <1>8 DEF Fates, Leaves

LEMMA MaintainHoists ==
  ASSUME HoistInv, NEW family, NEW dismissed, Maintain(family, dismissed)
  PROVE  HoistInv'
<1> DEFINE F(s) == Fate(s, family, dismissed)
           M(s) == Maintained(s, F(s))
           gone == {"close", "end", "detach", "detach and restore", "unmap"}
           restored == {s \in sessions : F(s) \in {"restore", "detach and restore"}}
           back == Returning(restored)
<1>1. UNCHANGED <<client, root, families, endpoint>>
  BY DEF Maintain, clientVars
<1>2. \A x : x \in sessions' <=> \E s \in sessions : F(s) \notin Leaves /\ x = M(s)
  BY DEF Maintain, Leaves
<1>3. endpoint.available => \A t : t \in mapped' <=> t \in mapped /\ ~\E s \in sessions : F(s) \in gone /\ s.top = t
  BY DEF Maintain, Unmapped
<1>4. \A t : t \in held' <=> t \in held /\ ~\E s \in restored : s.top = t
  BY DEF Maintain
<1>5. \A t : t \in occupies' <=> t \in occupies \/ t \in back
  BY DEF Maintain
<1>6. /\ window' \in [Toplevels -> {window'[t] : t \in Toplevels}]
      /\ \A t \in Toplevels :
           window'[t] = CASE t \in back -> "plain"
                          [] t \in {s.top : s \in {r \in sessions : F(r) \in {"close"}}} -> "closed"
                          [] t \in {s.top : s \in {r \in sessions : F(r) \in {"end"}}} -> "none"
                          [] OTHER -> window[t]
  BY DEF Maintain
<1>7. \A s \in sessions :
        /\ F(s) \in Fates
        /\ F(s) = "close" => Living(s) /\ client[s.top] = "gone" /\ s.slot /\ window[s.top] = "live"
        /\ F(s) = "end" => client[s.top] = "gone"
        /\ F(s) \in {"restore", "detach and restore", "detach", "unmap", "reclaim"} =>
             Living(s) /\ client[s.top] # "gone"
        /\ F(s) = "restore" /\ endpoint.available => s.state = "unmapping"
        /\ F(s) = "reclaim" => s.state = "active"
  BY FateFacts
<1> HIDE DEF F
<1>8. \A s \in sessions : F(s) \notin Leaves =>
        /\ M(s) \in SessionType /\ M(s).top = s.top /\ M(s).slot = s.slot
        /\ F(s) = "close" => M(s).state = "closed"
        /\ F(s) \in {"detach", "unmap"} => M(s).state = "unmapping"
        /\ F(s) = "reclaim" => M(s).state = "reclaiming"
        /\ F(s) = "keep" => M(s).state = s.state
  <2>1. \A s \in sessions : s \in SessionType /\ (F(s) \notin Leaves => F(s) \in Fates \ Leaves)
    BY <1>7 DEF HoistInv, LifecycleTypes
  <2> QED
    BY <2>1, MaintainedFacts, Zenon
<1>9. \A s \in sessions : F(s) \notin Leaves => (Living(M(s)) <=> F(s) # "close" /\ Living(s))
  <2> SUFFICES ASSUME NEW s \in sessions, F(s) \notin Leaves
               PROVE  Living(M(s)) <=> F(s) # "close" /\ Living(s)
    OBVIOUS
  <2>1. CASE F(s) = "close"
    BY <1>8, <2>1 DEF Living
  <2>2. CASE F(s) \in {"detach", "unmap", "reclaim"}
    BY <1>7, <1>8, <2>2 DEF Living
  <2>3. CASE F(s) = "keep"
    BY <1>8, <2>3 DEF Living
  <2> QED
    BY <1>7, <2>1, <2>2, <2>3 DEF Fates
<1> HIDE DEF M, restored
<1>10. \A s \in sessions : s.top \in Toplevels /\ client[s.top] \in {"unmapped", "mapped", "gone"}
  BY DEF HoistInv, LifecycleTypes, SessionsMet, SessionType
<1>11. restored = {s \in sessions : F(s) \in {"restore", "detach and restore"}}
  BY DEF restored
<1>12. \A s \in restored : Shown(s.top) /\ Living(s) /\ s.top \in held
  BY <1>7, <1>10, <1>11 DEF HoistInv, HoistsAccounted, ClientsOwned, Shown
<1>13. /\ \A t \in back : \E s \in restored : s.top = t
       /\ \A s \in restored : s.slot /\ window[s.top] # "none" => s.top \in back
  BY DEF Returning
<1> HIDE DEF back
<1>14. \A s \in sessions : F(s) \in {"close", "end"} => client[s.top] = "gone"
  BY <1>7
<1>15. \A t \in Toplevels :
         window'[t] = IF t \in back THEN "plain"
                      ELSE IF \E s \in sessions : F(s) = "close" /\ s.top = t THEN "closed"
                      ELSE IF \E s \in sessions : F(s) = "end" /\ s.top = t THEN "none"
                      ELSE window[t]
  <2> SUFFICES ASSUME NEW t \in Toplevels
               PROVE  window'[t] = IF t \in back THEN "plain"
                                   ELSE IF \E s \in sessions : F(s) = "close" /\ s.top = t THEN "closed"
                                   ELSE IF \E s \in sessions : F(s) = "end" /\ s.top = t THEN "none"
                                   ELSE window[t]
    OBVIOUS
  <2>1. t \in back => ~\E s \in sessions : F(s) \in {"close", "end"} /\ s.top = t
    BY <1>12, <1>13, <1>14 DEF Shown
  <2>2. ~\E s, r \in sessions : F(s) = "close" /\ F(r) = "end" /\ s.top = t /\ r.top = t
    BY DEF HoistInv, HoistsAccounted, OneSession
  <2> QED
    BY <1>6, <2>1, <2>2
<1>16. LifecycleTypes'
  <2>1. window' \in [Toplevels -> {"none", "plain", "live", "closed"}]
    <3>1. \A t \in Toplevels : window'[t] \in {"none", "plain", "live", "closed"}
      BY <1>15 DEF HoistInv, LifecycleTypes
    <3> QED
      BY <1>6, <3>1
  <2>2. sessions' \in SUBSET SessionType
    BY <1>2, <1>8
  <2>3. back \subseteq Toplevels
    BY <1>10, <1>11, <1>13
  <2>4. held' \in SUBSET Toplevels /\ occupies' \in SUBSET Toplevels
    BY <1>4, <1>5, <2>3 DEF HoistInv, LifecycleTypes
  <2> QED
    BY <1>1, <2>1, <2>2, <2>4 DEF HoistInv, LifecycleTypes
<1>17. SessionsMet' /\ OneSession'
  <2>1. SessionsMet'
    <3> SUFFICES ASSUME NEW x \in sessions'
                 PROVE  client[x.top] # "absent" /\ (~Living(x) => client[x.top] = "gone")
      BY <1>1 DEF SessionsMet, Living
    <3>1. PICK s \in sessions : F(s) \notin Leaves /\ x = M(s)
      BY <1>2
    <3> QED
      BY <1>8, <1>9, <1>10, <1>14, <3>1 DEF HoistInv, SessionsMet
  <2>2. OneSession'
    BY <1>2, <1>8 DEF HoistInv, HoistsAccounted, OneSession
  <2> QED
    BY <2>1, <2>2
<1>18. ClientsOwned'
  <2> SUFFICES ASSUME NEW t \in Toplevels
               PROVE  /\ Shown(t) => (t \in held' <=> \E x \in sessions' : x.top = t /\ Living(x))
                      /\ t \in held' \union occupies' => Shown(t)
                      /\ t \notin held' \/ t \notin occupies'
    BY <1>1 DEF ClientsOwned, Shown, Living
  <2>1. /\ Shown(t) => (t \in held <=> \E s \in sessions : s.top = t /\ Living(s))
        /\ t \in held \union occupies => Shown(t)
        /\ t \notin held \/ t \notin occupies
    BY DEF HoistInv, HoistsAccounted, ClientsOwned
  <2>2. ASSUME Shown(t)
        PROVE  (\E x \in sessions' : x.top = t /\ Living(x)) <=>
                 \E s \in sessions : s.top = t /\ Living(s) /\ s \notin restored
    <3>1. ASSUME NEW s \in sessions, s.top = t
          PROVE  F(s) \notin {"close", "end"}
      BY <1>14, <2>2, <3>1 DEF Shown
    <3>2. ASSUME NEW s \in sessions, s.top = t
          PROVE  s \notin restored <=> F(s) \notin Leaves
      BY <1>11, <3>1, <3>2 DEF Leaves
    <3> QED
      BY <1>2, <1>8, <1>9, <3>1, <3>2
  <2>3. (\E s \in restored : s.top = t) => ~\E s \in sessions : s.top = t /\ Living(s) /\ s \notin restored
    BY <1>11 DEF HoistInv, HoistsAccounted, OneSession
  <2>4. ASSUME Shown(t)
        PROVE  t \in held' <=> \E s \in sessions : s.top = t /\ Living(s) /\ s \notin restored
    BY <1>4, <1>11, <2>1, <2>3, <2>4
  <2>5. t \in held' \union occupies' => Shown(t)
    BY <1>4, <1>5, <1>12, <1>13, <2>1
  <2>6. t \notin held' \/ t \notin occupies'
    BY <1>4, <1>5, <1>13, <2>1
  <2> QED
    BY <2>2, <2>4, <2>5, <2>6
<1>19. WindowsOwned'
  <2>1. ASSUME NEW t \in Toplevels
        PROVE  t \in occupies' <=> window'[t] = "plain"
    <3>1. t \in occupies <=> window[t] = "plain"
      BY DEF HoistInv, HoistsAccounted, WindowsOwned
    <3>2. \A s \in sessions : F(s) \in {"close", "end"} /\ s.top = t => t \notin occupies
      BY <1>14 DEF HoistInv, HoistsAccounted, ClientsOwned, Shown
    <3> QED
      BY <1>5, <1>15, <3>1, <3>2
  <2>2. ASSUME NEW t \in Toplevels, window'[t] \in {"live", "closed"}
        PROVE  \E x \in sessions' : x.top = t /\ x.slot
    <3>1. PICK s \in sessions : s.top = t /\ s.slot /\ window[t] # "none"
      <4>1. CASE \E s \in sessions : F(s) = "close" /\ s.top = t
        BY <1>7, <4>1
      <4>2. CASE ~\E s \in sessions : F(s) = "close" /\ s.top = t
        BY <1>15, <2>2, <4>2 DEF HoistInv, HoistsAccounted, WindowsOwned
      <4> QED
        BY <4>1, <4>2
    <3>2. F(s) \notin {"restore", "detach and restore"}
      BY <1>11, <1>13, <1>15, <2>2, <3>1
    <3>3. F(s) # "end"
      BY <1>15, <2>2, <3>1 DEF HoistInv, HoistsAccounted, OneSession
    <3>4. F(s) \notin Leaves
      BY <3>2, <3>3 DEF Leaves
    <3> QED
      BY <1>2, <1>8, <3>1, <3>4
  <2>3. ASSUME NEW x \in sessions', x.slot, window'[x.top] # "none"
        PROVE  window'[x.top] = IF Living(x) THEN "live" ELSE "closed"
    <3>1. PICK s \in sessions : F(s) \notin Leaves /\ x = M(s)
      BY <1>2
    <3>2. x.top = s.top /\ s.slot /\ s.top \in Toplevels /\ (Living(x) <=> F(s) # "close" /\ Living(s))
      BY <1>8, <1>9, <1>10, <2>3, <3>1
    <3>3. s.top \notin back
      BY <1>11, <1>13, <3>1 DEF HoistInv, HoistsAccounted, OneSession, Leaves
    <3>4. CASE F(s) = "close"
      BY <1>15, <3>2, <3>3, <3>4
    <3>5. CASE F(s) # "close"
      <4>1. window'[s.top] = window[s.top]
        BY <1>15, <2>3, <3>2, <3>3, <3>5 DEF HoistInv, HoistsAccounted, OneSession
      <4> QED
        BY <2>3, <3>2, <3>5, <4>1 DEF HoistInv, HoistsAccounted, WindowsOwned
    <3> QED
      BY <3>4, <3>5
  <2> QED
    BY <2>1, <2>2, <2>3 DEF WindowsOwned, Living
<1>20. EndpointAgrees'
  <2> DEFINE shows == {"mapping", "active", "reclaiming"}
  <2> SUFFICES ASSUME endpoint.available, NEW t
               PROVE  t \in mapped' <=> \E x \in sessions' : x.top = t /\ x.state \in shows
    BY <1>1 DEF EndpointAgrees
  <2>1. t \in mapped <=> \E s \in sessions : s.top = t /\ s.state \in shows
    BY DEF HoistInv, HoistsAccounted, EndpointAgrees
  <2>2. ASSUME NEW s \in sessions, F(s) \notin Leaves
        PROVE  M(s).state \in shows <=> s.state \in shows /\ F(s) \notin gone
    <3>1. F(s) \in {"close", "detach", "unmap"} => M(s).state \notin shows
      BY <1>8, <2>2
    <3>2. F(s) = "reclaim" => M(s).state \in shows /\ s.state \in shows
      BY <1>7, <1>8, <2>2
    <3>3. F(s) = "keep" => M(s).state = s.state
      BY <1>8, <2>2
    <3> QED
      BY <1>7, <2>2, <3>1, <3>2, <3>3 DEF Fates
  <2>3. ASSUME NEW s \in sessions, F(s) \in Leaves, F(s) \notin gone
        PROVE  s.state \notin shows
    BY <1>7, <2>3 DEF Leaves
  <2>4. \A s, r \in sessions : s.top = r.top => s = r
    BY DEF HoistInv, HoistsAccounted, OneSession
  <2>5. ASSUME t \in mapped'
        PROVE  \E x \in sessions' : x.top = t /\ x.state \in shows
    <3>1. PICK s \in sessions : s.top = t /\ s.state \in shows
      BY <1>3, <2>1, <2>5
    <3>2. F(s) \notin gone /\ F(s) \notin Leaves
      BY <1>3, <2>3, <2>5, <3>1
    <3>3. M(s) \in sessions' /\ M(s).top = t
      BY <1>2, <1>8, <3>1, <3>2
    <3> QED
      BY <2>2, <3>1, <3>2, <3>3
  <2>6. ASSUME NEW x \in sessions', x.top = t, x.state \in shows
        PROVE  t \in mapped'
    <3>1. PICK s \in sessions : F(s) \notin Leaves /\ x = M(s)
      BY <1>2
    <3>2. s.top = t /\ s.state \in shows /\ F(s) \notin gone
      BY <1>8, <2>2, <2>6, <3>1
    <3> QED
      BY <1>3, <2>1, <2>4, <3>2
  <2> QED
    BY <2>5, <2>6
<1> QED
  BY <1>16, <1>17, <1>18, <1>19, <1>20 DEF HoistInv, HoistsAccounted

-----------------------------------------------------------------------------
LEMMA HoistPreserved == HoistInv /\ [Next]_vars => HoistInv'
<1> SUFFICES ASSUME HoistInv, [Next]_vars PROVE HoistInv'
  OBVIOUS
<1>1. CASE UNCHANGED vars
  BY <1>1, SameHoists DEF vars, clientVars, windowVars, hoistVars
<1>2. CASE FrameStarts
  BY <1>2, SameHoists DEF FrameStarts, clientVars, windowVars, hoistVars
<1>3. ASSUME NEW t \in Toplevels, ReceiverAppears(t)
      PROVE  HoistInv'
  BY <1>3, SameHoists DEF ReceiverAppears, clientVars, windowVars, hoistVars
<1>6. CASE EndpointLost
  <2>1. endpoint' \in EndpointType /\ ~endpoint'.available
    BY <1>6 DEF EndpointLost, EndpointType, HoistInv, LifecycleTypes
  <2> QED
    BY <1>6, <2>1, SameHoists DEF EndpointLost, clientVars, windowVars
<1>4. CASE \E t \in Requests : Begin(t)
  BY <1>4, BeginHoists
<1>5. CASE \E f \in 0 .. families, t \in Requests : Maintain(f, t)
  BY <1>5, MaintainHoists
<1> QED
  BY <1>1, <1>2, <1>3, <1>4, <1>5, <1>6, ReceiverGoesHoists, MapHoists, DestroyHoists, ReparentHoists, SettleHoists,
     SlotRemovedHoists, AdmitHoists, BindHoists, CompleteHoists DEF Next, FrameStep

\* Between frames and between the systems of a frame, every client and window is
\* accounted for exactly once, and the endpoint presents what is hoisted, for
\* any number of toplevels and whatever the endpoint does.
THEOREM HoistsAreAccounted == Spec => []HoistsAccounted
<1>1. Init => HoistInv
  BY InitHoist
<1>2. HoistInv => HoistsAccounted
  BY DEF HoistInv
<1> QED
  BY <1>1, <1>2, HoistPreserved, PTL DEF Spec

=============================================================================
