--------------------------- MODULE HoistLifecycle ---------------------------
(***************************************************************************)
(* Hoisting and reclaiming the windows of one client (weld-hoist           *)
(* lifecycle.rs). Four systems run in every frame, after the surface events*)
(* of the frame were applied: begin_requested_hoists, bind_loopback_       *)
(* receivers, maintain_sessions and, at the end, complete_reclaims.        *)
(* admit_mapped_toplevels of weld-window has no order with the first three.*)
(* A system reads the world as it finds it, and its commands are applied   *)
(* when it has finished, so that each is one step.                         *)
(*                                                                         *)
(* A toplevel has at most one window at a time, which carries its name.    *)
(* Sizes and revisions are reduced to `settled': the client has committed  *)
(* the size of its slot, or the deadline has passed. Persistent windows and*)
(* a choice among several endpoints are left out; a frame has at most one  *)
(* hoist request.                                                          *)
(***************************************************************************)
EXTENDS Naturals, FiniteSetsExt

CONSTANTS
  Toplevels,
  Endpoints,       \* what the endpoint may be and meet: available, local (its
                   \* receiver is the loopback), the toplevels the client makes, whether it
                   \* reparents them, whether other code may remove placeholders,
                   \* and as a bound the number of families begun
  NoRequest, NoRoot

EndpointType ==
  [available : BOOLEAN, local : BOOLEAN, toplevels : SUBSET Toplevels, reparents : BOOLEAN,
   slotsMayGo : BOOLEAN, families : Nat]

ASSUME LifecycleAssumption ==
  /\ Endpoints \subseteq EndpointType
  /\ NoRequest \notin Toplevels /\ NoRoot \notin Toplevels

VARIABLES
  phase,       \* the system that runs next
  admitted,    \* admit_mapped_toplevels has run in this frame
  client,      \* "absent", "unmapped", "mapped", "gone"
  root,        \* root_for_surface of each toplevel
  held,        \* the clients with WindowAdmissionHold
  occupies,    \* the clients with OccupiesWindow
  detached,    \* HoistDetached: the family, or 0
  window,      \* "none", "plain", and placeholders "live" and "closed"
  sessions,    \* the HoistSession entities
  families,    \* the families begun
  endpoint,    \* the HoistEndpoint, with is_available
  mapped,      \* the toplevels mapped at the endpoint
  receiver,    \* the toplevels with a relocated window
  reclaimed    \* the families the last reclaim took whole, kept for the properties

clientVars == <<client, root>>
windowVars == <<held, occupies, detached, window>>
hoistVars == <<sessions, families, mapped>>
vars == <<phase, admitted, clientVars, windowVars, hoistVars, endpoint, receiver, reclaimed>>

Init ==
  /\ phase = "ingress" /\ admitted = FALSE
  /\ client = [t \in Toplevels |-> "absent"] /\ root = [t \in Toplevels |-> t]
  /\ held = {} /\ occupies = {} /\ detached = [t \in Toplevels |-> 0]
  /\ window = [t \in Toplevels |-> "none"]
  /\ sessions = {} /\ families = 0
  /\ \E e \in Endpoints : endpoint = e /\ e.available
  /\ mapped = {} /\ receiver = {} /\ reclaimed = {}

-----------------------------------------------------------------------------
(* What happens between frames.                                            *)

Ingress == phase = "ingress" /\ UNCHANGED <<phase, admitted, reclaimed>>

Shown(t) == client[t] \in {"mapped", "unmapped"}

Map(t) ==
  /\ Ingress /\ t \in endpoint.toplevels /\ client[t] \in {"absent", "unmapped"} /\ client' = [client EXCEPT ![t] = "mapped"]
  /\ UNCHANGED <<root, windowVars, hoistVars, endpoint, receiver>>

Unmap(t) ==
  /\ Ingress /\ client[t] = "mapped" /\ client' = [client EXCEPT ![t] = "unmapped"]
  /\ UNCHANGED <<root, windowVars, hoistVars, endpoint, receiver>>

\* Its vacant window is not retained, unless it is a placeholder. What had it as
\* its root is a root of its own or has a broken chain.
Destroy(t) ==
  /\ Ingress /\ Shown(t) /\ client' = [client EXCEPT ![t] = "gone"]
  /\ held' = held \ {t} /\ occupies' = occupies \ {t} /\ detached' = [detached EXCEPT ![t] = 0]
  /\ window' = IF window[t] = "plain" THEN [window EXCEPT ![t] = "none"] ELSE window
  /\ \E alone \in BOOLEAN :
       root' = [u \in Toplevels |-> IF u = t THEN NoRoot
                                   ELSE IF root[u] # t THEN root[u] ELSE IF alone THEN u ELSE NoRoot]
  /\ UNCHANGED <<hoistVars, endpoint, receiver>>

\* t's parent is set, or cleared (r = t), and t takes its descendants along: all
\* of its tree when it was the root.
Reparent(t, r) ==
  /\ Ingress /\ endpoint.reparents /\ Shown(t) /\ Shown(r)
  /\ LET kin == {u \in Toplevels : Shown(u) /\ root[u] = root[t]}
     IN \E moved \in SUBSET kin :
          /\ t \in moved /\ IF root[t] = t THEN moved = kin ELSE root[t] \notin moved
          /\ r = t \/ (root[r] = r /\ r \notin moved)
          /\ root' = [u \in Toplevels |-> IF u \in moved THEN r ELSE root[u]]
  /\ UNCHANGED <<client, windowVars, hoistVars, endpoint, receiver>>

ReceiverAppears(t) ==
  /\ Ingress /\ endpoint.local /\ t \in mapped /\ client[t] = "mapped" /\ t \notin receiver
  /\ receiver' = receiver \union {t}
  /\ UNCHANGED <<clientVars, windowVars, hoistVars, endpoint>>

\* A session bound to it keeps the name of an entity that is gone.
ReceiverGoes(t) ==
  /\ Ingress /\ t \in receiver /\ receiver' = receiver \ {t}
  /\ sessions' = {IF s.top = t /\ s.bound = "here" THEN [s EXCEPT !.bound = "gone"] ELSE s : s \in sessions}
  /\ UNCHANGED <<clientVars, windowVars, families, mapped, endpoint>>

\* A newer commit arrives, the resize settles, or the deadline passes.
Settle(t) ==
  /\ \E s \in sessions : s.top = t /\ s.state = "reclaiming" /\ ~s.settled
  /\ sessions' = {IF s.top = t /\ s.state = "reclaiming" THEN [s EXCEPT !.settled = TRUE] ELSE s :
                    s \in sessions}
  /\ UNCHANGED <<phase, admitted, clientVars, windowVars, families, mapped, endpoint, receiver, reclaimed>>

SlotRemoved(t) ==
  /\ Ingress /\ endpoint.slotsMayGo /\ window[t] \in {"live", "closed"}
  /\ window' = [window EXCEPT ![t] = "none"]
  /\ UNCHANGED <<clientVars, held, occupies, detached, hoistVars, endpoint, receiver>>

\* The connection is lost, at any moment and for good, and with it what the
\* endpoint presented.
EndpointLost ==
  /\ ~endpoint.local /\ endpoint.available /\ endpoint' = [endpoint EXCEPT !.available = FALSE]
  /\ mapped' = {}
  /\ UNCHANGED <<phase, admitted, clientVars, windowVars, sessions, families, receiver, reclaimed>>

FrameStarts ==
  /\ phase = "ingress" /\ phase' = "begin" /\ admitted' = FALSE
  /\ UNCHANGED <<clientVars, windowVars, hoistVars, endpoint, receiver, reclaimed>>

\* admit_mapped_toplevels
Unclaimed == {t \in Toplevels : client[t] = "mapped" /\ t \notin occupies \union held}

Admit ==
  /\ phase # "ingress" /\ ~admitted /\ admitted' = TRUE
  /\ window' = [t \in Toplevels |-> IF t \in Unclaimed THEN "plain" ELSE window[t]]
  /\ occupies' = occupies \union Unclaimed
  /\ UNCHANGED <<phase, clientVars, held, detached, hoistVars, endpoint, receiver, reclaimed>>

-----------------------------------------------------------------------------
(* begin_requested_hoists *)

Blocked == \E s \in sessions : s.state \in {"reclaiming", "unmapping"}
Carried == {s \in sessions : s.state \in {"mapping", "active"}}
Hoistable == {t \in occupies : client[t] = "mapped"}

\* plan_client_windows: a detached member only comes back on request.
Planned(family, t) == {u \in Hoistable : detached[u] # family \/ u = t}

\* begin_hoist of every planned window: those in slots become placeholders, the
\* others are removed.
BeginHoist(family, groot, planned, slots) ==
  /\ sessions' = sessions \union
       {[top |-> u, family |-> family, root |-> groot, declared |-> root[u] = groot,
         slot |-> u \in slots, bound |-> "none", settled |-> FALSE, detach |-> FALSE,
         state |-> IF endpoint.local THEN "mapping" ELSE "active"] : u \in planned}
  /\ mapped' = mapped \union planned
  /\ held' = held \union planned /\ occupies' = occupies \ planned
  /\ detached' = [u \in Toplevels |-> IF u \in planned THEN 0 ELSE detached[u]]
  /\ window' = [u \in Toplevels |-> CASE u \in planned \ slots -> "none"
                                      [] u \in planned \intersect slots -> "live"
                                      [] OTHER -> window[u]]

\* A request joins the family that is carried, or begins one with its slots; the
\* other windows of a carried family follow it, request or not.
Begin(ask) ==
  LET requested == ask \in Hoistable /\ root[ask] # NoRoot
      t == IF requested THEN ask ELSE NoRequest
  IN /\ phase = "begin" /\ phase' = "bind"
     /\ \/ /\ ~endpoint.available \/ Blocked \/ (Carried = {} /\ ~requested)
           /\ UNCHANGED <<windowVars, hoistVars>>
        \/ /\ endpoint.available /\ ~Blocked
           /\ \E s \in Carried :
                BeginHoist(s.family, s.root, Planned(s.family, t), Hoistable \intersect {t})
           /\ UNCHANGED families
        \/ /\ endpoint.available /\ ~Blocked /\ Carried = {} /\ requested /\ families < endpoint.families
           /\ families' = families + 1
           /\ BeginHoist(families', root[t], Planned(families', t), Planned(families', t))
     /\ UNCHANGED <<admitted, clientVars, endpoint, receiver, reclaimed>>

\* bind_loopback_receivers
Bind ==
  /\ phase = "bind" /\ phase' = "maintain"
  /\ sessions' = {IF s.state = "mapping" /\ endpoint.available /\ s.top \in receiver
                    THEN [s EXCEPT !.state = "active", !.bound = "here"] ELSE s : s \in sessions}
  /\ UNCHANGED <<admitted, clientVars, windowVars, families, mapped, endpoint, receiver, reclaimed>>

-----------------------------------------------------------------------------
(* maintain_sessions: what becomes of a session, by the first case that    *)
(* applies. "end" removes it, "restore" also gives its client back.        *)

Reparented(s) == s.declared /\ root[s.top] \notin {s.root, NoRoot} /\ s.state # "unmapping"
Vacated(s) == s.bound # "here"

\* Mutant: the loss of the endpoint is looked at before that of the client.
FateOfLoss(s, family, dismissed) ==
  IF s.state = "closed" THEN IF s.top = dismissed \/ window[s.top] = "none" THEN "end" ELSE "keep"
  ELSE IF ~endpoint.available THEN "restore"
  ELSE IF client[s.top] = "gone" THEN IF s.slot /\ window[s.top] = "live" THEN "close" ELSE "end"
  ELSE IF s.state = "unmapping" /\ Vacated(s) THEN "restore"
  ELSE "keep"

Fate(s, family, dismissed) ==
  IF s.state = "closed" THEN IF s.top = dismissed \/ window[s.top] = "none" THEN "end" ELSE "keep"
  ELSE IF client[s.top] = "gone" THEN IF s.slot /\ window[s.top] = "live" THEN "close" ELSE "end"
  ELSE IF ~endpoint.available THEN "restore"
  ELSE IF client[s.top] = "unmapped" /\ s.state # "unmapping" THEN "detach"
  ELSE IF Reparented(s) THEN IF Vacated(s) THEN "detach and restore" ELSE "detach"
  ELSE IF s.state = "unmapping" THEN IF Vacated(s) THEN "restore" ELSE "keep"
  ELSE IF s.bound = "gone" /\ s.state = "active" THEN "detach"
  ELSE IF s.state = "active" /\ s.family = family
         THEN IF ~s.slot THEN "unmap" ELSE IF window[s.top] = "none" THEN "keep" ELSE "reclaim"
  ELSE "keep"

\* A reclaim of the family skips a member that is still mapping, and an active one
\* whose placeholder was removed.
Skipped(s, family) ==
  /\ s.family = family
  /\ s.state = "mapping" \/ (s.state = "active" /\ s.slot /\ window[s.top] = "none")

\* A peer that has joined the declared family stays a member of it.
Promoted(s) == [s EXCEPT !.declared = s.declared \/ root[s.top] = s.root]

Maintained(s, fate) ==
  CASE fate = "close" -> [s EXCEPT !.state = "closed"]
    [] fate = "detach" -> [s EXCEPT !.state = "unmapping", !.detach = TRUE]
    [] fate = "unmap" -> [Promoted(s) EXCEPT !.state = "unmapping"]
    [] fate = "reclaim" -> [Promoted(s) EXCEPT !.state = "reclaiming"]
    [] fate = "keep" -> IF s.state = "closed" THEN s ELSE Promoted(s)

\* Mutant: the endpoint is not told.
UnmappedLater(tops) == mapped

\* HoistEndpoint::unmap
Unmapped(tops) == IF endpoint.available THEN mapped \ tops ELSE mapped

\* restore_source: the restored clients that go back into their slots.
Returning(restored) == {s.top : s \in {r \in restored : r.slot /\ window[r.top] # "none"}}

Maintain(family, dismissed) ==
  LET fate == [s \in sessions |-> Fate(s, family, dismissed)]
      With(fates) == {s.top : s \in {r \in sessions : fate[r] \in fates}}
      restored == {s \in sessions : fate[s] \in {"restore", "detach and restore"}}
      leaving == {s \in restored : s.detach \/ fate[s] = "detach and restore"}
      returning == Returning(restored)
  IN /\ phase = "maintain" /\ phase' = "complete"
     /\ sessions' = {Maintained(s, fate[s]) :
                       s \in {r \in sessions : fate[r] \notin {"end", "restore", "detach and restore"}}}
     /\ mapped' = Unmapped(With({"close", "end", "detach", "detach and restore", "unmap"}))
     /\ held' = held \ {s.top : s \in restored} /\ occupies' = occupies \union returning
     /\ detached' = [t \in Toplevels |-> IF \E s \in leaving : s.top = t
                                           THEN (CHOOSE s \in leaving : s.top = t).family
                                           ELSE detached[t]]
     /\ window' = [t \in Toplevels |-> CASE t \in returning -> "plain"
                                         [] t \in With({"close"}) -> "closed"
                                         [] t \in With({"end"}) -> "none"
                                         [] OTHER -> window[t]]
     /\ reclaimed' = IF \E s \in sessions : fate[s] = "keep" /\ Skipped(s, family) THEN reclaimed \ {family}
                     ELSE reclaimed \union {s.family : s \in {r \in sessions : fate[r] \in {"unmap", "reclaim"}}}
     /\ UNCHANGED <<admitted, clientVars, families, endpoint, receiver>>

-----------------------------------------------------------------------------
(* complete_reclaims: a family is restored together. *)

Ready(s) == s.settled \/ (endpoint.local /\ Vacated(s))

\* Mutant: a family also waits for its tombstones.
WholeFamily(family) == {s \in sessions : s.family = family}

Reclaiming(family) == {s \in sessions : s.state = "reclaiming" /\ s.family = family}
FamilyReady(family) == \A s \in Reclaiming(family) : Ready(s)

Complete ==
  LET ready == {s \in sessions : s.state = "reclaiming" /\ FamilyReady(s.family)}
  IN /\ phase = "complete" /\ admitted /\ phase' = "ingress"
     /\ sessions' = {IF s \in ready THEN [s EXCEPT !.state = "unmapping"] ELSE s : s \in sessions}
     /\ mapped' = Unmapped({s.top : s \in ready})
     /\ UNCHANGED <<admitted, clientVars, windowVars, families, endpoint, receiver, reclaimed>>

Requests == Toplevels \union {NoRequest}

FrameStep ==
  \/ FrameStarts \/ Admit \/ Bind \/ Complete
  \/ \E t \in Requests : Begin(t)
  \/ \E f \in 0 .. families, t \in Requests : Maintain(f, t)

Next ==
  \/ FrameStep \/ EndpointLost
  \/ \E t \in Toplevels :
       \/ Map(t) \/ Unmap(t) \/ Destroy(t) \/ Settle(t) \/ SlotRemoved(t)
       \/ ReceiverAppears(t) \/ ReceiverGoes(t) \/ \E r \in Toplevels : Reparent(t, r)

Spec == Init /\ [][Next]_vars

\* Frames go on, a deadline passes, and the relay withdraws what was unmapped.
FairSpec ==
  /\ Spec /\ WF_vars(FrameStep)
  /\ \A t \in Toplevels : WF_vars(Settle(t)) /\ SF_vars(t \notin mapped /\ ReceiverGoes(t))

-----------------------------------------------------------------------------
Living(s) == s.state # "closed"

OneSession == \A s, r \in sessions : s.top = r.top => s = r

ClientsOwned ==
  \A t \in Toplevels :
    /\ Shown(t) => (t \in held <=> \E s \in sessions : s.top = t /\ Living(s))
    /\ t \in held \union occupies => Shown(t)
    /\ t \notin held \/ t \notin occupies

WindowsOwned ==
  /\ \A t \in Toplevels :
       /\ t \in occupies <=> window[t] = "plain"
       /\ window[t] \in {"live", "closed"} => \E s \in sessions : s.top = t /\ s.slot
  /\ \A s \in sessions : s.slot /\ window[s.top] # "none" =>
       window[s.top] = IF Living(s) THEN "live" ELSE "closed"

EndpointAgrees ==
  endpoint.available =>
    mapped = {s.top : s \in {r \in sessions : r.state \in {"mapping", "active", "reclaiming"}}}

\* Nothing is lost or owned twice, between frames and between the systems of a
\* frame. A client is held by exactly one session, or occupies its window, or
\* waits to be admitted; a window without its client is the placeholder of one
\* session, live or closed with it. The endpoint presents exactly the toplevels
\* that are being hoisted.
HoistsAccounted == OneSession /\ ClientsOwned /\ WindowsOwned /\ EndpointAgrees

\* In the end no window is hoisted any more into a family that a reclaim took
\* whole, nor into any family once the endpoint is lost. Not so a family of which
\* the reclaim skips a member, because its placeholder was removed or because it
\* is still mapping: it stays carried, and every later window follows it.
FamilyComesHome ==
  \A f \in 1 .. Max({e.families : e \in Endpoints}) :
    <>[](f \in reclaimed \/ ~endpoint.available => \A s \in sessions : s.family = f => ~Living(s))
=============================================================================
