---------------------------- MODULE EncodedLink -----------------------------
(***************************************************************************)
(* An encoded hoist end to end: EncodedSource and EncodedDestination over  *)
(* the two lanes. A port error ends the relay that owns the port, and with *)
(* it the link.                                                            *)
(*                                                                         *)
(* The steps inside a call (src.call and dst.call not "idle", replay not   *)
(* empty) exclude the other end's steps. They change their own end alone,  *)
(* except that a call may flush twice; a record the second flush would     *)
(* have sent after the peer made room is sent by the next poll instead.    *)
(***************************************************************************)
EXTENDS EncodedSource, EncodedDestination

vars == <<limits, sourceVars, destinationVars, control, media>>

Init == limits \in Links /\ control = <<>> /\ media = <<>> /\ SourceInit /\ DestinationInit

Up == src.error = "none" /\ dst.error = "none"

SourceTurn == Up /\ dst.call = "idle"
DestinationTurn == Up /\ Turn

Next ==
  \/ SourceTurn /\ SourceNext /\ UNCHANGED <<limits, destinationVars>>
  \/ DestinationTurn /\ DestinationNext /\ UNCHANGED <<limits, sourceVars>>

Spec == Init /\ [][Next]_vars

-----------------------------------------------------------------------------
\* No sequence of commits, cancellations and polls makes an end report a
\* protocol error: the source never retains more than one completed batch
\* (output.rs), no frame arrives twice or for another session, no event
\* reaches the relay of another mapping, no frame is decoded without its
\* predecessor, and the receive budget keeps every bound of the destination.
\* Only the two queues that a client can fill end the relay.
OnlyCapacityFails == src.error \in {"none", "pending", "backlog"} /\ dst.error = "none"

\* A presented commit shows, on every layer, the pixels the client had there
\* when it committed, whatever was coalesced, retained, cancelled or replayed.
ContentFaithful == \A s \in Surfaces : shown[s].got.layers = shown[s].want.layers

\* Role, interaction and state events keep their place among the commits: a
\* commit is presented under the role that the client's surface had then.
ControlsKeepTheirPlace == \A s \in Surfaces : shown[s].got.role = shown[s].want.role

\* A withdrawn session leaves nothing behind: what is queued at the destination
\* belongs to the session mapped there, and every encoder context is the current
\* generation of a stream or the job being encoded, whose completion ends it.
SessionsLeaveNothing ==
  LET active == {Generation(b.active) : b \in {src.batch} \ {NoBatch}}
      current == {Generation(src.streams[k]) : k \in DOMAIN src.streams}
  IN /\ \A s \in Surfaces : \A e \in ToSet(dst.queues[s]) : e.session = shown[s].session
     /\ active \subseteq src.encoders /\ src.encoders \subseteq active \union current

\* No decoder context leaks: each belongs to a stream or waits for retirement,
\* also while a cancelled job still uses it.
DecodersAccounted ==
  DOMAIN dst.decoders \subseteq {dst.streams[k] : k \in DOMAIN dst.streams} \union dst.retiring

\* Within a session what is shown never goes back to an older commit, role or
\* title.
NeverBackwards ==
  [][\A s \in Surfaces :
       shown'[s].session = shown[s].session =>
         /\ shown'[s].rev >= shown[s].rev
         /\ shown'[s].role >= shown[s].role
         /\ shown'[s].meta >= shown[s].meta]_vars

Settled(s) ==
  LET c == client[s] v == shown[s]
  IN /\ v.session = c.session
     /\ Hoisted(s) => /\ v.rev = c.rev /\ v.mapped = c.mapped /\ v.layers = c.layers
                      /\ v.role = c.role /\ v.meta = c.meta

\* Nothing but a new input can happen: both ends have returned, no job is under
\* way, no lane takes or gives a record, and no queue has an event to schedule.
Stuck ==
  /\ Up /\ Turn /\ dst.call = "idle" /\ src.batch = NoBatch /\ dst.jobs = {}
  /\ src.outControl = <<>> \/ Len(control) = ControlRoom
  /\ src.outMedia = <<>> \/ Len(media) = MediaRoom
  /\ ~Schedulable(Call(src)) \/ Candidates = {}
  /\ control = <<>> \/ ControlBudget(dst) = 0
  /\ media = <<>> \/ MediaBudget(dst) = 0

\* No tombstone of a cancelled frame, no frame undecoded or unshown, no context
\* that waits to retire.
NothingLeft ==
  /\ control = <<>> /\ media = <<>> /\ dst.retiring = {}
  /\ dst.tombs \union dst.arrived \union dst.decoded = {}

\* The link never ends or stops by itself. No protocol error is reported, and the
\* ends never wait for each other: when nothing is left to happen, every hoisted
\* surface is shown as its client last left it, every other one is gone, and the
\* media of every cancelled frame has freed its tombstone, unless a resize
\* gesture still holds the surface.
LinkKeepsGoing ==
  /\ OnlyCapacityFails
  /\ Stuck => /\ \A s \in Surfaces : s \in src.resizing \/ Settled(s)
              /\ src.resizing # {} \/ NothingLeft
=============================================================================
