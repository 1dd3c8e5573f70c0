---------------------------- MODULE EncodedLanes ----------------------------
(***************************************************************************)
(* What the two ends of an encoded hoist share (weld-hoist-encoded         *)
(* state.rs): the control and media lanes of the transport and the records *)
(* that cross them. The lanes are FIFO and independent of each other.      *)
(*                                                                         *)
(* A buffer's pixels are named by the revision of the commit that attached *)
(* them. A commit carries its inventory `layers' and, for the layers it    *)
(* replaces, `buffers': the content before encoding, a frame on the wire.  *)
(* The other layers are retained. Omitted and removed layers are the same  *)
(* to both ends.                                                           *)
(***************************************************************************)
EXTENDS Integers, SequencesExt

CONSTANTS
  Surfaces,
  Layers,   \* a set of numbers, so that streams are numbered in layer order
  Links     \* the limits that a link may have, with the bounds on what happens on it

VARIABLES
  limits,    \* those of this link
  control,   \* control records under way
  media      \* media records under way

ControlRoom == limits.controlRoom       \* records the transport holds on the control lane
MediaRoom == limits.mediaRoom           \* and on the media lane
MediaHeadroom == limits.mediaHeadroom   \* a batch starts below this many media records
MaxBatch == limits.batch                \* MAX_REPLACEMENTS_PER_COMMIT

ASSUME LanesAssumption ==
  /\ Layers \subseteq Nat /\ IsFiniteSet(Layers)
  /\ \A l \in Links :
       /\ l.surfaces \subseteq Surfaces
       /\ {l.controlRoom, l.mediaRoom, l.mediaHeadroom, l.batch} \subseteq Nat \ {0}

\* A surface event. `want' is not in the code: what the client's surface was
\* when it committed. The other events (role, interaction and state request
\* are one kind, metadata another) carry a counter that tells values apart.
Commit(s, session, rev, mapped, layers, buffers, want) ==
  [kind |-> "commit", surface |-> s, session |-> session, rev |-> rev,
   mapped |-> mapped, layers |-> layers, buffers |-> buffers, want |-> want]
Record(kind, s, session, value) ==
  [kind |-> kind, surface |-> s, session |-> session, value |-> value]

\* MediaFrameId, with the pixels that its access unit encodes.
Frame(stream, gen, seq, content) ==
  [stream |-> stream, gen |-> gen, seq |-> seq, content |-> content]
Generation(f) == <<f.stream, f.gen>>

\* A set of numbers in ascending order.
Ascending(S) == CHOOSE q \in [1 .. Cardinality(S) -> S] : \A i, j \in DOMAIN q : i < j => q[i] < q[j]

\* The place of l in a set of numbers, from 0.
Rank(S, l) == Cardinality({m \in S : m < l})

\* encoded_frames, in the order of the commit's layers
Frames(e) ==
  IF e.kind = "commit"
    THEN LET order == Ascending(DOMAIN e.buffers) IN [i \in DOMAIN order |-> e.buffers[order[i]]]
    ELSE <<>>

\* The elements of q that are not in S, in their order.
Dropping(q, S) ==
  LET kept[n \in 0 .. Len(q)] ==
        IF n = 0 THEN <<>> ELSE IF q[n] \in S THEN kept[n - 1] ELSE Append(kept[n - 1], q[n])
  IN kept[Len(q)]

Empty == [x \in {} |-> x]
Without(f, S) == [x \in DOMAIN f \ S |-> f[x]]
\* f where it is defined, and g elsewhere
Over(f, g) == [x \in DOMAIN f \union DOMAIN g |-> IF x \in DOMAIN f THEN f[x] ELSE g[x]]
=============================================================================
