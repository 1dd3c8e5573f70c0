--------------------------- MODULE MCEncodedLink ---------------------------
(* Commits for the instances of EncodedLink.                               *)
EXTENDS EncodedLink

Shape(layers, replaced, mapped) == [layers |-> layers, replaced |-> replaced, mapped |-> mapped]

\* Two layers that come, change together or apart, and go.
LayerShapes ==
  {Shape({1, 2}, {1, 2}, TRUE), Shape({1, 2}, {1}, TRUE), Shape({2}, {}, TRUE),
   Shape({1, 2}, {2}, FALSE), Shape({}, {}, FALSE)}

\* One layer.
PlainShapes == {Shape({1}, {1}, TRUE), Shape({1}, {}, TRUE), Shape({}, {}, FALSE)}

\* One layer that is always painted.
PaintShapes == {Shape({1}, {1}, TRUE)}

\* One surface whose layers change while its streams rotate; two layers.
LayerLink(s) ==
  [surfaces |-> {s}, shapes |-> LayerShapes,
   controlRoom |-> 2, mediaRoom |-> 2, mediaHeadroom |-> 1, batch |-> 2, pending |-> 3, backlog |-> 3,
   revisions |-> 3, controls |-> 0, sessions |-> 1, resizes |-> 0, turns |-> 2,
   referenced |-> 4, events |-> 3, media |-> 2, jobs |-> 2, generations |-> 2]

\* One surface that is mapped twice, with a decoder for one stream.
SessionLink(s) ==
  [LayerLink(s) EXCEPT !.shapes = PlainShapes, !.batch = 1, !.revisions = 2, !.controls = 1,
     !.sessions = 2, !.referenced = 2, !.media = 1, !.generations = 1]

\* Two surfaces that share lanes, budget and decoder with room for one.
SharedLink ==
  [surfaces |-> Surfaces, shapes |-> PaintShapes,
   controlRoom |-> 1, mediaRoom |-> 1, mediaHeadroom |-> 1, batch |-> 1, pending |-> 2, backlog |-> 3,
   revisions |-> 2, controls |-> 0, sessions |-> 2, resizes |-> 0, turns |-> 1,
   referenced |-> 2, events |-> 2, media |-> 1, jobs |-> 1, generations |-> 2]

\* The same with a resize gesture.
ResizedLink == [SharedLink EXCEPT !.revisions = 1, !.resizes = 1]

LayersAndSurfaces == {LayerLink(s) : s \in Surfaces} \union {SharedLink, ResizedLink}
Sessions == {SessionLink(s) : s \in Surfaces}

SurfaceSymmetry == Permutations(Surfaces)
=============================================================================
