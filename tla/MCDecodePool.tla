---------------------------- MODULE MCDecodePool ----------------------------
EXTENDS DecodePool

Pool(workers, depth, generations, keys, tokens) ==
  [workers |-> workers, jobs |-> 2, generations |-> generations, depth |-> depth,
   keys |-> keys, tokens |-> tokens]

\* A pipelined worker that sees three generations of one stream; two workers at
\* both limits, with two streams that change generation.
PipelinedAndShared ==
  {Pool(1, 2, 3, {CHOOSE s \in Streams : TRUE} \X (1 .. 3), 4), Pool(2, 1, 2, Streams \X (1 .. 2), 3)}

\* A pipelined worker with one change of generation.
Pipelined == {Pool(1, 2, 2, Streams \X (1 .. 2), 3)}
=============================================================================
