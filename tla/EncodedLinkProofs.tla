-------------------------- MODULE EncodedLinkProofs -------------------------
(***************************************************************************)
(* SessionsLeaveNothing and DecodersAccounted for any surfaces, layers,    *)
(* limits and orders of commits, cancellations, completions and polls.     *)
(*                                                                         *)
(* SourceOk is about the source alone: what is queued, which generation    *)
(* each encoder context is of, and that a stream never repeats a frame.    *)
(* On the way to the destination the control records form a path (Path):   *)
(* each is legal in the sessions that those before it leave, and brings    *)
(* frames that none before it brought. DestinationOk is about what is      *)
(* queued there and the decoder contexts that it keeps.                    *)
(***************************************************************************)
EXTENDS EncodedLink, FiniteSetTheorems, SequenceTheorems, WellFoundedInduction, TLAPS

-----------------------------------------------------------------------------
(* Induction over the indices of a sequence, from the least counterexample.*)

Less == {p \in Nat \X Nat : p[1] < p[2]}

\* The order that the inductions below rest on.
LEMMA LessWellFounded == IsWellFoundedOn(Less, Nat)
BY NatLessThanWellFounded DEF OpToRel, Less

\* A set of naturals that is not empty has an element with none below it.
LEMMA MinimalOf ==
  ASSUME NEW T, T \subseteq Nat, T # {}
  PROVE  \E x \in T : \A y \in T : ~(<<y, x>> \in Less)
BY LessWellFounded, WFMin, Zenon

\* What is not below is at least as large.
LEMMA NotLess ==
  ASSUME NEW x \in Nat, NEW y \in Nat, ~(<<y, x>> \in Less)
  PROVE  x <= y
BY DEF Less

\* A set of naturals that is not empty has a least element.
LEMMA LeastOf ==
  ASSUME NEW T, T \subseteq Nat, T # {}
  PROVE  \E x \in T : \A y \in T : x <= y
<1>1. PICK x \in T : \A y \in T : ~(<<y, x>> \in Less)
  BY MinimalOf
<1>2. \A y \in T : x <= y
  BY <1>1, NotLess
<1> QED
  BY <1>2

Inductive(N, P) == N \in Nat /\ 0 \in P /\ \A n \in 1 .. N : n - 1 \in P => n \in P

\* What holds at 0 and passes from each index to the next holds up to N.
LEMMA Induct ==
  ASSUME NEW N, NEW P, Inductive(N, P)
  PROVE  N \in P
<1> DEFINE T == {n \in 0 .. N : n \notin P}
<1> SUFFICES ASSUME T # {} PROVE FALSE
  BY DEF Inductive
<1>1. T \subseteq Nat
  OBVIOUS
<1> HIDE DEF T
<1>2. PICK x \in T : \A y \in T : x <= y
  BY <1>1, LeastOf
<1>3. x \in 1 .. N /\ x \notin P
  BY <1>2 DEF T, Inductive
<1>4. x - 1 \in T
  BY <1>3 DEF T, Inductive
<1> QED
  BY <1>2, <1>3, <1>4 DEF Inductive

-----------------------------------------------------------------------------
(* Sequences.                                                              *)

IsSeq(q) == \E E : q \in Seq(E)
IsMap(f) == f = [x \in DOMAIN f |-> f[x]]

\* A sequence, without naming the set its elements are in.
LEMMA SeqFacts ==
  ASSUME NEW q, IsSeq(q)
  PROVE  Len(q) \in Nat /\ DOMAIN q = 1 .. Len(q) /\ ToSet(q) = {q[i] : i \in 1 .. Len(q)}
BY DEF IsSeq, ToSet

\* The elements of a concatenation.
LEMMA ConcatFacts ==
  ASSUME NEW q, NEW p, IsSeq(q), IsSeq(p)
  PROVE  /\ IsSeq(q \o p) /\ Len(q \o p) = Len(q) + Len(p)
         /\ \A i \in 1 .. Len(q) : (q \o p)[i] = q[i]
         /\ \A i \in 1 .. Len(p) : (q \o p)[Len(q) + i] = p[i]
<1>1. PICK E, F : q \in Seq(E) /\ p \in Seq(F)
  BY DEF IsSeq
<1>2. q \in Seq(E \union F) /\ p \in Seq(E \union F)
  BY <1>1
<1>3. q \o p \in Seq(E \union F)
  BY <1>2, ConcatProperties
<1>4. /\ Len(q \o p) = Len(q) + Len(p)
      /\ \A i \in 1 .. Len(q) + Len(p) : (q \o p)[i] = IF i <= Len(q) THEN q[i] ELSE p[i - Len(q)]
  BY <1>2, ConcatProperties
<1>5. Len(q) \in Nat /\ Len(p) \in Nat
  BY <1>2
<1> QED
  BY <1>3, <1>4, <1>5 DEF IsSeq

\* The elements of a sequence that grows by one.
LEMMA AppendFacts ==
  ASSUME NEW q, IsSeq(q), NEW m
  PROVE  /\ IsSeq(Append(q, m)) /\ Append(q, m) = q \o <<m>> /\ Len(Append(q, m)) = Len(q) + 1
         /\ Append(q, m)[Len(q) + 1] = m /\ \A i \in 1 .. Len(q) : Append(q, m)[i] = q[i]
<1>1. PICK E : q \in Seq(E)
  BY DEF IsSeq
<1>2. q \in Seq(E \union {m})
  BY <1>1
<1>3. Append(q, m) \in Seq(E \union {m}) /\ Append(q, m) = q \o <<m>> /\ Len(Append(q, m)) = Len(q) + 1
  BY <1>2
<1>4. Append(q, m)[Len(q) + 1] = m /\ \A i \in 1 .. Len(q) : Append(q, m)[i] = q[i]
  BY <1>2
<1> QED
  BY <1>3, <1>4 DEF IsSeq

\* A sequence of one element.
LEMMA OneFacts ==
  ASSUME NEW m
  PROVE  IsSeq(<<m>>) /\ Len(<<m>>) = 1 /\ <<m>>[1] = m
<1>1. <<m>> \in Seq({m})
  OBVIOUS
<1> QED
  BY <1>1 DEF IsSeq

\* The first n elements of a sequence, and the others.
LEMMA PartFacts ==
  ASSUME NEW q, IsSeq(q), NEW n \in 0 .. Len(q)
  PROVE  LET p == SubSeq(q, 1, n) w == SubSeq(q, n + 1, Len(q))
         IN /\ IsSeq(p) /\ Len(p) = n /\ \A i \in 1 .. n : p[i] = q[i]
            /\ IsSeq(w) /\ Len(w) = Len(q) - n /\ \A i \in 1 .. Len(q) - n : w[i] = q[n + i]
<1>1. PICK E : q \in Seq(E)
  BY DEF IsSeq
<1>2. Len(q) \in Nat
  BY <1>1
<1>3. PICK p : p = SubSeq(q, 1, n)
  OBVIOUS
<1>4. p \in Seq(E) /\ Len(p) = n /\ \A i \in 1 .. n : p[i] = q[i]
  BY <1>1, <1>2, <1>3
<1>5. PICK w : w = SubSeq(q, n + 1, Len(q))
  OBVIOUS
<1>6. w \in Seq(E) /\ Len(w) = Len(q) - n /\ \A i \in 1 .. Len(q) - n : w[i] = q[n + i]
  BY <1>1, <1>2, <1>5
<1> QED
  BY <1>3, <1>4, <1>5, <1>6 DEF IsSeq

\* The sequence c is q and then p.
Joined(c, q, p) ==
  /\ IsSeq(c) /\ Len(c) = Len(q) + Len(p)
  /\ \A i \in 1 .. Len(q) : c[i] = q[i]
  /\ \A i \in 1 .. Len(p) : c[Len(q) + i] = p[i]

\* ConcatFacts as one named fact.
LEMMA ConcatJoined ==
  ASSUME NEW q, NEW p, IsSeq(q), IsSeq(p)
  PROVE  Joined(q \o p, q, p)
BY ConcatFacts DEF Joined

-----------------------------------------------------------------------------
(* What Dropping leaves, in its order.                                     *)

DropStep(S, p, e) == IF e \in S THEN p ELSE Append(p, e)
DropRun(f, S, q) == f[0] = <<>> /\ \A n \in 1 .. Len(q) : f[n] = DropStep(S, f[n - 1], q[n])
DropDef(f, N, S, q) == f = [n \in 0 .. N |-> IF n = 0 THEN <<>> ELSE DropStep(S, f[n - 1], q[n])]

\* The function that Dropping recurs on exists.
LEMMA DropRunExists ==
  ASSUME NEW S, NEW q, Len(q) \in Nat
  PROVE  \E f : DropDef(f, Len(q), S, q)
<1> DEFINE P == {n \in 0 .. Len(q) : \E f : DropDef(f, n, S, q)}
<1>1. 0 \in P
  <2>1. DropDef([n \in 0 .. 0 |-> <<>>], 0, S, q)
    BY DEF DropDef
  <2> QED
    BY <2>1
<1>2. ASSUME NEW n \in 1 .. Len(q), n - 1 \in P
      PROVE  n \in P
  <2>1. PICK f : DropDef(f, n - 1, S, q)
    BY <1>2
  <2>2. \A m \in 0 .. n - 1 : f[m] = IF m = 0 THEN <<>> ELSE DropStep(S, f[m - 1], q[m])
    BY <2>1 DEF DropDef
  <2> DEFINE g == [m \in 0 .. n |-> IF m = n THEN DropStep(S, f[n - 1], q[n]) ELSE f[m]]
  <2>3. g[n] = DropStep(S, f[n - 1], q[n]) /\ \A m \in 0 .. n - 1 : g[m] = f[m]
    OBVIOUS
  <2>4. g = [m \in 0 .. n |-> g[m]]
    OBVIOUS
  <2> HIDE DEF g
  <2>5. ASSUME NEW m \in 0 .. n
        PROVE  g[m] = IF m = 0 THEN <<>> ELSE DropStep(S, g[m - 1], q[m])
    <3>1. CASE m = n
      BY <2>3, <3>1
    <3>2. CASE m = 0
      BY <2>2, <2>3, <3>2
    <3>3. CASE m # n /\ m # 0
      <4>1. m \in 0 .. n - 1 /\ m - 1 \in 0 .. n - 1
        BY <3>3
      <4> QED
        BY <2>2, <2>3, <3>3, <4>1
    <3> QED
      BY <3>1, <3>2, <3>3
  <2>6. DropDef(g, n, S, q)
    BY <2>4, <2>5 DEF DropDef
  <2> QED
    BY <2>6
<1> HIDE DEF P
<1>3. Inductive(Len(q), P)
  BY <1>1, <1>2 DEF Inductive
<1>4. Len(q) \in P
  BY <1>3, Induct
<1> QED
  BY <1>4 DEF P

\* And Dropping is its last value.
LEMMA DropRuns ==
  ASSUME NEW S, NEW q, Len(q) \in Nat
  PROVE  \E f : DropRun(f, S, q) /\ Dropping(q, S) = f[Len(q)]
<1> DEFINE f == CHOOSE g : DropDef(g, Len(q), S, q)
<1>1. Dropping(q, S) = f[Len(q)]
  BY DEF Dropping, DropDef, DropStep
<1>2. DropDef(f, Len(q), S, q)
  BY DropRunExists
<1> HIDE DEF f
<1>3. \A n \in 0 .. Len(q) : f[n] = IF n = 0 THEN <<>> ELSE DropStep(S, f[n - 1], q[n])
  BY <1>2 DEF DropDef
<1>4. DropRun(f, S, q)
  BY <1>3 DEF DropRun
<1> QED
  BY <1>1, <1>4

\* The elements of p are those of q at the indices h, which ascend.
Picks(p, q, h) ==
  /\ IsSeq(p) /\ \A i \in 1 .. Len(p) : h[i] \in 1 .. Len(q) /\ p[i] = q[h[i]]
  /\ \A i, j \in 1 .. Len(p) : i < j => h[i] < h[j]

\* What Dropping leaves is of q, in the order of q.
LEMMA DroppingPicks ==
  ASSUME NEW q, IsSeq(q), NEW S
  PROVE  \E h : Picks(Dropping(q, S), q, h) /\ \A i \in 1 .. Len(Dropping(q, S)) : Dropping(q, S)[i] \notin S
<1>1. Len(q) \in Nat
  BY SeqFacts
<1>2. PICK f : DropRun(f, S, q) /\ Dropping(q, S) = f[Len(q)]
  BY <1>1, DropRuns
<1> DEFINE P == {n \in 0 .. Len(q) : \E h : Picks(f[n], q, h) /\ \A i \in 1 .. Len(f[n]) : h[i] <= n /\ f[n][i] \notin S}
<1>3. 0 \in P
  <2>1. f[0] = <<>> /\ Len(<<>>) = 0 /\ <<>> \in Seq({})
    BY <1>2 DEF DropRun
  <2>2. Picks(f[0], q, <<>>) /\ \A i \in 1 .. Len(f[0]) : <<>>[i] <= 0 /\ f[0][i] \notin S
    BY <2>1 DEF Picks, IsSeq
  <2> QED
    BY <1>1, <2>2
<1>4. ASSUME NEW n \in 1 .. Len(q), n - 1 \in P
      PROVE  n \in P
  <2>1. PICK p, e : p = f[n - 1] /\ e = q[n]
    OBVIOUS
  <2>2. PICK h : Picks(p, q, h) /\ \A i \in 1 .. Len(p) : h[i] <= n - 1 /\ p[i] \notin S
    BY <1>4, <2>1
  <2>3. f[n] = IF e \in S THEN p ELSE Append(p, e)
    BY <1>2, <2>1 DEF DropRun, DropStep
  <2>4. IsSeq(p) /\ Len(p) \in Nat
    BY <2>2, SeqFacts DEF Picks
  <2>5. CASE e \in S
    <3>1. \A i \in 1 .. Len(p) : h[i] <= n /\ p[i] \notin S
      BY <1>1, <2>2 DEF Picks
    <3> QED
      BY <1>1, <2>2, <2>3, <2>5, <3>1
  <2>6. CASE e \notin S
    <3>1. PICK w : w = Append(p, e)
      OBVIOUS
    <3>2. IsSeq(w) /\ Len(w) = Len(p) + 1 /\ w[Len(p) + 1] = e /\ \A i \in 1 .. Len(p) : w[i] = p[i]
      BY <2>4, <3>1, AppendFacts, ZenonT(60)
    <3> DEFINE g == [i \in 1 .. Len(p) + 1 |-> IF i = Len(p) + 1 THEN n ELSE h[i]]
    <3>3. g[Len(p) + 1] = n /\ \A i \in 1 .. Len(p) : g[i] = h[i]
      BY <2>4
    <3> HIDE DEF g
    <3>4. \A i \in 1 .. Len(w) : g[i] \in 1 .. Len(q) /\ g[i] <= n /\ w[i] = q[g[i]] /\ w[i] \notin S
      <4>1. TAKE i \in 1 .. Len(w)
      <4>2. CASE i = Len(p) + 1
        BY <1>1, <2>1, <2>6, <3>2, <3>3, <4>2
      <4>3. CASE i \in 1 .. Len(p)
        BY <1>1, <2>2, <3>2, <3>3, <4>3 DEF Picks
      <4> QED
        BY <2>4, <3>2, <4>2, <4>3
    <3>5. \A i, j \in 1 .. Len(w) : i < j => g[i] < g[j]
      <4>1. TAKE i, j \in 1 .. Len(w)
      <4>2. HAVE i < j
      <4>3. i \in 1 .. Len(p)
        BY <2>4, <3>2, <4>2
      <4>4. CASE j = Len(p) + 1
        <5>1. g[i] = h[i] /\ h[i] <= n - 1 /\ h[i] \in 1 .. Len(q)
          BY <2>2, <3>3, <4>3 DEF Picks
        <5> QED
          BY <1>1, <3>3, <4>4, <5>1
      <4>5. CASE j \in 1 .. Len(p)
        BY <2>2, <3>3, <4>2, <4>3, <4>5 DEF Picks
      <4> QED
        BY <2>4, <3>2, <4>4, <4>5
    <3>6. Picks(w, q, g)
      BY <3>2, <3>4, <3>5 DEF Picks
    <3>7. f[n] = w
      BY <2>3, <2>6, <3>1
    <3> QED
      BY <1>1, <3>4, <3>6, <3>7
  <2> QED
    BY <2>5, <2>6
<1> HIDE DEF P
<1>5. Inductive(Len(q), P)
  BY <1>1, <1>3, <1>4 DEF Inductive
<1>6. Len(q) \in P
  BY <1>5, Induct
<1> QED
  BY <1>2, <1>6 DEF P

-----------------------------------------------------------------------------
(* The frames of a commit, in the order of its layers.                     *)

Ascends(q) == \A i, j \in DOMAIN q : i < j => q[i] < q[j]

\* A finite set of numbers can be listed in ascending order.
LEMMA AscendingExists ==
  ASSUME NEW S, S \subseteq Nat, IsFiniteSet(S)
  PROVE  \E q \in [1 .. Cardinality(S) -> S] : Ascends(q)
<1> DEFINE P == {n \in 0 .. Cardinality(S) :
                  \A T \in SUBSET S : Cardinality(T) = n => \E q \in [1 .. n -> T] : Ascends(q)}
<1>1. Cardinality(S) \in Nat
  BY FS_CardinalityType
<1>2. 0 \in P
  <2>1. \A T \in SUBSET S : [i \in 1 .. 0 |-> 0] \in [1 .. 0 -> T] /\ Ascends([i \in 1 .. 0 |-> 0])
    BY DEF Ascends
  <2>2. \A T \in SUBSET S : \E q \in [1 .. 0 -> T] : Ascends(q)
    BY <2>1
  <2> QED
    BY <1>1, <2>2
<1>3. ASSUME NEW n \in 1 .. Cardinality(S), n - 1 \in P
      PROVE  n \in P
  <2>1. ASSUME NEW T \in SUBSET S, Cardinality(T) = n
        PROVE  \E q \in [1 .. n -> T] : Ascends(q)
    <3>1. IsFiniteSet(T) /\ T \subseteq Nat
      BY FS_Subset
    <3>2. T # {}
      BY <1>1, <2>1, FS_EmptySet
    <3>3. PICK m \in T : \A y \in T : m <= y
      BY <3>1, <3>2, LeastOf
    <3>4. PICK R : R = T \ {m}
      OBVIOUS
    <3>5. R \in SUBSET S /\ Cardinality(R) = n - 1
      BY <1>1, <2>1, <3>1, <3>3, <3>4, FS_RemoveElement
    <3>6. PICK p \in [1 .. n - 1 -> R] : Ascends(p)
      BY <1>3, <3>5
    <3>7. \A i \in 1 .. n - 1 : p[i] \in T /\ p[i] \in Nat /\ m < p[i]
      <4>1. TAKE i \in 1 .. n - 1
      <4>2. p[i] \in R
        BY <3>6
      <4>3. p[i] \in T /\ p[i] # m
        BY <3>4, <4>2
      <4>4. p[i] \in Nat /\ m \in Nat /\ m <= p[i]
        BY <3>1, <3>3, <4>3
      <4> QED
        BY <4>3, <4>4
    <3> DEFINE q == [i \in 1 .. n |-> IF i = 1 THEN m ELSE p[i - 1]]
    <3>8. q \in [1 .. n -> T]
      <4>1. \A i \in 1 .. n : q[i] \in T
        BY <1>1, <3>3, <3>7
      <4> QED
        BY <4>1
    <3>9. Ascends(q)
      <4>1. SUFFICES ASSUME NEW i \in 1 .. n, NEW j \in 1 .. n, i < j PROVE q[i] < q[j]
        BY DEF Ascends
      <4>2. q[j] = p[j - 1] /\ j - 1 \in 1 .. n - 1
        BY <1>1, <4>1
      <4>3. CASE i = 1
        BY <3>7, <4>2, <4>3
      <4>4. CASE i # 1
        <5>1. q[i] = p[i - 1] /\ i - 1 \in 1 .. n - 1 /\ i - 1 < j - 1
          BY <1>1, <4>1, <4>4
        <5>2. DOMAIN p = 1 .. n - 1
          BY <3>6
        <5> QED
          BY <3>6, <4>2, <5>1, <5>2 DEF Ascends
      <4> QED
        BY <4>3, <4>4
    <3> QED
      BY <3>8, <3>9
  <2> QED
    BY <1>1, <2>1
<1> HIDE DEF P
<1>4. Inductive(Cardinality(S), P)
  BY <1>1, <1>2, <1>3 DEF Inductive
<1>5. Cardinality(S) \in P
  BY <1>4, Induct
<1> QED
  BY <1>5 DEF P

\* Ascending is such a list.
LEMMA AscendingOf ==
  ASSUME NEW S, S \subseteq Nat, IsFiniteSet(S)
  PROVE  Ascending(S) \in [1 .. Cardinality(S) -> S] /\ Cardinality(S) \in Nat
<1>1. \E q \in [1 .. Cardinality(S) -> S] : \A i, j \in DOMAIN q : i < j => q[i] < q[j]
  BY AscendingExists DEF Ascends
<1>2. Ascending(S) \in [1 .. Cardinality(S) -> S]
  BY <1>1 DEF Ascending
<1> QED
  BY <1>2, FS_CardinalityType

\* The frames of a commit, listed in the order of its layers.
LEMMA FramesListed ==
  ASSUME NEW e, e.kind = "commit", DOMAIN e.buffers \subseteq Layers
  PROVE  /\ IsSeq(Frames(e)) /\ \A i \in 1 .. Len(Frames(e)) : Frames(e)[i] \in FramesOf(e)
         /\ DOMAIN e.buffers # {} => Frames(e) # <<>> /\ Len(Frames(e)) > 0
<1>1. PICK S, n : S = DOMAIN e.buffers /\ n = Cardinality(S)
  OBVIOUS
<1>2. S \subseteq Nat /\ IsFiniteSet(S)
  BY <1>1, LanesAssumption, FS_Subset
<1>3. PICK q : q = Ascending(S)
  OBVIOUS
<1>4. q \in [1 .. n -> S] /\ n \in Nat
  BY <1>1, <1>2, <1>3, AscendingOf
<1>5. PICK b : b = e.buffers
  OBVIOUS
<1>6. Frames(e) = [i \in 1 .. n |-> b[q[i]]]
  BY <1>1, <1>3, <1>4, <1>5 DEF Frames
<1>7. FramesOf(e) = {b[l] : l \in S}
  BY <1>1, <1>5 DEF FramesOf
<1>8. \A i \in 1 .. n : b[q[i]] \in {b[l] : l \in S}
  BY <1>4
<1>9. PICK F : F = {b[l] : l \in S}
  OBVIOUS
<1>10. Frames(e) \in Seq(F) /\ Len(Frames(e)) = n /\ \A i \in 1 .. n : Frames(e)[i] \in F
  BY <1>4, <1>6, <1>8, <1>9
<1>11. S # {} => n > 0
  BY <1>1, <1>2, <1>4, FS_EmptySet
<1>12. n > 0 => Frames(e) # <<>>
  BY <1>10
<1> QED
  BY <1>1, <1>7, <1>9, <1>10, <1>11, <1>12 DEF IsSeq

-----------------------------------------------------------------------------
(* What the control records say, one after the other.                      *)

\* The sessions that are mapped, and the frames that have been sent.
State(session, used) == [session |-> session, used |-> used]

\* The record e is right for a destination in state a, and leaves it in state b.
Legal(a, e, b) ==
  /\ e.surface \in Surfaces /\ e.kind \in {"map", "withdraw", "destroyed", "role", "metadata", "commit"}
  /\ e.kind = "map" => a.session[e.surface] = 0
  /\ e.kind \in {"destroyed", "role", "metadata", "commit"} => a.session[e.surface] = e.session
  /\ b.session = CASE e.kind = "map" -> [a.session EXCEPT ![e.surface] = e.session]
                    [] e.kind \in {"withdraw", "destroyed"} -> [a.session EXCEPT ![e.surface] = 0]
                    [] OTHER -> a.session
  /\ FramesOf(e) \cap a.used = {} /\ b.used = a.used \union FramesOf(e)
  /\ e.kind \in {"role", "metadata", "commit"} => e.session # 0
  /\ e.kind = "commit" => DOMAIN e.buffers \subseteq Layers

PathBy(f, a, q, b) == f[0] = a /\ f[Len(q)] = b /\ \A n \in 1 .. Len(q) : Legal(f[n - 1], q[n], f[n])
Path(a, q, b) == \E f : PathBy(f, a, q, b)

\* No record leads nowhere.
LEMMA NoPath ==
  ASSUME NEW a
  PROVE  Path(a, <<>>, a)
<1>1. PathBy([n \in {0} |-> a], a, <<>>, a)
  BY DEF PathBy
<1> QED
  BY <1>1 DEF Path

\* A legal record is a path.
LEMMA PathOne ==
  ASSUME NEW a, NEW m, NEW b, Legal(a, m, b)
  PROVE  Path(a, <<m>>, b)
<1> DEFINE f == [n \in 0 .. 1 |-> IF n = 0 THEN a ELSE b]
<1>1. f[0] = a /\ f[1] = b
  OBVIOUS
<1> HIDE DEF f
<1>2. PathBy(f, a, <<m>>, b)
  BY <1>1, OneFacts DEF PathBy
<1> QED
  BY <1>2 DEF Path

\* Two paths that meet are one.
LEMMA PathJoin ==
  ASSUME NEW a, NEW p, NEW b, NEW q, NEW c, IsSeq(p), IsSeq(q), Path(a, p, b), Path(b, q, c)
  PROVE  Path(a, p \o q, c)
<1>1. PICK f : PathBy(f, a, p, b)
  BY DEF Path
<1>2. PICK g : PathBy(g, b, q, c)
  BY DEF Path
<1>3. Len(p) \in Nat /\ Len(q) \in Nat
  BY SeqFacts
<1>4. Joined(p \o q, p, q)
  BY ConcatJoined
<1> DEFINE h == [n \in 0 .. Len(p) + Len(q) |-> IF n <= Len(p) THEN f[n] ELSE g[n - Len(p)]]
<1>5. ASSUME NEW n \in 0 .. Len(p) PROVE h[n] = f[n]
  BY <1>3
<1>6. ASSUME NEW n \in 0 .. Len(q) PROVE h[Len(p) + n] = g[n]
  <2>1. CASE n = 0
    BY <1>1, <1>2, <1>3, <2>1 DEF PathBy
  <2>2. CASE n # 0
    BY <1>3, <2>2
  <2> QED
    BY <2>1, <2>2
<1> HIDE DEF h
<1>7. PICK w : w = p \o q
  OBVIOUS
<1>8. Len(w) = Len(p) + Len(q) /\ (\A i \in 1 .. Len(p) : w[i] = p[i]) /\ (\A i \in 1 .. Len(q) : w[Len(p) + i] = q[i])
  BY <1>4, <1>7 DEF Joined
<1>9. ASSUME NEW n \in 1 .. Len(w) PROVE Legal(h[n - 1], w[n], h[n])
  <2>1. CASE n <= Len(p)
    <3>1. n \in 1 .. Len(p) /\ n - 1 \in 0 .. Len(p) /\ n \in 0 .. Len(p)
      BY <1>3, <1>8, <2>1
    <3>2. h[n - 1] = f[n - 1] /\ h[n] = f[n] /\ w[n] = p[n]
      BY <1>5, <1>8, <3>1
    <3> QED
      BY <1>1, <3>1, <3>2 DEF PathBy
  <2>2. CASE ~(n <= Len(p))
    <3>1. PICK k \in 1 .. Len(q) : n = Len(p) + k
      <4>1. n - Len(p) \in 1 .. Len(q)
        BY <1>3, <1>8, <2>2
      <4> QED
        BY <1>3, <4>1, SMTT(30)
    <3>2. k - 1 \in 0 .. Len(q) /\ k \in 0 .. Len(q) /\ n - 1 = Len(p) + (k - 1)
      BY <1>3, <3>1
    <3>3. h[n - 1] = g[k - 1] /\ h[n] = g[k] /\ w[n] = q[k]
      BY <1>6, <1>8, <3>1, <3>2
    <3> QED
      BY <1>2, <3>1, <3>3 DEF PathBy
  <2> QED
    BY <2>1, <2>2
<1>10. h[0] = a /\ h[Len(w)] = c
  <2>1. h[0] = f[0]
    BY <1>3, <1>5
  <2>2. h[Len(p) + Len(q)] = g[Len(q)]
    BY <1>3, <1>6
  <2> QED
    BY <1>1, <1>2, <1>8, <2>1, <2>2 DEF PathBy
<1>11. PathBy(h, a, w, c)
  BY <1>9, <1>10 DEF PathBy
<1> QED
  BY <1>7, <1>11 DEF Path

\* A legal record carries a path on.
LEMMA PathAppend ==
  ASSUME NEW a, NEW q, NEW b, NEW m, NEW c, IsSeq(q), Path(a, q, b), Legal(b, m, c)
  PROVE  Path(a, Append(q, m), c)
<1>1. Path(b, <<m>>, c) /\ IsSeq(<<m>>)
  BY PathOne, OneFacts
<1>2. Path(a, q \o <<m>>, c)
  BY <1>1, PathJoin
<1>3. Append(q, m) = q \o <<m>>
  BY AppendFacts
<1> QED
  BY <1>2, <1>3

\* What is left of a path after n records.
LEMMA PathRest ==
  ASSUME NEW f, NEW a, NEW q, NEW b, IsSeq(q), PathBy(f, a, q, b), NEW n \in 0 .. Len(q)
  PROVE  Path(f[n], SubSeq(q, n + 1, Len(q)), b)
<1>1. PICK w : w = SubSeq(q, n + 1, Len(q))
  OBVIOUS
<1>2. Len(q) \in Nat /\ Len(w) = Len(q) - n /\ \A i \in 1 .. Len(q) - n : w[i] = q[n + i]
  BY <1>1, PartFacts, SeqFacts
<1> DEFINE g == [i \in 0 .. Len(q) - n |-> f[n + i]]
<1>3. ASSUME NEW i \in 0 .. Len(q) - n PROVE g[i] = f[n + i]
  OBVIOUS
<1> HIDE DEF g
<1>4. g[0] = f[n] /\ g[Len(w)] = b
  <2>1. g[0] = f[n + 0] /\ g[Len(q) - n] = f[n + (Len(q) - n)]
    BY <1>2, <1>3
  <2>2. n + 0 = n /\ n + (Len(q) - n) = Len(q)
    BY <1>2
  <2> QED
    BY <1>2, <2>1, <2>2 DEF PathBy
<1>5. ASSUME NEW i \in 1 .. Len(w) PROVE Legal(g[i - 1], w[i], g[i])
  <2>1. i \in 0 .. Len(q) - n /\ i - 1 \in 0 .. Len(q) - n /\ n + i \in 1 .. Len(q) /\ n + (i - 1) = (n + i) - 1
    BY <1>2
  <2>2. g[i - 1] = f[n + (i - 1)] /\ g[i] = f[n + i] /\ w[i] = q[n + i]
    BY <1>2, <1>3, <2>1
  <2>3. g[i - 1] = f[(n + i) - 1]
    BY <2>1, <2>2
  <2>4. Legal(f[(n + i) - 1], q[n + i], f[n + i])
    BY <2>1 DEF PathBy
  <2> QED
    BY <2>2, <2>3, <2>4
<1>6. PathBy(g, f[n], w, b)
  BY <1>4, <1>5 DEF PathBy
<1> QED
  BY <1>1, <1>6 DEF Path

\* A record that joins the second of two queues joins both.
LEMMA AppendAfter ==
  ASSUME NEW p, NEW q, IsSeq(p), IsSeq(q), NEW m
  PROVE  IsSeq(p \o q) /\ p \o Append(q, m) = Append(p \o q, m) /\ IsSeq(Append(q, m))
<1>1. PICK E, F : p \in Seq(E) /\ q \in Seq(F)
  BY DEF IsSeq
<1>2. PICK G : G = E \union F \union {m}
  OBVIOUS
<1>3. p \in Seq(G) /\ q \in Seq(G) /\ m \in G
  BY <1>1, <1>2
<1>4. p \o q \in Seq(G) /\ Append(q, m) \in Seq(G)
  BY <1>3, ConcatProperties
<1>5. p \o Append(q, m) = Append(p \o q, m)
  BY <1>3
<1> QED
  BY <1>4, <1>5 DEF IsSeq

-----------------------------------------------------------------------------
(* The source's port, for surfaces mapped under the sessions cl (0 for     *)
(* those that are not mapped).                                             *)

IsPort(st) ==
  st = [pending |-> st.pending, resizing |-> st.resizing, streams |-> st.streams, nextStream |-> st.nextStream,
        batch |-> st.batch, outControl |-> st.outControl, outMedia |-> st.outMedia, encoders |-> st.encoders,
        call |-> st.call, error |-> st.error]

\* An event that the relay submits for the surface s in its session n.
EventOk(e, s, n) ==
  /\ n # 0 /\ e.surface = s /\ e.session = n /\ e.kind \in {"role", "metadata", "commit"}
  /\ e.kind = "commit" =>
       /\ e = Commit(e.surface, e.session, e.rev, e.mapped, e.layers, e.buffers, e.want)
       /\ IsMap(e.buffers) /\ DOMAIN e.buffers \subseteq e.layers /\ e.layers \subseteq Layers

PendingOk(q, s, n) ==
  IsSeq(q) /\ \A i \in 1 .. Len(q) : q[i] = [event |-> q[i].event, barrier |-> q[i].barrier] /\ EventOk(q[i].event, s, n)

\* A stream has a number of its own, below n.
StreamOk(r, n) ==
  /\ r = [stream |-> r.stream, gen |-> r.gen, next |-> r.next]
  /\ r.stream \in Nat /\ r.gen \in Nat /\ r.next \in Nat /\ r.stream < n
StreamsOk(m, n) ==
  /\ IsMap(m) /\ DOMAIN m \subseteq Surfaces \X Layers /\ n \in Nat
  /\ \A k \in DOMAIN m : StreamOk(m[k], n)
  /\ \A j, k \in DOMAIN m : m[j].stream = m[k].stream => j = k

GensOf(m, s) == {Generation(m[k]) : k \in {j \in DOMAIN m : j[1] = s}}
Current(st) == {Generation(st.streams[k]) : k \in DOMAIN st.streams}
Active(st) == IF st.batch = NoBatch THEN {} ELSE {Generation(st.batch.active)}

\* Each encoder context is that of a stream or of the job under way.
EncodersOk(st) == Active(st) \subseteq st.encoders /\ st.encoders \subseteq Active(st) \union Current(st)

\* A batch that is not cancelled is of a mapped surface, and for its streams.
Live(b, cl, m) ==
  /\ EventOk(b.event, b.surface, cl[b.surface]) /\ b.event.kind = "commit" /\ IsSeq(b.todo)
  /\ Generation(b.active) \in GensOf(m, b.surface)
  /\ \A i \in 1 .. Len(b.todo) : Generation(b.todo[i]) \in GensOf(m, b.surface)
BatchOk(b, cl, m) ==
  \/ b = NoBatch
  \/ /\ b = [surface |-> b.surface, session |-> b.session, event |-> b.event, active |-> b.active,
             todo |-> b.todo, done |-> b.done, cancelled |-> b.cancelled]
     /\ b.surface \in Surfaces /\ b.cancelled \in BOOLEAN /\ (~b.cancelled => Live(b, cl, m))

SourceOk(cl, st) ==
  /\ IsPort(st) /\ IsSeq(st.outControl) /\ st.pending = [s \in Surfaces |-> st.pending[s]]
  /\ \A s \in Surfaces : PendingOk(st.pending[s], s, cl[s])
  /\ StreamsOk(st.streams, st.nextStream) /\ BatchOk(st.batch, cl, st.streams) /\ EncodersOk(st)

\* The frame f has been allocated: no other will be the same.
Issued(st, f) ==
  /\ f.stream \in Nat /\ f.gen \in Nat /\ f.seq \in Nat /\ f.stream < st.nextStream
  /\ \A k \in DOMAIN st.streams :
       st.streams[k].stream = f.stream =>
         f.gen < st.streams[k].gen \/ (f.gen = st.streams[k].gen /\ f.seq < st.streams[k].next)

\* The frames of the batch that will be sent.
Coming(st) == IF st.batch # NoBatch /\ st.batch.cancelled = FALSE THEN FramesOf(st.batch.event) ELSE {}

\* What is on the lane c and waits in the port leads from the state a to the
\* sessions of the relay.
LineOk(a, c, cl, st) ==
  \E w : /\ Path(a, c \o st.outControl, State(cl, w))
         /\ \A f \in w \union Coming(st) : Issued(st, f)
         /\ Coming(st) \cap w = {}

\* What an operation does that sends nothing.
Keeps(st, x) ==
  /\ x.outControl = st.outControl /\ Coming(x) \subseteq Coming(st)
  /\ \A f : Issued(st, f) => Issued(x, f)

\* An operation that sends nothing keeps what is under way right.
LEMMA KeepsLine ==
  ASSUME NEW a, NEW c, NEW cl, NEW st, NEW x, LineOk(a, c, cl, st), Keeps(st, x)
  PROVE  LineOk(a, c, cl, x)
<1>1. PICK w : /\ Path(a, c \o st.outControl, State(cl, w))
               /\ \A f \in w \union Coming(st) : Issued(st, f)
               /\ Coming(st) \cap w = {}
  BY DEF LineOk
<1>2. x.outControl = st.outControl /\ Coming(x) \subseteq Coming(st) /\ \A f : Issued(st, f) => Issued(x, f)
  BY DEF Keeps
<1>3. \A f \in w \union Coming(x) : Issued(x, f)
  BY <1>1, <1>2
<1>4. Coming(x) \cap w = {}
  BY <1>1, <1>2
<1> QED
  BY <1>1, <1>2, <1>3, <1>4 DEF LineOk

\* A record without frames is sent.
LEMMA SendLine ==
  ASSUME NEW a, NEW c, IsSeq(c), NEW cl, NEW st, IsPort(st), IsSeq(st.outControl), LineOk(a, c, cl, st),
         NEW e, NEW dl, FramesOf(e) = {}, \A w : Legal(State(cl, w), e, State(dl, w))
  PROVE  LineOk(a, c, dl, Send(st, e)) /\ IsSeq(Send(st, e).outControl)
<1>1. PICK x : x = Send(st, e)
  OBVIOUS
<1>2. x = [st EXCEPT !.outControl = Append(@, e)]
  BY <1>1 DEF Send
<1>3. /\ x.outControl = Append(st.outControl, e) /\ x.streams = st.streams /\ x.nextStream = st.nextStream
      /\ x.batch = st.batch
  BY <1>2 DEF IsPort
<1>4. Coming(x) = Coming(st) /\ \A f : Issued(st, f) => Issued(x, f)
  BY <1>3 DEF Coming, Issued
<1>5. PICK w : /\ Path(a, c \o st.outControl, State(cl, w))
               /\ \A f \in w \union Coming(st) : Issued(st, f)
               /\ Coming(st) \cap w = {}
  BY DEF LineOk
<1>6. IsSeq(c \o st.outControl) /\ c \o Append(st.outControl, e) = Append(c \o st.outControl, e)
      /\ IsSeq(Append(st.outControl, e))
  BY AppendAfter
<1>7. Path(a, c \o x.outControl, State(dl, w))
  BY <1>3, <1>5, <1>6, PathAppend
<1>8. LineOk(a, c, dl, x)
  BY <1>4, <1>5, <1>7 DEF LineOk
<1> QED
  BY <1>1, <1>3, <1>6, <1>8

\* A context is not retired before the cancelled job that may create it ends.
LEMMA RetirableIs ==
  ASSUME NEW st, NEW G
  PROVE  /\ st.batch = NoBatch => Retirable(st, G) = G
         /\ st.batch.cancelled = FALSE => Retirable(st, G) = G
         /\ st.batch # NoBatch /\ st.batch.cancelled = TRUE => Retirable(st, G) = G \ {Generation(st.batch.active)}
<1>1. PICK b : b = st.batch
  OBVIOUS
<1>2. Retirable(st, G) = G \ {Generation(d.active) : d \in {x \in {b} : x # NoBatch /\ x.cancelled}}
  BY <1>1, Zenon DEF Retirable
<1>3. CASE b = NoBatch \/ b.cancelled = FALSE
  <2>1. {x \in {b} : x # NoBatch /\ x.cancelled} = {}
    BY <1>3
  <2>2. b = NoBatch => Retirable(st, G) = G
    BY <1>2, <2>1
  <2> QED
    BY <1>1, <1>2, <2>1
<1>4. CASE b # NoBatch /\ b.cancelled = TRUE
  <2>1. {x \in {b} : x # NoBatch /\ x.cancelled} = {b}
    BY <1>4
  <2>2. {Generation(d.active) : d \in {b}} = {Generation(b.active)}
    OBVIOUS
  <2> QED
    BY <1>1, <1>2, <1>4, <2>1, <2>2
<1> QED
  BY <1>1, <1>3, <1>4

\* What cancel_encode makes of each field.
CancelsTo(st, s, y, x) ==
  /\ IsPort(x) /\ x.outControl = st.outControl /\ x.nextStream = st.nextStream /\ x.error = st.error
  /\ x.call = st.call /\ x.outMedia = st.outMedia
  /\ x.pending = [st.pending EXCEPT ![s] = <<>>]
  /\ x.streams = Without(st.streams, StreamsOf(st, s))
  /\ x.batch = (IF st.batch.surface = s THEN Cancelled(st.batch) ELSE st.batch) /\ y.batch = x.batch
  /\ x.encoders = st.encoders \ Retirable(y, GensOf(st.streams, s))

\* What cancel_encode does to each field.
LEMMA CancelFields ==
  ASSUME NEW st, IsPort(st), NEW s, NEW x, x = CancelEncode(st, s)
  PROVE  \E y : CancelsTo(st, s, y, x)
<1> DEFINE gone == StreamsOf(st, s)
           y == [st EXCEPT !.pending[s] = Purged(@), !.resizing = @ \ {s},
                           !.batch = IF @.surface = s THEN Cancelled(@) ELSE @,
                           !.streams = Without(@, gone)]
<1>1. x = Retire(y, {Generation(st.streams[k]) : k \in gone})
  BY DEF CancelEncode
<1>2. {Generation(st.streams[k]) : k \in gone} = GensOf(st.streams, s)
  BY DEF StreamsOf, GensOf
<1> HIDE DEF gone
<1>3. /\ IsPort(y) /\ y.outControl = st.outControl /\ y.nextStream = st.nextStream /\ y.error = st.error
      /\ y.call = st.call /\ y.outMedia = st.outMedia /\ y.pending = [st.pending EXCEPT ![s] = <<>>]
      /\ y.streams = Without(st.streams, gone) /\ y.encoders = st.encoders
      /\ y.batch = IF st.batch.surface = s THEN Cancelled(st.batch) ELSE st.batch
  <2>1. PICK p, r, m, b : /\ p = [st.pending EXCEPT ![s] = <<>>] /\ r = st.resizing \ {s}
                          /\ m = Without(st.streams, gone)
                          /\ b = IF st.batch.surface = s THEN Cancelled(st.batch) ELSE st.batch
    OBVIOUS
  <2>2. y = [st EXCEPT !.pending = p, !.resizing = r, !.batch = b, !.streams = m]
    BY <2>1 DEF Purged
  <2> HIDE DEF y
  <2>3. y = [pending |-> p, resizing |-> r, streams |-> m, nextStream |-> st.nextStream, batch |-> b,
             outControl |-> st.outControl, outMedia |-> st.outMedia, encoders |-> st.encoders,
             call |-> st.call, error |-> st.error]
    BY <2>2 DEF IsPort
  <2> QED
    BY <2>1, <2>3 DEF IsPort
<1> HIDE DEF y
<1>4. x = [y EXCEPT !.encoders = @ \ Retirable(y, GensOf(st.streams, s))]
  BY <1>1, <1>2 DEF Retire
<1>5. /\ IsPort(x) /\ x.outControl = y.outControl /\ x.nextStream = y.nextStream /\ x.error = y.error
      /\ x.call = y.call /\ x.outMedia = y.outMedia /\ x.pending = y.pending /\ x.streams = y.streams
      /\ x.batch = y.batch /\ x.encoders = y.encoders \ Retirable(y, GensOf(st.streams, s))
  BY <1>3, <1>4 DEF IsPort
<1> QED
  BY <1>3, <1>5 DEF gone, CancelsTo

\* Streams that leave keep the others apart.
LEMMA StreamsLess ==
  ASSUME NEW m, NEW n, StreamsOk(m, n), NEW g
  PROVE  StreamsOk(Without(m, g), n)
<1> DEFINE w == Without(m, g)
<1>1. w = [k \in DOMAIN m \ g |-> m[k]]
  BY DEF Without
<1>2. DOMAIN w = DOMAIN m \ g /\ \A k \in DOMAIN w : w[k] = m[k]
  BY <1>1
<1> HIDE DEF w
<1>3. StreamsOk(w, n)
  BY <1>1, <1>2 DEF StreamsOk, IsMap
<1> QED
  BY <1>3 DEF w

\* Nothing of the surface s waits, and its batch will not be sent.
Free(x, s) == x.pending[s] = <<>> /\ (x.batch = NoBatch \/ x.batch.surface # s \/ x.batch.cancelled = TRUE)
Cancels(cl, st, s, x) == SourceOk(cl, x) /\ Keeps(st, x) /\ Free(x, s)

\* cancel_encode keeps the port right and leaves nothing of the surface.
LEMMA CancelOk ==
  ASSUME NEW cl, NEW st, SourceOk(cl, st), NEW s \in Surfaces, NEW x, x = CancelEncode(st, s)
  PROVE  Cancels(cl, st, s, x)
<1>1. /\ IsPort(st) /\ IsSeq(st.outControl) /\ st.pending = [t \in Surfaces |-> st.pending[t]]
      /\ \A t \in Surfaces : PendingOk(st.pending[t], t, cl[t])
      /\ StreamsOk(st.streams, st.nextStream) /\ BatchOk(st.batch, cl, st.streams) /\ EncodersOk(st)
  BY DEF SourceOk
<1>2. PICK y : /\ IsPort(x) /\ x.outControl = st.outControl /\ x.nextStream = st.nextStream /\ x.error = st.error
               /\ x.call = st.call /\ x.outMedia = st.outMedia
               /\ x.pending = [st.pending EXCEPT ![s] = <<>>]
               /\ x.streams = Without(st.streams, StreamsOf(st, s))
               /\ x.batch = (IF st.batch.surface = s THEN Cancelled(st.batch) ELSE st.batch) /\ y.batch = x.batch
               /\ x.encoders = st.encoders \ Retirable(y, GensOf(st.streams, s))
  <2>1. PICK y : CancelsTo(st, s, y, x)
    BY <1>1, CancelFields
  <2> QED
    BY <2>1 DEF CancelsTo
<1>3. PICK m, n, b, G : m = st.streams /\ n = x.streams /\ b = st.batch /\ G = GensOf(m, s)
  OBVIOUS
<1>4. StreamsOk(m, st.nextStream) /\ StreamsOf(st, s) = {k \in DOMAIN m : k[1] = s}
  BY <1>1, <1>3 DEF StreamsOf
<1>5. /\ StreamsOk(n, st.nextStream) /\ (\A k \in DOMAIN n : n[k] = m[k])
      /\ \A k : k \in DOMAIN n <=> k \in DOMAIN m /\ k[1] # s
  <2>1. PICK p, h : p = st.nextStream /\ h = {k \in DOMAIN m : k[1] = s}
    OBVIOUS
  <2>2. n = Without(m, h) /\ StreamsOk(m, p)
    BY <1>2, <1>3, <1>4, <2>1
  <2>3. StreamsOk(n, p)
    BY ONLY <2>2, StreamsLess
  <2>4. DOMAIN n = DOMAIN m \ h /\ \A k \in DOMAIN n : n[k] = m[k]
    BY <2>2 DEF Without
  <2> QED
    BY <2>1, <2>3, <2>4
<1>6. x.pending[s] = <<>> /\ \A t \in Surfaces : PendingOk(x.pending[t], t, cl[t])
  <2>1. x.pending[s] = <<>> /\ \A t \in Surfaces \ {s} : x.pending[t] = st.pending[t]
    BY <1>1, <1>2
  <2>2. Len(<<>>) = 0 /\ IsSeq(<<>>)
    BY EmptySeq DEF IsSeq
  <2>3. PendingOk(<<>>, s, cl[s])
    BY <2>2 DEF PendingOk
  <2> QED
    BY <1>1, <2>1, <2>3
<1>7. x.pending = [t \in Surfaces |-> x.pending[t]]
  BY <1>1, <1>2
<1>8. \A f : Issued(st, f) => Issued(x, f)
  BY <1>2, <1>3, <1>5 DEF Issued
<1>9. CASE b.surface = s
  <2>1. b # NoBatch
    BY <1>9, SourceAssumption DEF NoBatch
  <2>2. /\ b = [surface |-> b.surface, session |-> b.session, event |-> b.event, active |-> b.active,
                todo |-> b.todo, done |-> b.done, cancelled |-> b.cancelled]
        /\ b.surface \in Surfaces
    BY <1>1, <1>3, <2>1 DEF BatchOk
  <2>3. PICK d : d = Cancelled(b)
    OBVIOUS
  <2>4. d = [b EXCEPT !.cancelled = TRUE, !.todo = <<>>, !.done = <<>>]
    BY <2>3 DEF Cancelled
  <2>5. /\ d = [surface |-> d.surface, session |-> d.session, event |-> d.event, active |-> d.active,
                todo |-> d.todo, done |-> d.done, cancelled |-> d.cancelled]
        /\ d.surface = s /\ d.cancelled = TRUE /\ d.active = b.active
    BY <1>9, <2>2, <2>4
  <2>6. x.batch = d /\ y.batch = d
    BY <1>2, <1>3, <1>9, <2>3
  <2>7. d # NoBatch
    BY <2>5, SourceAssumption DEF NoBatch
  <2>8. BatchOk(x.batch, cl, n)
    BY <2>5, <2>6 DEF BatchOk
  <2>9. Coming(x) \subseteq Coming(st)
    BY <2>5, <2>6 DEF Coming
  <2>10. Retirable(y, G) = G \ {Generation(b.active)}
    <3>1. y.batch # NoBatch /\ y.batch.cancelled = TRUE /\ y.batch.active = b.active
      BY <2>5, <2>6, <2>7
    <3> QED
      BY <3>1, RetirableIs, Zenon
  <2>11. Active(x) = {Generation(b.active)} /\ Active(st) = {Generation(b.active)}
    BY <1>3, <2>1, <2>5, <2>6, <2>7 DEF Active
  <2>12. x.encoders = st.encoders \ (G \ {Generation(b.active)})
    BY <1>2, <1>3, <2>10
  <2>13. Current(st) \subseteq Current(x) \union G
    BY <1>3, <1>5 DEF Current, GensOf
  <2>14. EncodersOk(x)
    BY <1>1, <2>11, <2>12, <2>13 DEF EncodersOk
  <2>15. SourceOk(cl, x)
    BY <1>1, <1>2, <1>3, <1>5, <1>6, <1>7, <2>8, <2>14 DEF SourceOk
  <2> QED
    BY <1>2, <1>6, <1>8, <2>5, <2>6, <2>9, <2>15 DEF Keeps, Cancels, Free
<1>10. CASE b.surface # s
  <2>1. x.batch = b /\ y.batch = b
    BY <1>2, <1>3, <1>10
  <2>2. Coming(x) = Coming(st)
    BY <1>3, <2>1 DEF Coming
  <2>3. GensOf(n, b.surface) = GensOf(m, b.surface)
    BY <1>5, <1>10 DEF GensOf
  <2>4. BatchOk(x.batch, cl, n)
    BY <1>1, <1>3, <2>1, <2>3 DEF BatchOk, Live
  <2>5. Active(x) = Active(st)
    BY <1>3, <2>1 DEF Active
  <2>6. Current(st) \subseteq Current(x) \union G
    BY <1>3, <1>5 DEF Current, GensOf
  <2>7. x.encoders = st.encoders \ Retirable(y, G) /\ Retirable(y, G) \subseteq G
    BY <1>2, <1>3 DEF Retirable
  <2>8. Retirable(y, G) \cap Active(st) = {}
    <3>1. CASE b = NoBatch
      BY <1>3, <3>1 DEF Active
    <3>2. CASE b # NoBatch /\ b.cancelled = TRUE
      <4>1. Retirable(y, G) = G \ {Generation(b.active)}
        BY <2>1, <3>2, RetirableIs
      <4> QED
        BY <1>3, <3>2, <4>1 DEF Active
    <3>3. CASE b # NoBatch /\ b.cancelled = FALSE
      <4>1. Generation(b.active) \in GensOf(m, b.surface)
        BY <1>1, <1>3, <3>3 DEF BatchOk, Live
      <4>2. PICK k \in DOMAIN m : k[1] = b.surface /\ Generation(b.active) = Generation(m[k])
        BY <4>1 DEF GensOf
      <4>3. \A j \in DOMAIN m : j[1] = s => Generation(m[j]) # Generation(m[k])
        BY <1>4, <1>10, <4>2 DEF Generation, StreamsOk
      <4>4. Generation(b.active) \notin G
        BY <1>3, <4>2, <4>3 DEF GensOf
      <4> QED
        BY <1>3, <2>7, <3>3, <4>4 DEF Active
    <3>4. b = NoBatch \/ b.cancelled \in BOOLEAN
      BY <1>1, <1>3 DEF BatchOk
    <3> QED
      BY <3>1, <3>2, <3>3, <3>4
  <2>9. EncodersOk(x)
    <3>1. Active(x) \subseteq x.encoders
      BY <1>1, <2>5, <2>7, <2>8 DEF EncodersOk
    <3>2. G \cap x.encoders \subseteq Active(x)
      <4>1. CASE b # NoBatch /\ b.cancelled = TRUE
        <5>1. Retirable(y, G) = G \ {Generation(b.active)} /\ Active(x) = {Generation(b.active)}
          BY <2>1, <4>1, RetirableIs DEF Active
        <5> QED
          BY <2>7, <5>1
      <4>2. CASE b = NoBatch \/ b.cancelled = FALSE
        <5>1. Retirable(y, G) = G
          BY <2>1, <4>2, RetirableIs
        <5> QED
          BY <2>7, <5>1
      <4>3. b = NoBatch \/ b.cancelled \in BOOLEAN
        BY <1>1, <1>3 DEF BatchOk
      <4> QED
        BY <4>1, <4>2, <4>3
    <3>3. x.encoders \subseteq Active(x) \union Current(st)
      BY <1>1, <2>5, <2>7 DEF EncodersOk
    <3> QED
      BY <2>6, <3>1, <3>2, <3>3 DEF EncodersOk
  <2>10. SourceOk(cl, x)
    BY <1>1, <1>2, <1>3, <1>5, <1>6, <1>7, <2>4, <2>9 DEF SourceOk
  <2> QED
    BY <1>2, <1>6, <1>8, <1>10, <2>1, <2>2, <2>10 DEF Keeps, Cancels, Free
<1> QED
  BY <1>9, <1>10

\* A rank in a set of numbers is below the size of the set and tells its numbers apart.
LEMMA RankBound ==
  ASSUME NEW S, S \subseteq Nat, IsFiniteSet(S), NEW l \in S
  PROVE  Rank(S, l) \in Nat /\ Cardinality(S) \in Nat /\ Rank(S, l) + 1 <= Cardinality(S)
<1>1. PICK R : R = {i \in S : i < l}
  OBVIOUS
<1>2. IsFiniteSet(R) /\ Cardinality(R) \in Nat /\ Cardinality(S) \in Nat
  BY <1>1, FS_Subset, FS_CardinalityType
<1>3. l \notin R
  BY <1>1
<1>4. IsFiniteSet(R \union {l}) /\ Cardinality(R \union {l}) = Cardinality(R) + 1
  BY <1>2, <1>3, FS_AddElement
<1>5. R \union {l} \subseteq S
  BY <1>1
<1>6. Cardinality(R \union {l}) <= Cardinality(S)
  BY <1>5, FS_Subset
<1>7. Rank(S, l) = Cardinality(R)
  BY <1>1 DEF Rank
<1> QED
  BY <1>2, <1>4, <1>6, <1>7

\* Layers are numbered in their order.
LEMMA RankGrows ==
  ASSUME NEW S, S \subseteq Nat, IsFiniteSet(S), NEW j \in S, NEW l \in S, j < l
  PROVE  Rank(S, j) < Rank(S, l)
<1>1. PICK T : T = {i \in S : i < l}
  OBVIOUS
<1>2. T \subseteq S /\ j \in T /\ IsFiniteSet(T) /\ T \subseteq Nat
  BY <1>1, FS_Subset
<1>3. {i \in T : i < j} = {i \in S : i < j}
  <2>1. \A i \in S : i < j => i < l
    OBVIOUS
  <2> QED
    BY <1>1, <2>1
<1>4. Rank(T, j) = Rank(S, j)
  BY <1>3 DEF Rank
<1>5. Rank(T, j) \in Nat /\ Cardinality(T) \in Nat /\ Rank(T, j) + 1 <= Cardinality(T)
  BY <1>2, RankBound
<1>6. Rank(S, l) = Cardinality(T)
  BY <1>1 DEF Rank
<1> QED
  BY <1>4, <1>5, <1>6

\* Ranks are below the number of layers, and each layer has its own.
LEMMA Ranked ==
  ASSUME NEW S, S \subseteq Nat, IsFiniteSet(S)
  PROVE  /\ Cardinality(S) \in Nat /\ \A l \in S : Rank(S, l) \in Nat /\ Rank(S, l) < Cardinality(S)
         /\ \A j, l \in S : Rank(S, j) = Rank(S, l) => j = l
<1>1. Cardinality(S) \in Nat
  BY FS_CardinalityType
<1>2. \A l \in S : Rank(S, l) \in Nat /\ Rank(S, l) < Cardinality(S)
  <2>1. TAKE l \in S
  <2>2. Rank(S, l) \in Nat /\ Rank(S, l) + 1 <= Cardinality(S)
    BY RankBound
  <2> QED
    BY <1>1, <2>2
<1>3. ASSUME NEW j \in S, NEW l \in S, Rank(S, j) = Rank(S, l) PROVE j = l
  <2>1. j < l => Rank(S, j) < Rank(S, l)
    BY RankGrows
  <2>2. l < j => Rank(S, l) < Rank(S, j)
    BY RankGrows
  <2>3. j \in Nat /\ l \in Nat /\ Rank(S, j) \in Nat
    BY <1>2
  <2> QED
    BY <1>3, <2>1, <2>2, <2>3
<1> QED
  BY <1>1, <1>2, <1>3

\* What prepare_streams adds for the layers `new' of the surface s.
NewStream(n, new, l) == [stream |-> n + Rank(new, l), gen |-> 1, next |-> 0]
NewStreams(n, new, s) == [k \in {s} \X new |-> NewStream(n, new, k[2])]

\* The numbers of the streams in h are from n on and below n + c.
Numbered(h, n, c) ==
  /\ c \in Nat /\ DOMAIN h \subseteq Surfaces \X Layers
  /\ \A k \in DOMAIN h : StreamOk(h[k], n + c) /\ h[k].stream >= n
  /\ \A j, k \in DOMAIN h : h[j].stream = h[k].stream => j = k

\* The streams that prepare_streams adds have numbers of their own.
LEMMA NewStreamsOk ==
  ASSUME NEW n \in Nat, NEW new, new \subseteq Layers, NEW s \in Surfaces, NEW fresh, fresh = NewStreams(n, new, s),
         NEW c, c = Cardinality(new)
  PROVE  DOMAIN fresh = {s} \X new /\ Numbered(fresh, n, c)
<1>1. new \subseteq Nat /\ IsFiniteSet(new)
  BY LanesAssumption, FS_Subset
<1>3. /\ c \in Nat /\ \A l \in new : Rank(new, l) \in Nat /\ Rank(new, l) < c
      /\ \A j, l \in new : Rank(new, j) = Rank(new, l) => j = l
  BY <1>1, Ranked
<1>4. DOMAIN fresh = {s} \X new /\ \A k \in {s} \X new : fresh[k] = NewStream(n, new, k[2])
  BY DEF NewStreams
<1>5. \A l \in new : LET r == NewStream(n, new, l) IN StreamOk(r, n + c) /\ r.stream >= n /\ r.stream = n + Rank(new, l)
  <2>1. TAKE l \in new
  <2>2. PICK p : p = Rank(new, l)
    OBVIOUS
  <2>3. p \in Nat /\ p < c
    BY <1>3, <2>2
  <2>4. PICK r : r = NewStream(n, new, l)
    OBVIOUS
  <2>5. r = [stream |-> n + p, gen |-> 1, next |-> 0]
    BY <2>2, <2>4 DEF NewStream
  <2>6. StreamOk(r, n + c) /\ r.stream = n + p /\ r.stream >= n
    BY <1>3, <2>3, <2>5 DEF StreamOk
  <2> QED
    BY <2>2, <2>4, <2>6
<1>6. ASSUME NEW k \in DOMAIN fresh
      PROVE  /\ StreamOk(fresh[k], n + c) /\ fresh[k].stream >= n /\ fresh[k].stream = n + Rank(new, k[2])
             /\ k[2] \in new /\ k = <<s, k[2]>>
  <2>1. k[2] \in new /\ fresh[k] = NewStream(n, new, k[2]) /\ k = <<s, k[2]>>
    BY <1>4
  <2> QED
    BY <1>5, <2>1
<1>7. ASSUME NEW j \in DOMAIN fresh, NEW k \in DOMAIN fresh, fresh[j].stream = fresh[k].stream PROVE j = k
  <2>1. n + Rank(new, j[2]) = n + Rank(new, k[2]) /\ j[2] \in new /\ k[2] \in new /\ j = <<s, j[2]>> /\ k = <<s, k[2]>>
    BY <1>6, <1>7
  <2>2. Rank(new, j[2]) = Rank(new, k[2])
    BY <1>3, <2>1
  <2>3. j[2] = k[2]
    BY <1>3, <2>1, <2>2
  <2> QED
    BY <2>1, <2>3
<1>8. DOMAIN fresh \subseteq Surfaces \X Layers
  BY <1>4
<1> QED
  BY <1>3, <1>4, <1>6, <1>7, <1>8 DEF Numbered

\* The streams w are those of m, with numbers below n, and new ones.
Extended(w, m, n) ==
  /\ DOMAIN m \subseteq DOMAIN w /\ \A k \in DOMAIN m : w[k] = m[k]
  /\ \A k \in DOMAIN w : k \notin DOMAIN m => w[k].stream \in Nat /\ w[k].stream >= n

\* Streams that come with new numbers stay apart from the others.
LEMMA StreamsMore ==
  ASSUME NEW m, NEW n, StreamsOk(m, n), NEW h, NEW c, Numbered(h, n, c), NEW w, w = Over(m, h),
         DOMAIN m \cap DOMAIN h = {}
  PROVE  StreamsOk(w, n + c) /\ DOMAIN w = DOMAIN m \union DOMAIN h /\ Extended(w, m, n)
<1>0. /\ c \in Nat /\ DOMAIN h \subseteq Surfaces \X Layers
      /\ \A k \in DOMAIN h : StreamOk(h[k], n + c) /\ h[k].stream >= n
      /\ \A j, k \in DOMAIN h : h[j].stream = h[k].stream => j = k
  BY DEF Numbered
<1>1. w = [k \in DOMAIN m \union DOMAIN h |-> IF k \in DOMAIN m THEN m[k] ELSE h[k]]
  BY DEF Over
<1>2. /\ DOMAIN w = DOMAIN m \union DOMAIN h /\ IsMap(w)
      /\ (\A k \in DOMAIN m : w[k] = m[k]) /\ \A k \in DOMAIN h : k \notin DOMAIN m /\ w[k] = h[k]
  BY <1>1 DEF IsMap
<1>3. n \in Nat /\ n + c \in Nat /\ \A k \in DOMAIN m : StreamOk(m[k], n) /\ m[k].stream < n /\ m[k].stream \in Nat
  BY <1>0 DEF StreamsOk, StreamOk
<1>4. \A k \in DOMAIN h : h[k].stream \in Nat /\ h[k].stream >= n
  BY <1>0 DEF StreamOk
<1>5. \A k \in DOMAIN m : StreamOk(w[k], n + c)
  BY <1>0, <1>2, <1>3 DEF StreamOk
<1>6. \A k \in DOMAIN h : StreamOk(w[k], n + c)
  BY <1>0, <1>2
<1>7. ASSUME NEW j \in DOMAIN w, NEW k \in DOMAIN w, w[j].stream = w[k].stream PROVE j = k
  <2>1. CASE j \in DOMAIN m /\ k \in DOMAIN m
    BY <1>2, <1>7, <2>1 DEF StreamsOk
  <2>2. CASE j \in DOMAIN m /\ k \in DOMAIN h
    BY <1>2, <1>3, <1>4, <1>7, <2>2
  <2>3. CASE j \in DOMAIN h /\ k \in DOMAIN m
    BY <1>2, <1>3, <1>4, <1>7, <2>3
  <2>4. CASE j \in DOMAIN h /\ k \in DOMAIN h
    BY <1>0, <1>2, <1>7, <2>4
  <2> QED
    BY <1>2, <2>1, <2>2, <2>3, <2>4
<1>8. DOMAIN w \subseteq Surfaces \X Layers
  BY <1>0, <1>2 DEF StreamsOk
<1>9. StreamsOk(w, n + c)
  BY <1>2, <1>3, <1>5, <1>6, <1>7, <1>8 DEF StreamsOk
<1> QED
  BY <1>2, <1>4, <1>9 DEF Extended

\* prepare_streams, without a job under way: the layers to be encoded have a stream.
LEMMA PrepareOk ==
  ASSUME NEW cl, NEW st, SourceOk(cl, st), st.batch = NoBatch,
         NEW e, NEW s \in Surfaces, EventOk(e, s, cl[s]), e.kind = "commit", NEW x, x = PrepareStreams(st, e)
  PROVE  /\ SourceOk(cl, x) /\ Keeps(st, x) /\ x.batch = NoBatch /\ x.pending = st.pending
         /\ x.error = st.error /\ x.call = st.call
         /\ \A l \in DOMAIN e.buffers : <<s, l>> \in DOMAIN x.streams
<1>1. /\ IsPort(st) /\ IsSeq(st.outControl) /\ st.pending = [t \in Surfaces |-> st.pending[t]]
      /\ \A t \in Surfaces : PendingOk(st.pending[t], t, cl[t])
      /\ StreamsOk(st.streams, st.nextStream) /\ EncodersOk(st)
  BY DEF SourceOk
<1>2. e.surface = s /\ DOMAIN e.buffers \subseteq e.layers /\ e.layers \subseteq Layers
  BY DEF EventOk
<1>3. PICK m, n, gone, new : /\ m = st.streams /\ n = st.nextStream
                             /\ gone = {k \in StreamsOf(st, s) : k[2] \notin e.layers}
                             /\ new = {l \in DOMAIN e.buffers : <<s, l>> \notin DOMAIN m}
  OBVIOUS
<1>4. PICK fresh, w : fresh = NewStreams(n, new, s) /\ w = Without(m, gone)
  OBVIOUS
<1>5. PICK G : G = {Generation(m[k]) : k \in gone}
  OBVIOUS
<1>6. PICK y : y = Retire(st, G)
  OBVIOUS
<1>7. x = [y EXCEPT !.streams = Over(Without(@, gone), fresh), !.nextStream = @ + Cardinality(new)]
  BY <1>2, <1>3, <1>4, <1>5, <1>6 DEF PrepareStreams, NewStreams, NewStream
<1>8. y = [st EXCEPT !.encoders = @ \ G]
  BY <1>6, RetirableIs DEF Retire
<1>9. PICK v, c : v = Over(w, fresh) /\ c = Cardinality(new)
  OBVIOUS
<1>10. /\ IsPort(x) /\ x.outControl = st.outControl /\ x.pending = st.pending /\ x.batch = NoBatch
       /\ x.error = st.error /\ x.call = st.call
       /\ x.streams = v /\ x.nextStream = n + c /\ x.encoders = st.encoders \ G
  <2>1. /\ IsPort(y) /\ y.streams = m /\ y.nextStream = n /\ y.outControl = st.outControl /\ y.pending = st.pending
        /\ y.batch = NoBatch /\ y.error = st.error /\ y.call = st.call /\ y.encoders = st.encoders \ G
    BY <1>1, <1>3, <1>8 DEF IsPort
  <2>2. x = [y EXCEPT !.streams = v, !.nextStream = n + c]
    BY <1>4, <1>7, <1>9, <2>1
  <2> QED
    BY <2>1, <2>2 DEF IsPort
<1>11. /\ StreamsOk(w, n) /\ DOMAIN w = DOMAIN m \ gone /\ \A k \in DOMAIN w : w[k] = m[k]
  <2>1. StreamsOk(m, n)
    BY <1>1, <1>3
  <2>2. StreamsOk(w, n)
    BY ONLY <1>4, <2>1, StreamsLess
  <2> QED
    BY <1>4, <2>2 DEF Without
<1>12. n \in Nat /\ new \subseteq Layers
  BY <1>2, <1>3, <1>11 DEF StreamsOk
<1>13. DOMAIN fresh = {s} \X new /\ Numbered(fresh, n, c) /\ c \in Nat
  <2>1. DOMAIN fresh = {s} \X new /\ Numbered(fresh, n, c)
    BY <1>4, <1>9, <1>12, NewStreamsOk
  <2> QED
    BY <2>1 DEF Numbered
<1>14. DOMAIN w \cap DOMAIN fresh = {}
  <2>1. \A k \in DOMAIN fresh : \E l \in new : k = <<s, l>>
    BY <1>13
  <2>2. \A l \in new : <<s, l>> \notin DOMAIN m /\ <<s, l>> \in Surfaces \X Layers
    BY <1>3, <1>12
  <2> QED
    BY <1>11, <2>1, <2>2
<1>15. /\ StreamsOk(v, n + c) /\ DOMAIN v = DOMAIN w \union DOMAIN fresh
       /\ \A k \in DOMAIN w : v[k] = w[k]
       /\ \A k \in DOMAIN v : k \notin DOMAIN w => v[k].stream \in Nat /\ v[k].stream >= n
  <2>1. StreamsOk(v, n + c) /\ DOMAIN v = DOMAIN w \union DOMAIN fresh /\ Extended(v, w, n)
    BY <1>9, <1>11, <1>13, <1>14, StreamsMore
  <2> QED
    BY <2>1 DEF Extended
<1>16. \A f : Issued(st, f) => Issued(x, f)
  <2>1. ASSUME NEW f, Issued(st, f) PROVE Issued(x, f)
    <3>1. f.stream \in Nat /\ f.gen \in Nat /\ f.seq \in Nat /\ f.stream < n /\ f.stream < n + c
      BY <1>3, <1>12, <1>13, <2>1 DEF Issued
    <3>2. ASSUME NEW k \in DOMAIN v, v[k].stream = f.stream
          PROVE  f.gen < v[k].gen \/ (f.gen = v[k].gen /\ f.seq < v[k].next)
      <4>1. k \in DOMAIN w
        BY <1>12, <1>15, <3>1, <3>2
      <4>2. v[k] = m[k] /\ k \in DOMAIN m
        BY <1>11, <1>15, <4>1
      <4> QED
        BY <1>3, <2>1, <3>2, <4>2 DEF Issued
    <3> QED
      BY <1>10, <3>1, <3>2 DEF Issued
  <2> QED
    BY <2>1
<1>17. EncodersOk(x)
  <2>1. st.encoders \subseteq Current(st) /\ Active(x) = {}
    BY <1>1, <1>10 DEF EncodersOk, Active
  <2>2. Current(st) \subseteq Current(x) \union G
    <3>1. \A k \in DOMAIN m : k \in gone \/ (k \in DOMAIN v /\ v[k] = m[k])
      BY <1>11, <1>15
    <3> QED
      BY <1>3, <1>5, <1>10, <3>1 DEF Current
  <2> QED
    BY <1>10, <2>1, <2>2 DEF EncodersOk
<1>18. SourceOk(cl, x)
  BY <1>1, <1>10, <1>15, <1>17 DEF SourceOk, BatchOk
<1>19. Keeps(st, x)
  BY <1>10, <1>16 DEF Keeps, Coming
<1>20. ASSUME NEW l \in DOMAIN e.buffers PROVE <<s, l>> \in DOMAIN v
  <2>1. CASE <<s, l>> \in DOMAIN m
    <3>1. <<s, l>> \notin gone
      BY <1>2, <1>3
    <3> QED
      BY <1>11, <1>15, <2>1, <3>1
  <2>2. CASE <<s, l>> \notin DOMAIN m
    BY <1>3, <1>13, <1>15, <2>2
  <2> QED
    BY <2>1, <2>2
<1> QED
  BY <1>10, <1>18, <1>19, <1>20

IsOver(w, f, g) ==
  /\ IsMap(w) /\ DOMAIN w = DOMAIN f \union DOMAIN g
  /\ \A x \in DOMAIN f : w[x] = f[x]
  /\ \A x \in DOMAIN g : x \notin DOMAIN f => w[x] = g[x]

\* What Over is at each of its points.
LEMMA OverFacts ==
  ASSUME NEW f, NEW g, NEW w, w = Over(f, g)
  PROVE  IsOver(w, f, g)
<1>1. w = [x \in DOMAIN f \union DOMAIN g |-> IF x \in DOMAIN f THEN f[x] ELSE g[x]]
  BY DEF Over
<1>2. IsMap(w)
  BY <1>1 DEF IsMap
<1>3. DOMAIN w = DOMAIN f \union DOMAIN g /\ \A x \in DOMAIN w : w[x] = IF x \in DOMAIN f THEN f[x] ELSE g[x]
  BY <1>1
<1> QED
  BY <1>2, <1>3 DEF IsOver

\* What a stream becomes when it allocates a frame, r, or turns first.
Allocates(r, a, turn) ==
  /\ a = [stream |-> r.stream, gen |-> a.gen, next |-> a.next] /\ a.gen \in Nat /\ a.next \in Nat
  /\ ~turn => a.gen = r.gen /\ a.next = r.next
  /\ turn => a.gen = r.gen + 1

\* allocate_frame turns a stream or goes on with it.
LEMMA AllocationOf ==
  ASSUME NEW r, NEW n \in Nat, StreamOk(r, n), NEW turn \in BOOLEAN
  PROVE  Allocates(r, IF turn THEN Turned(r) ELSE r, turn)
<1>1. /\ r = [stream |-> r.stream, gen |-> r.gen, next |-> r.next]
      /\ r.stream \in Nat /\ r.gen \in Nat /\ r.next \in Nat
  BY DEF StreamOk
<1>2. Turned(r) = [stream |-> r.stream, gen |-> r.gen + 1, next |-> 0]
  <2>1. PICK a, b, c, g : a = r.stream /\ b = r.gen /\ c = r.next /\ g = r.gen + 1
    OBVIOUS
  <2>2. r = [stream |-> a, gen |-> b, next |-> c]
    BY <1>1, <2>1
  <2>3. PICK w : w = [r EXCEPT !.gen = g, !.next = 0]
    OBVIOUS
  <2>4. w = [stream |-> a, gen |-> g, next |-> 0]
    BY <2>2, <2>3
  <2> QED
    BY <2>1, <2>3, <2>4 DEF Turned
<1>3. Allocates(r, Turned(r), TRUE)
  BY <1>1, <1>2 DEF Allocates
<1>4. Allocates(r, r, FALSE)
  BY <1>1 DEF Allocates
<1>5. CASE turn = TRUE
  BY <1>3, <1>5
<1>6. CASE turn = FALSE
  BY <1>4, <1>6
<1> QED
  BY <1>5, <1>6

\* The streams after the frames of the layers B of the surface s are allocated.
Allocated(m, v, A, s, B, turned) ==
  /\ IsMap(v) /\ DOMAIN v = DOMAIN m
  /\ \A k \in DOMAIN m : k \notin {s} \X B => v[k] = m[k]
  /\ \A l \in B : /\ <<s, l>> \in DOMAIN m /\ Allocates(m[<<s, l>>], A[l], l \in turned)
                  /\ v[<<s, l>>] = [A[l] EXCEPT !.next = @ + 1]

\* The streams of a batch, after it has taken a number of each.
LEMMA AllocatedStreams ==
  ASSUME NEW m, NEW n, StreamsOk(m, n), NEW v, NEW A, NEW s, NEW B, NEW turned, Allocated(m, v, A, s, B, turned)
  PROVE  /\ StreamsOk(v, n)
         /\ \A k \in DOMAIN m : /\ v[k].stream = m[k].stream /\ v[k].gen \in Nat /\ v[k].next \in Nat
                                /\ \/ m[k].gen < v[k].gen
                                   \/ m[k].gen = v[k].gen /\ m[k].next <= v[k].next
         /\ \A k \in DOMAIN m : v[k].gen # m[k].gen => \E l \in B \cap turned : k = <<s, l>>
<1>1. /\ IsMap(v) /\ DOMAIN v = DOMAIN m
      /\ \A k \in DOMAIN m : k \notin {s} \X B => v[k] = m[k]
      /\ \A l \in B : /\ <<s, l>> \in DOMAIN m /\ Allocates(m[<<s, l>>], A[l], l \in turned)
                      /\ v[<<s, l>>] = [A[l] EXCEPT !.next = @ + 1]
  BY DEF Allocated
<1>2. n \in Nat /\ \A k \in DOMAIN m : StreamOk(m[k], n)
  BY DEF StreamsOk
<1>3. ASSUME NEW k \in DOMAIN m
      PROVE  /\ StreamOk(v[k], n) /\ v[k].stream = m[k].stream
             /\ m[k].gen < v[k].gen \/ (m[k].gen = v[k].gen /\ m[k].next <= v[k].next)
             /\ v[k].gen # m[k].gen => \E l \in B \cap turned : k = <<s, l>>
  <2>1. CASE k \notin {s} \X B
    BY <1>1, <1>2, <2>1 DEF StreamOk
  <2>2. ASSUME NEW l \in B, k = <<s, l>>
        PROVE  /\ StreamOk(v[k], n) /\ v[k].stream = m[k].stream
               /\ m[k].gen < v[k].gen \/ (m[k].gen = v[k].gen /\ m[k].next <= v[k].next)
               /\ v[k].gen # m[k].gen => l \in turned
    <3>1. PICK r, a, b : r = m[k] /\ a = A[l] /\ b = v[k]
      OBVIOUS
    <3>2. /\ a = [stream |-> r.stream, gen |-> a.gen, next |-> a.next] /\ a.gen \in Nat /\ a.next \in Nat
          /\ l \notin turned => a.gen = r.gen /\ a.next = r.next
          /\ l \in turned => a.gen = r.gen + 1
      BY <1>1, <2>2, <3>1 DEF Allocates
    <3>3. b = [a EXCEPT !.next = @ + 1]
      BY <1>1, <2>2, <3>1
    <3>4. b = [stream |-> r.stream, gen |-> a.gen, next |-> a.next + 1]
      BY <3>2, <3>3
    <3>5. r.stream \in Nat /\ r.gen \in Nat /\ r.next \in Nat /\ r.stream < n
      BY <1>2, <3>1 DEF StreamOk
    <3>6. StreamOk(b, n) /\ b.stream = r.stream
      BY <3>2, <3>4, <3>5 DEF StreamOk
    <3>7. r.gen < b.gen \/ (r.gen = b.gen /\ r.next <= b.next)
      BY <3>2, <3>4, <3>5
    <3>8. b.gen # r.gen => l \in turned
      BY <3>2, <3>4
    <3> QED
      BY <3>1, <3>6, <3>7, <3>8
  <2> QED
    BY <2>1, <2>2
<1>4. StreamsOk(v, n)
  <2>1. \A j, k \in DOMAIN v : v[j].stream = v[k].stream => j = k
    BY <1>1, <1>3 DEF StreamsOk
  <2>2. DOMAIN v \subseteq Surfaces \X Layers
    BY <1>1 DEF StreamsOk
  <2> QED
    BY <1>1, <1>2, <1>3, <2>1, <2>2 DEF StreamsOk
<1>5. \A k \in DOMAIN m : v[k].gen \in Nat /\ v[k].next \in Nat
  BY <1>3 DEF StreamOk
<1> QED
  BY <1>3, <1>4, <1>5

\* A frame that a stream allocates, for the surface s.
FrameFor(f, v, k) ==
  /\ f.stream = v[k].stream /\ f.gen = v[k].gen /\ f.seq \in Nat /\ v[k].next = f.seq + 1

\* The frames of a batch are those that its streams gave it.
LEMMA AllocatedFrames ==
  ASSUME NEW m, NEW n, StreamsOk(m, n), NEW v, NEW A, NEW s, NEW B, NEW turned, Allocated(m, v, A, s, B, turned),
         NEW l \in B, NEW x, NEW f, f = Frame(A[l].stream, A[l].gen, A[l].next, x)
  PROVE  FrameFor(f, v, <<s, l>>) /\ (m[<<s, l>>].gen < f.gen \/ (m[<<s, l>>].gen = f.gen /\ m[<<s, l>>].next = f.seq))
<1>1. PICK k : k = <<s, l>>
  OBVIOUS
<1>2. k \in DOMAIN m /\ Allocates(m[k], A[l], l \in turned) /\ v[k] = [A[l] EXCEPT !.next = @ + 1]
  BY <1>1 DEF Allocated
<1>3. PICK r, a, b : r = m[k] /\ a = A[l] /\ b = v[k]
  OBVIOUS
<1>4. /\ a = [stream |-> r.stream, gen |-> a.gen, next |-> a.next] /\ a.gen \in Nat /\ a.next \in Nat
      /\ l \notin turned => a.gen = r.gen /\ a.next = r.next
      /\ l \in turned => a.gen = r.gen + 1
  BY <1>2, <1>3 DEF Allocates
<1>5. b = [stream |-> r.stream, gen |-> a.gen, next |-> a.next + 1]
  BY <1>2, <1>3, <1>4
<1>6. f = [stream |-> a.stream, gen |-> a.gen, seq |-> a.next, content |-> x]
  BY <1>3 DEF Frame
<1>7. r.gen \in Nat
  BY <1>2, <1>3 DEF StreamsOk, StreamOk
<1>8. FrameFor(f, v, k)
  BY <1>3, <1>4, <1>5, <1>6 DEF FrameFor
<1> QED
  BY <1>1, <1>3, <1>4, <1>6, <1>7, <1>8

\* allocate_frame for each layer, and the first job: the batch is sent later.
LEMMA SubmitBatchOk ==
  ASSUME NEW cl, NEW st, SourceOk(cl, st), st.batch = NoBatch,
         NEW e, NEW s \in Surfaces, EventOk(e, s, cl[s]), e.kind = "commit", DOMAIN e.buffers # {},
         \A l \in DOMAIN e.buffers : <<s, l>> \in DOMAIN st.streams,
         NEW turned, turned \subseteq DOMAIN e.buffers, NEW x, x = SubmitBatch(st, e, turned)
  PROVE  /\ SourceOk(cl, x) /\ x.pending = st.pending /\ x.error = st.error /\ x.call = st.call /\ x.batch # NoBatch
         /\ \A a, c : LineOk(a, c, cl, st) => LineOk(a, c, cl, x)
<1>1. /\ IsPort(st) /\ IsSeq(st.outControl) /\ st.pending = [t \in Surfaces |-> st.pending[t]]
      /\ \A t \in Surfaces : PendingOk(st.pending[t], t, cl[t])
      /\ StreamsOk(st.streams, st.nextStream) /\ EncodersOk(st)
  BY DEF SourceOk
<1>2. /\ cl[s] # 0 /\ e.surface = s /\ e.session = cl[s] /\ IsMap(e.buffers)
      /\ DOMAIN e.buffers \subseteq e.layers /\ e.layers \subseteq Layers
      /\ e = Commit(e.surface, e.session, e.rev, e.mapped, e.layers, e.buffers, e.want)
  BY DEF EventOk
<1>3. PICK m, n, B, A, G : /\ m = st.streams /\ n = st.nextStream /\ B = DOMAIN e.buffers
                           /\ A = Allocation(st, e, turned)
                           /\ G = {Generation(m[<<s, l>>]) : l \in turned}
  OBVIOUS
<1>4. PICK F : F = [l \in B |-> Frame(A[l].stream, A[l].gen, A[l].next, e.buffers[l])]
  OBVIOUS
<1>5. PICK E : E = [e EXCEPT !.buffers = F]
  OBVIOUS
<1>6. PICK J, used, y, b : /\ J = Frames(E)
                           /\ used = [k \in {s} \X B |-> [A[k[2]] EXCEPT !.next = @ + 1]]
                           /\ y = Retire(st, G)
                           /\ b = [surface |-> s, session |-> e.session, event |-> E,
                                   active |-> Head(J), todo |-> Tail(J), done |-> <<>>, cancelled |-> FALSE]
  OBVIOUS
<1>7. x = [y EXCEPT !.streams = Over(used, @), !.encoders = @ \union {Generation(Head(J))}, !.batch = b]
  BY <1>2, <1>3, <1>4, <1>5, <1>6 DEF SubmitBatch
<1>8. y = [st EXCEPT !.encoders = @ \ G]
  BY <1>6, RetirableIs DEF Retire
<1>9. PICK v, g : v = Over(used, m) /\ g = Generation(Head(J))
  OBVIOUS
<1>10. /\ IsPort(x) /\ x.outControl = st.outControl /\ x.pending = st.pending /\ x.batch = b
       /\ x.error = st.error /\ x.call = st.call
       /\ x.streams = v /\ x.nextStream = n /\ x.encoders = (st.encoders \ G) \union {g}
  <2>1. /\ IsPort(y) /\ y.streams = m /\ y.nextStream = n /\ y.outControl = st.outControl /\ y.pending = st.pending
        /\ y.error = st.error /\ y.call = st.call /\ y.encoders = st.encoders \ G
    BY <1>1, <1>3, <1>8 DEF IsPort
  <2>2. x = [y EXCEPT !.streams = v, !.encoders = @ \union {g}, !.batch = b]
    BY <1>7, <1>9, <2>1
  <2> QED
    BY <2>1, <2>2 DEF IsPort
<1>11. StreamsOk(m, n) /\ \A l \in B : <<s, l>> \in DOMAIN m
  BY <1>1, <1>3
<1>12. Allocated(m, v, A, s, B, turned)
  <2>1. \A l \in B : A[l] = IF l \in turned THEN Turned(m[<<s, l>>]) ELSE m[<<s, l>>]
    BY <1>2, <1>3 DEF Allocation
  <2>2. \A l \in B : Allocates(m[<<s, l>>], A[l], l \in turned)
    <3>1. TAKE l \in B
    <3>2. PICK r, t : r = m[<<s, l>>] /\ t = (l \in turned)
      OBVIOUS
    <3>3. StreamOk(r, n) /\ n \in Nat /\ t \in BOOLEAN
      BY <1>11, <3>2 DEF StreamsOk
    <3>4. Allocates(r, IF t THEN Turned(r) ELSE r, t)
      BY <3>3, AllocationOf
    <3>5. A[l] = IF t THEN Turned(r) ELSE r
      BY <2>1, <3>2
    <3>6. Allocates(r, A[l], t)
      BY <3>4, <3>5
    <3> QED
      BY <3>2, <3>6
  <2>3. DOMAIN used = {s} \X B /\ \A l \in B : used[<<s, l>>] = [A[l] EXCEPT !.next = @ + 1]
    <3>1. \A l \in B : <<s, l>> \in {s} \X B /\ <<s, l>>[2] = l
      OBVIOUS
    <3> QED
      BY <1>6, <3>1
  <2>4. /\ IsMap(v) /\ DOMAIN v = DOMAIN used \union DOMAIN m /\ \A k \in DOMAIN used : v[k] = used[k]
        /\ \A k \in DOMAIN m : k \notin DOMAIN used => v[k] = m[k]
    <3>1. IsOver(v, used, m)
      BY <1>9, OverFacts
    <3> QED
      BY <3>1 DEF IsOver
  <2>5. DOMAIN v = DOMAIN m /\ \A l \in B : <<s, l>> \in DOMAIN used
    <3>1. \A l \in B : <<s, l>> \in DOMAIN used
      BY <2>3
    <3>2. \A k \in DOMAIN used : \E l \in B : k = <<s, l>>
      BY <2>3
    <3>3. DOMAIN used \subseteq DOMAIN m
      BY <1>11, <3>2
    <3> QED
      BY <2>4, <3>1, <3>3
  <2> QED
    BY <1>11, <2>2, <2>3, <2>4, <2>5 DEF Allocated
<1>13. /\ StreamsOk(v, n)
       /\ \A k \in DOMAIN m : /\ v[k].stream = m[k].stream /\ v[k].gen \in Nat /\ v[k].next \in Nat
                              /\ \/ m[k].gen < v[k].gen
                                 \/ m[k].gen = v[k].gen /\ m[k].next <= v[k].next
       /\ \A k \in DOMAIN m : v[k].gen # m[k].gen => \E l \in B \cap turned : k = <<s, l>>
  BY <1>11, <1>12, AllocatedStreams
<1>14. DOMAIN v = DOMAIN m
  BY <1>12 DEF Allocated
<1>15. /\ E = Commit(e.surface, e.session, e.rev, e.mapped, e.layers, F, e.want)
       /\ E.buffers = F /\ E.kind = "commit" /\ IsMap(F) /\ DOMAIN F = B
  BY <1>2, <1>4, <1>5 DEF Commit, IsMap
<1>16. EventOk(E, s, cl[s])
  <2>1. /\ E.surface = s /\ E.session = cl[s] /\ E.layers = e.layers
        /\ E = Commit(E.surface, E.session, E.rev, E.mapped, E.layers, E.buffers, E.want)
    BY <1>2, <1>15 DEF Commit
  <2> QED
    BY <1>2, <1>3, <1>15, <2>1 DEF EventOk
<1>17. /\ IsSeq(J) /\ (\A i \in 1 .. Len(J) : J[i] \in FramesOf(E)) /\ Len(J) > 0 /\ J # <<>>
  BY <1>2, <1>3, <1>6, <1>15, FramesListed
<1>18. ASSUME NEW f \in FramesOf(E)
       PROVE  \E k \in DOMAIN m : /\ k[1] = s /\ FrameFor(f, v, k)
                                  /\ m[k].gen < f.gen \/ (m[k].gen = f.gen /\ m[k].next = f.seq)
  <2>1. PICK l \in B : f = F[l]
    BY <1>15 DEF FramesOf
  <2>2. f = Frame(A[l].stream, A[l].gen, A[l].next, e.buffers[l])
    BY <1>4, <2>1
  <2>3. PICK k : k = <<s, l>>
    OBVIOUS
  <2>4. FrameFor(f, v, k) /\ (m[k].gen < f.gen \/ (m[k].gen = f.gen /\ m[k].next = f.seq))
    BY <1>11, <1>12, <2>2, <2>3, AllocatedFrames
  <2>5. k \in DOMAIN m /\ k[1] = s
    BY <1>11, <2>3
  <2> QED
    BY <2>4, <2>5
<1>19. \A f \in FramesOf(E) : Generation(f) \in GensOf(v, s)
  <2>1. TAKE f \in FramesOf(E)
  <2>2. PICK k \in DOMAIN m : k[1] = s /\ FrameFor(f, v, k)
    BY <1>18
  <2>3. Generation(f) = Generation(v[k])
    BY <2>2 DEF FrameFor, Generation
  <2> QED
    BY <1>14, <2>2, <2>3 DEF GensOf
<1>20. /\ Head(J) \in FramesOf(E) /\ IsSeq(Tail(J)) /\ \A i \in 1 .. Len(Tail(J)) : Tail(J)[i] \in FramesOf(E)
  <2>1. PICK H : J \in Seq(H)
    BY <1>17 DEF IsSeq
  <2>2. Head(J) = J[1] /\ Len(J) \in Nat /\ Tail(J) \in Seq(H) /\ Len(Tail(J)) = Len(J) - 1
        /\ \A i \in 1 .. Len(J) - 1 : Tail(J)[i] = J[i + 1]
    BY <1>17, <2>1, HeadTailProperties
  <2>3. 1 \in 1 .. Len(J) /\ \A i \in 1 .. Len(J) - 1 : i + 1 \in 1 .. Len(J)
    BY <1>17, <2>2
  <2> QED
    BY <1>17, <2>2, <2>3 DEF IsSeq
<1>21. /\ b.surface = s /\ b.event = E /\ b.active = Head(J) /\ b.todo = Tail(J) /\ b.cancelled = FALSE
       /\ b = [surface |-> b.surface, session |-> b.session, event |-> b.event, active |-> b.active,
               todo |-> b.todo, done |-> b.done, cancelled |-> b.cancelled]
       /\ b # NoBatch
  BY <1>6, SourceAssumption DEF NoBatch
<1>22. BatchOk(b, cl, v)
  BY <1>15, <1>16, <1>19, <1>20, <1>21 DEF BatchOk, Live
<1>23. EncodersOk(x)
  <2>1. Active(x) = {g}
    BY <1>9, <1>10, <1>21 DEF Active
  <2>2. st.encoders \subseteq Current(st)
    BY <1>1 DEF EncodersOk, Active
  <2>3. ASSUME NEW k \in DOMAIN m PROVE Generation(m[k]) \in G \/ Generation(m[k]) = Generation(v[k])
    <3>1. CASE v[k].gen = m[k].gen
      BY <1>13, <3>1 DEF Generation
    <3>2. CASE v[k].gen # m[k].gen
      BY <1>3, <1>13, <3>2
    <3> QED
      BY <3>1, <3>2
  <2>4. Current(st) \subseteq G \union Current(x)
    BY <1>3, <1>10, <1>14, <2>3 DEF Current
  <2> QED
    BY <1>10, <2>1, <2>2, <2>4 DEF EncodersOk
<1>24. SourceOk(cl, x)
  BY <1>1, <1>10, <1>13, <1>22, <1>23 DEF SourceOk
<1>25. ASSUME NEW f, Issued(st, f) PROVE Issued(x, f)
  <2>1. f.stream \in Nat /\ f.gen \in Nat /\ f.seq \in Nat /\ f.stream < n
    BY <1>3, <1>25 DEF Issued
  <2>2. ASSUME NEW k \in DOMAIN m, v[k].stream = f.stream
        PROVE  f.gen < v[k].gen \/ (f.gen = v[k].gen /\ f.seq < v[k].next)
    <3>1. PICK p, q : p = m[k] /\ q = v[k]
      OBVIOUS
    <3>2. f.gen < p.gen \/ (f.gen = p.gen /\ f.seq < p.next)
      BY <1>3, <1>13, <1>25, <2>2, <3>1 DEF Issued
    <3>3. q.gen \in Nat /\ q.next \in Nat /\ (p.gen < q.gen \/ (p.gen = q.gen /\ p.next <= q.next))
      BY <1>13, <3>1
    <3>4. p.gen \in Nat /\ p.next \in Nat
      BY <1>11, <3>1 DEF StreamsOk, StreamOk
    <3>5. f.gen < q.gen \/ (f.gen = q.gen /\ f.seq < q.next)
      BY <2>1, <3>2, <3>3, <3>4
    <3> QED
      BY <3>1, <3>5
  <2> QED
    BY <1>10, <1>14, <2>1, <2>2 DEF Issued
<1>26. ASSUME NEW f \in FramesOf(E) PROVE Issued(x, f) /\ ~Issued(st, f)
  <2>1. PICK k \in DOMAIN m : /\ FrameFor(f, v, k)
                              /\ m[k].gen < f.gen \/ (m[k].gen = f.gen /\ m[k].next = f.seq)
    BY <1>18
  <2>2. StreamOk(v[k], n) /\ StreamOk(m[k], n) /\ v[k].stream = m[k].stream
    BY <1>11, <1>13, <1>14 DEF StreamsOk
  <2>3. f.stream = v[k].stream /\ f.gen = v[k].gen /\ f.seq \in Nat /\ v[k].next = f.seq + 1
    BY <2>1 DEF FrameFor
  <2>4. f.stream \in Nat /\ f.gen \in Nat /\ f.stream < n
    BY <2>2, <2>3 DEF StreamOk
  <2>5. \A j \in DOMAIN v : v[j].stream = f.stream => f.gen = v[j].gen /\ f.seq < v[j].next
    BY <1>13, <1>14, <2>3 DEF StreamsOk
  <2>6. Issued(x, f)
    BY <1>10, <2>3, <2>4, <2>5 DEF Issued
  <2>7. ~(f.gen < m[k].gen \/ (f.gen = m[k].gen /\ f.seq < m[k].next))
    <3>1. m[k].gen \in Nat /\ m[k].next \in Nat
      BY <2>2 DEF StreamOk
    <3> QED
      BY <2>1, <2>3, <2>4, <3>1
  <2>8. ~Issued(st, f)
    BY <1>3, <2>2, <2>3, <2>7 DEF Issued
  <2> QED
    BY <2>6, <2>8
<1>27. Coming(x) = FramesOf(E)
  BY <1>10, <1>21 DEF Coming
<1>28. ASSUME NEW a, NEW c, LineOk(a, c, cl, st) PROVE LineOk(a, c, cl, x)
  <2>1. PICK w : /\ Path(a, c \o st.outControl, State(cl, w))
                 /\ \A f \in w \union Coming(st) : Issued(st, f)
                 /\ Coming(st) \cap w = {}
    BY <1>28 DEF LineOk
  <2>2. \A f \in w \union Coming(x) : Issued(x, f)
    BY <1>25, <1>26, <1>27, <2>1
  <2>3. Coming(x) \cap w = {}
    BY <1>26, <1>27, <2>1
  <2> QED
    BY <1>10, <2>1, <2>2, <2>3 DEF LineOk
<1> QED
  BY <1>10, <1>21, <1>24, <1>28

-----------------------------------------------------------------------------
(* What waits at the source (queue_event).                                 *)

\* A set of indices that is not empty has a greatest.
LEMMA MaxIndex ==
  ASSUME NEW n \in Nat, NEW I \in SUBSET (1 .. n), I # {}
  PROVE  Max(I) \in I
<1> DEFINE T == {x \in Nat : \E i \in I : x = n - i}
<1>1. T # {}
  <2>1. PICK i \in I : TRUE
    OBVIOUS
  <2>2. n - i \in Nat
    OBVIOUS
  <2> QED
    BY <2>2
<1>2. PICK x \in T : \A y \in T : x <= y
  <2>1. T \subseteq Nat
    OBVIOUS
  <2> HIDE DEF T
  <2> QED
    BY <1>1, <2>1, LeastOf
<1>3. PICK m \in I : x = n - m
  BY <1>2
<1>4. \A i \in I : m >= i
  BY <1>2, <1>3
<1> QED
  BY <1>4 DEF Max

\* The ordering plan points into the queue.
LEMMA PlanAt ==
  ASSUME NEW q, IsSeq(q), NEW e
  PROVE  Plan(q, e).at \in 0 .. Len(q)
<1>1. Len(q) \in Nat /\ DOMAIN q = 1 .. Len(q)
  BY SeqFacts
<1>2. CommitPlan(q, e).at \in 0 .. Len(q)
  <2> DEFINE I == {i \in 1 .. Len(q) : OwnCommit(q[i], e) \/ StopsCommit(q[i])}
             last == IF I # {} THEN Max(I) ELSE 0
             compatible == q[last].event.session = e.session /\ q[last].event.mapped = e.mapped
  <2>1. CommitPlan(q, e) = IF last = 0 \/ ~OwnCommit(q[last], e)
              THEN [at |-> 0, barrier |-> ~e.mapped]
              ELSE [at |-> IF compatible THEN last ELSE 0, barrier |-> ~compatible \/ q[last].barrier]
    BY <1>1 DEF CommitPlan, SelectLastInSeq
  <2>2. I \in SUBSET (1 .. Len(q))
    OBVIOUS
  <2> HIDE DEF I
  <2>3. I # {} => Max(I) \in 1 .. Len(q)
    <3>1. I # {} => Max(I) \in I
      BY <1>1, <2>2, MaxIndex
    <3> QED
      BY <2>2, <3>1
  <2>4. last \in 0 .. Len(q)
    BY <1>1, <2>3
  <2> HIDE DEF last, compatible
  <2> QED
    BY <1>1, <2>1, <2>4
<1>3. MetadataPlan(q, e).at \in 0 .. Len(q)
  <2> DEFINE own(r) == /\ r.event.kind = "metadata" /\ r.event.surface = e.surface
                       /\ r.event.session = e.session
             I == {i \in 1 .. Len(q) : own(q[i]) \/ StopsMetadata(q[i])}
             last == IF I # {} THEN Max(I) ELSE 0
  <2>1. MetadataPlan(q, e) = [at |-> IF last # 0 /\ own(q[last]) THEN last ELSE 0, barrier |-> FALSE]
    BY <1>1 DEF MetadataPlan, SelectLastInSeq
  <2>2. I \in SUBSET (1 .. Len(q))
    OBVIOUS
  <2> HIDE DEF I
  <2>3. I # {} => Max(I) \in 1 .. Len(q)
    <3>1. I # {} => Max(I) \in I
      BY <1>1, <2>2, MaxIndex
    <3> QED
      BY <2>2, <3>1
  <2>4. last \in 0 .. Len(q)
    BY <1>1, <2>3
  <2> HIDE DEF last, own
  <2> QED
    BY <1>1, <2>1, <2>4
<1> QED
  BY <1>1, <1>2, <1>3 DEF Plan

\* A commit that takes over what another left is still right to queue.
LEMMA CarryOk ==
  ASSUME NEW e, NEW s, NEW n, EventOk(e, s, n), e.kind = "commit", NEW old
  PROVE  EventOk(Carry(e, old), s, n)
<1>1. PICK F : F = [l \in DOMAIN e.buffers \union (e.layers \cap DOMAIN old.buffers) |->
                      IF l \in DOMAIN e.buffers THEN e.buffers[l] ELSE old.buffers[l]]
  OBVIOUS
<1>2. PICK c : c = [e EXCEPT !.buffers = F]
  OBVIOUS
<1>3. Carry(e, old) = c
  BY <1>1, <1>2 DEF Carry
<1>4. /\ n # 0 /\ e.surface = s /\ e.session = n /\ DOMAIN e.buffers \subseteq e.layers /\ e.layers \subseteq Layers
      /\ e = Commit(e.surface, e.session, e.rev, e.mapped, e.layers, e.buffers, e.want)
  BY DEF EventOk
<1>5. c = Commit(e.surface, e.session, e.rev, e.mapped, e.layers, F, e.want)
  BY <1>2, <1>4 DEF Commit
<1>6. IsMap(F) /\ DOMAIN F \subseteq e.layers
  BY <1>1, <1>4 DEF IsMap
<1>7. /\ c.kind = "commit" /\ c.surface = s /\ c.session = n /\ c.buffers = F /\ c.layers = e.layers
      /\ c = Commit(c.surface, c.session, c.rev, c.mapped, c.layers, c.buffers, c.want)
  BY <1>4, <1>5 DEF Commit
<1> QED
  BY <1>3, <1>4, <1>6, <1>7 DEF EventOk

\* The sequence p has elements of q.
Within(p, q) == IsSeq(p) /\ \A j \in 1 .. Len(p) : \E k \in 1 .. Len(q) : p[j] = q[k]

\* Every element that RemoveAt leaves was there.
LEMMA RemoveAtParts ==
  ASSUME NEW q, IsSeq(q), NEW i \in 1 .. Len(q)
  PROVE  Within(RemoveAt(q, i), q)
<1>1. Len(q) \in Nat
  BY SeqFacts
<1>2. PICK f, b : f = SubSeq(q, 1, i - 1) /\ b = SubSeq(q, i + 1, Len(q))
  OBVIOUS
<1>3. IsSeq(f) /\ Len(f) = i - 1 /\ \A j \in 1 .. i - 1 : f[j] = q[j]
  <2>1. i - 1 \in 0 .. Len(q)
    BY <1>1
  <2> QED
    BY <1>2, <2>1, PartFacts
<1>4. IsSeq(b) /\ Len(b) = Len(q) - i /\ \A j \in 1 .. Len(q) - i : b[j] = q[i + j]
  <2>1. i \in 0 .. Len(q)
    BY <1>1
  <2> QED
    BY <1>2, <2>1, PartFacts
<1>5. PICK w : w = f \o b
  OBVIOUS
<1>6. /\ IsSeq(w) /\ Len(w) = Len(f) + Len(b) /\ (\A j \in 1 .. Len(f) : w[j] = f[j])
      /\ \A j \in 1 .. Len(b) : w[Len(f) + j] = b[j]
  <2>1. Joined(w, f, b)
    BY <1>3, <1>4, <1>5, ConcatJoined
  <2> QED
    BY <2>1 DEF Joined
<1>7. ASSUME NEW j \in 1 .. Len(w) PROVE \E k \in 1 .. Len(q) : w[j] = q[k]
  <2>1. CASE j <= i - 1
    BY <1>1, <1>3, <1>4, <1>6, <2>1
  <2>2. CASE j > i - 1
    <3>1. PICK l \in 1 .. Len(b) : j = Len(f) + l
      <4>1. j - Len(f) \in 1 .. Len(b)
        BY <1>1, <1>3, <1>4, <1>6, <2>2
      <4> QED
        BY <1>1, <1>3, <1>6, <4>1
    <3>2. w[j] = q[i + l] /\ i + l \in 1 .. Len(q)
      BY <1>1, <1>4, <1>6, <3>1
    <3> QED
      BY <3>2
  <2> QED
    BY <1>1, <1>3, <1>4, <1>6, <2>1, <2>2
<1>8. RemoveAt(q, i) = w
  BY <1>2, <1>5 DEF RemoveAt
<1> QED
  BY <1>6, <1>7, <1>8 DEF Within

\* An element of a pending queue.
EntryOk(r, s, n) == r = [event |-> r.event, barrier |-> r.barrier] /\ EventOk(r.event, s, n)

\* What a pending queue holds.
LEMMA PendingEntries ==
  ASSUME NEW q, NEW s, NEW n
  PROVE  PendingOk(q, s, n) <=> IsSeq(q) /\ \A i \in 1 .. Len(q) : EntryOk(q[i], s, n)
BY DEF PendingOk, EntryOk

\* push, at the end of the queue.
LEMMA AppendPending ==
  ASSUME NEW q, NEW s, NEW n, PendingOk(q, s, n), NEW e, EventOk(e, s, n), NEW b
  PROVE  PendingOk(Append(q, [event |-> e, barrier |-> b]), s, n)
<1>1. PICK r : r = [event |-> e, barrier |-> b]
  OBVIOUS
<1>2. EntryOk(r, s, n)
  BY <1>1 DEF EntryOk
<1>3. IsSeq(q) /\ \A i \in 1 .. Len(q) : EntryOk(q[i], s, n)
  BY PendingEntries
<1>4. PICK w : w = Append(q, r)
  OBVIOUS
<1>5. IsSeq(w) /\ Len(w) = Len(q) + 1 /\ w[Len(q) + 1] = r /\ \A i \in 1 .. Len(q) : w[i] = q[i]
  BY <1>3, <1>4, AppendFacts, ZenonT(60)
<1>6. Len(q) \in Nat
  BY <1>3, SeqFacts
<1>7. \A i \in 1 .. Len(w) : EntryOk(w[i], s, n)
  <2>1. TAKE i \in 1 .. Len(w)
  <2>2. CASE i = Len(q) + 1
    BY <1>2, <1>5, <2>2
  <2>3. CASE i \in 1 .. Len(q)
    BY <1>3, <1>5, <2>3
  <2> QED
    BY <1>5, <1>6, <2>2, <2>3
<1>8. PendingOk(w, s, n)
  BY <1>5, <1>7, PendingEntries
<1> QED
  BY <1>1, <1>4, <1>8

\* push, with the plan's coalescing.
LEMMA InsertPending ==
  ASSUME NEW q, NEW s, NEW n, PendingOk(q, s, n), NEW e, EventOk(e, s, n)
  PROVE  PendingOk(Insert(q, e), s, n)
<1>1. IsSeq(q) /\ \A i \in 1 .. Len(q) : EntryOk(q[i], s, n)
  BY PendingEntries
<1>2. Len(q) \in Nat
  BY <1>1, SeqFacts
<1>3. PICK i, b, m : /\ i = Plan(q, e).at /\ b = Plan(q, e).barrier
                     /\ m = IF i # 0 /\ e.kind = "commit" THEN Carry(e, q[i].event) ELSE e
  OBVIOUS
<1>4. Insert(q, e) = IF i = 0 THEN Append(q, [event |-> e, barrier |-> b])
                     ELSE IF q[i].barrier THEN [q EXCEPT ![i].event = m]
                     ELSE Append(RemoveAt(q, i), [event |-> m, barrier |-> b])
  BY <1>3 DEF Insert
<1>5. i \in 0 .. Len(q)
  BY <1>1, <1>3, PlanAt
<1>6. EventOk(m, s, n)
  BY <1>3, CarryOk
<1>7. CASE i = 0
  BY <1>4, <1>7, AppendPending
<1>8. CASE i # 0 /\ ~q[i].barrier
  <2>1. i \in 1 .. Len(q)
    BY <1>2, <1>5, <1>8
  <2>2. PICK w : w = RemoveAt(q, i)
    OBVIOUS
  <2>3. IsSeq(w) /\ \A j \in 1 .. Len(w) : \E k \in 1 .. Len(q) : w[j] = q[k]
    <3>1. Within(w, q)
      BY <1>1, <2>1, <2>2, RemoveAtParts
    <3> QED
      BY <3>1 DEF Within
  <2>4. PendingOk(w, s, n)
    <3>1. \A j \in 1 .. Len(w) : EntryOk(w[j], s, n)
      BY <1>1, <2>3
    <3> QED
      BY <2>3, <3>1, PendingEntries
  <2>5. PendingOk(Append(w, [event |-> m, barrier |-> b]), s, n)
    BY <1>6, <2>4, AppendPending
  <2> QED
    BY <1>4, <1>8, <2>2, <2>5
<1>9. CASE i # 0 /\ q[i].barrier
  <2>1. i \in 1 .. Len(q)
    BY <1>2, <1>5, <1>9
  <2>2. PICK w : w = [q EXCEPT ![i].event = m]
    OBVIOUS
  <2>3. PICK Q : q \in Seq(Q)
    BY <1>1 DEF IsSeq
  <2>4. PICK r : r = [q[i] EXCEPT !.event = m]
    OBVIOUS
  <2>5. w = [q EXCEPT ![i] = r]
    BY <2>2, <2>4
  <2>6. q[i] = [event |-> q[i].event, barrier |-> q[i].barrier]
    BY <1>1, <2>1 DEF EntryOk
  <2>7. r = [event |-> m, barrier |-> q[i].barrier]
    BY <2>4, <2>6
  <2>8. EntryOk(r, s, n)
    BY <1>6, <2>7 DEF EntryOk
  <2>9. w \in Seq(Q \union {r}) /\ Len(w) = Len(q) /\ \A j \in 1 .. Len(q) : w[j] = IF j = i THEN r ELSE q[j]
    BY <2>1, <2>3, <2>5
  <2>10. \A j \in 1 .. Len(w) : EntryOk(w[j], s, n)
    BY <1>1, <2>8, <2>9
  <2>11. PendingOk(w, s, n)
    BY <2>9, <2>10, PendingEntries DEF IsSeq
  <2> QED
    BY <1>4, <1>9, <2>2, <2>11
<1> QED
  BY <1>7, <1>8, <1>9

-----------------------------------------------------------------------------
(* The operations of the port that the relay's calls are made of.          *)

\* From the port st for the sessions cl to the port x for the sessions dl,
\* with what is between the lane and the destination still legal.
Onward(cl, st, dl, x) ==
  SourceOk(dl, x) /\ \A a, c : IsSeq(c) /\ LineOk(a, c, cl, st) => LineOk(a, c, dl, x)

\* An operation that sends nothing goes onward.
LEMMA OnwardKeeps ==
  ASSUME NEW cl, NEW st, NEW x, SourceOk(cl, x), Keeps(st, x)
  PROVE  Onward(cl, st, cl, x)
BY KeepsLine DEF Onward

\* Two operations, one after the other.
LEMMA OnwardJoin ==
  ASSUME NEW cl, NEW st, NEW dl, NEW y, NEW el, NEW x, Onward(cl, st, dl, y), Onward(dl, y, el, x)
  PROVE  Onward(cl, st, el, x)
BY DEF Onward

Sent(st, e, x) ==
  /\ IsPort(x) /\ x.outControl = Append(st.outControl, e) /\ x.pending = st.pending /\ x.batch = st.batch
  /\ x.streams = st.streams /\ x.nextStream = st.nextStream /\ x.encoders = st.encoders
  /\ x.error = st.error /\ x.call = st.call

\* What Send does to each field.
LEMMA SendFields ==
  ASSUME NEW st, IsPort(st), NEW e, NEW x, x = Send(st, e)
  PROVE  Sent(st, e, x)
<1>1. x = [st EXCEPT !.outControl = Append(@, e)]
  BY DEF Send
<1> QED
  BY <1>1 DEF IsPort, Sent

\* Send keeps all but what it sends.
LEMMA SendKeeps ==
  ASSUME NEW cl, NEW st, SourceOk(cl, st), NEW e, NEW x, x = Send(st, e)
  PROVE  SourceOk(cl, x) /\ Sent(st, e, x)
<1>1. /\ IsPort(st) /\ IsSeq(st.outControl) /\ st.pending = [t \in Surfaces |-> st.pending[t]]
      /\ \A t \in Surfaces : PendingOk(st.pending[t], t, cl[t])
      /\ StreamsOk(st.streams, st.nextStream) /\ BatchOk(st.batch, cl, st.streams) /\ EncodersOk(st)
  BY DEF SourceOk
<1>2. Sent(st, e, x)
  BY <1>1, SendFields
<1>3. /\ IsPort(x) /\ x.outControl = Append(st.outControl, e) /\ x.pending = st.pending /\ x.batch = st.batch
      /\ x.streams = st.streams /\ x.nextStream = st.nextStream /\ x.encoders = st.encoders
  BY <1>2 DEF Sent
<1>4. IsSeq(x.outControl)
  <2>1. IsSeq(Append(st.outControl, e))
    BY <1>1, AppendFacts
  <2> QED
    BY <1>3, <2>1
<1>5. EncodersOk(x)
  BY <1>1, <1>3 DEF EncodersOk, Active, Current
<1>6. SourceOk(cl, x)
  BY <1>1, <1>3, <1>4, <1>5 DEF SourceOk
<1> QED
  BY <1>2, <1>6

\* An event of a surface in its session, without frames, can be sent.
LEMMA SteadyLegal ==
  ASSUME NEW cl, NEW s \in Surfaces, NEW e, EventOk(e, s, cl[s]), FramesOf(e) = {}, NEW w
  PROVE  Legal(State(cl, w), e, State(cl, w))
<1>1. /\ e.surface = s /\ e.session = cl[s] /\ e.session # 0 /\ e.kind \in {"role", "metadata", "commit"}
      /\ e.kind = "commit" => DOMAIN e.buffers \subseteq Layers
  BY DEF EventOk
<1>2. PICK a : a = State(cl, w)
  OBVIOUS
<1>3. a.session = cl /\ a.used = w
  BY <1>2 DEF State
<1>4. /\ e.kind \notin {"map", "withdraw", "destroyed"}
      /\ e.kind \in {"map", "withdraw", "destroyed", "role", "metadata", "commit"}
  BY <1>1
<1>5. a.session = CASE e.kind = "map" -> [a.session EXCEPT ![e.surface] = e.session]
                    [] e.kind \in {"withdraw", "destroyed"} -> [a.session EXCEPT ![e.surface] = 0]
                    [] OTHER -> a.session
  BY <1>4
<1>6. Legal(a, e, a)
  BY <1>1, <1>3, <1>4, <1>5 DEF Legal
<1> QED
  BY <1>2, <1>6

\* Only commits bring frames.
LEMMA ControlFrames ==
  ASSUME NEW e, e.kind # "commit" \/ DOMAIN e.buffers = {}
  PROVE  FramesOf(e) = {}
BY DEF FramesOf

\* A record that the sessions allow is sent.
LEMMA SendOk ==
  ASSUME NEW cl, NEW st, SourceOk(cl, st), NEW s \in Surfaces, NEW e, EventOk(e, s, cl[s]), FramesOf(e) = {},
         NEW x, x = Send(st, e)
  PROVE  Onward(cl, st, cl, x) /\ Sent(st, e, x)
<1>1. SourceOk(cl, x) /\ Sent(st, e, x)
  BY SendKeeps
<1>2. IsPort(st) /\ IsSeq(st.outControl)
  BY DEF SourceOk
<1>3. \A w : Legal(State(cl, w), e, State(cl, w))
  BY SteadyLegal
<1>4. ASSUME NEW a, NEW c, IsSeq(c), LineOk(a, c, cl, st) PROVE LineOk(a, c, cl, x)
  BY <1>2, <1>3, <1>4, SendLine
<1> QED
  BY <1>1, <1>4 DEF Onward

\* The sessions of all surfaces but s are the same.
Others(cl, dl, s) == \A t \in Surfaces : t # s => dl[t] = cl[t]

\* The surface s gets another session while nothing of it waits.
LEMMA Recast ==
  ASSUME NEW cl, NEW dl, NEW st, SourceOk(cl, st), NEW s \in Surfaces, Others(cl, dl, s), Free(st, s)
  PROVE  SourceOk(dl, st)
<1>1. /\ IsPort(st) /\ IsSeq(st.outControl) /\ st.pending = [t \in Surfaces |-> st.pending[t]]
      /\ \A t \in Surfaces : PendingOk(st.pending[t], t, cl[t])
      /\ StreamsOk(st.streams, st.nextStream) /\ BatchOk(st.batch, cl, st.streams) /\ EncodersOk(st)
  BY DEF SourceOk
<1>2. \A t \in Surfaces : PendingOk(st.pending[t], t, dl[t])
  <2>1. PendingOk(<<>>, s, dl[s])
    <3>1. Len(<<>>) = 0 /\ IsSeq(<<>>)
      BY EmptySeq DEF IsSeq
    <3> QED
      BY <3>1 DEF PendingOk
  <2> QED
    BY <1>1, <2>1 DEF Free, Others
<1>3. BatchOk(st.batch, dl, st.streams)
  <2>1. PICK b : b = st.batch
    OBVIOUS
  <2>2. CASE b = NoBatch
    BY <2>1, <2>2 DEF BatchOk
  <2>3. CASE b # NoBatch /\ b.cancelled = TRUE
    BY <1>1, <2>1, <2>3 DEF BatchOk
  <2>4. CASE b # NoBatch /\ b.surface # s
    <3>1. b.surface \in Surfaces /\ dl[b.surface] = cl[b.surface]
      BY <1>1, <2>1, <2>4 DEF BatchOk, Others
    <3> QED
      BY <1>1, <2>1, <2>4, <3>1 DEF BatchOk, Live
  <2> QED
    BY <2>1, <2>2, <2>3, <2>4 DEF Free
<1> QED
  BY <1>1, <1>2, <1>3 DEF SourceOk

\* submit or send, when no job is under way
LEMMA SubmitOrSendOk ==
  ASSUME NEW cl, NEW st, SourceOk(cl, st), st.batch = NoBatch, NEW s \in Surfaces, NEW e, EventOk(e, s, cl[s]),
         NEW turned, e.kind = "commit" => turned \subseteq DOMAIN e.buffers, NEW x, x = SubmitOrSend(st, e, turned)
  PROVE  Onward(cl, st, cl, x) /\ x.pending = st.pending /\ x.error = st.error /\ x.call = st.call
<1>1. CASE e.kind # "commit"
  <2>1. x = Send(st, e) /\ FramesOf(e) = {}
    BY <1>1 DEF SubmitOrSend, FramesOf
  <2> QED
    BY <2>1, SendOk DEF Sent
<1>2. CASE e.kind = "commit"
  <2>1. PICK y : y = PrepareStreams(st, e)
    OBVIOUS
  <2>2. /\ SourceOk(cl, y) /\ Keeps(st, y) /\ y.batch = NoBatch /\ y.pending = st.pending
        /\ y.error = st.error /\ y.call = st.call
        /\ \A l \in DOMAIN e.buffers : <<s, l>> \in DOMAIN y.streams
    BY <1>2, <2>1, PrepareOk
  <2>3. Onward(cl, st, cl, y)
    BY <2>2, OnwardKeeps
  <2>4. CASE DOMAIN e.buffers = {}
    <3>1. x = Send(y, e) /\ FramesOf(e) = {}
      BY <1>2, <2>1, <2>4 DEF SubmitOrSend, FramesOf
    <3>2. Onward(cl, y, cl, x) /\ Sent(y, e, x)
      BY <2>2, <3>1, SendOk
    <3>3. Onward(cl, st, cl, x)
      BY <2>3, <3>2, OnwardJoin
    <3> QED
      BY <2>2, <3>2, <3>3 DEF Sent
  <2>5. CASE DOMAIN e.buffers # {}
    <3>1. x = SubmitBatch(y, e, turned)
      BY <1>2, <2>1, <2>5 DEF SubmitOrSend
    <3>2. /\ SourceOk(cl, x) /\ x.pending = y.pending /\ x.error = y.error /\ x.call = y.call
          /\ \A a, c : LineOk(a, c, cl, y) => LineOk(a, c, cl, x)
      BY <1>2, <2>2, <2>5, <3>1, SubmitBatchOk
    <3>3. Onward(cl, y, cl, x)
      BY <3>2 DEF Onward
    <3>4. Onward(cl, st, cl, x)
      BY <2>3, <3>3, OnwardJoin
    <3> QED
      BY <2>2, <3>2, <3>4
  <2> QED
    BY <2>4, <2>5
<1> QED
  BY <1>1, <1>2

\* What waits for the surface s becomes q.
LEMMA PendingBecomes ==
  ASSUME NEW cl, NEW st, SourceOk(cl, st), NEW s \in Surfaces, NEW q, PendingOk(q, s, cl[s]),
         NEW x, x = [st EXCEPT !.pending[s] = q]
  PROVE  /\ Onward(cl, st, cl, x) /\ x.batch = st.batch /\ x.error = st.error /\ x.call = st.call
         /\ x.outControl = st.outControl
<1>1. /\ IsPort(st) /\ IsSeq(st.outControl) /\ st.pending = [t \in Surfaces |-> st.pending[t]]
      /\ \A t \in Surfaces : PendingOk(st.pending[t], t, cl[t])
      /\ StreamsOk(st.streams, st.nextStream) /\ BatchOk(st.batch, cl, st.streams) /\ EncodersOk(st)
  BY DEF SourceOk
<1>2. PICK p : p = [st.pending EXCEPT ![s] = q]
  OBVIOUS
<1>3. x = [st EXCEPT !.pending = p]
  BY <1>2
<1>4. /\ IsPort(x) /\ x.outControl = st.outControl /\ x.pending = p /\ x.batch = st.batch
      /\ x.streams = st.streams /\ x.nextStream = st.nextStream /\ x.encoders = st.encoders
      /\ x.error = st.error /\ x.call = st.call
  BY <1>1, <1>3 DEF IsPort
<1>5. /\ p = [t \in Surfaces |-> p[t]] /\ \A t \in Surfaces : PendingOk(p[t], t, cl[t])
  BY <1>1, <1>2
<1>6. EncodersOk(x)
  BY <1>1, <1>4 DEF EncodersOk, Active, Current
<1>7. SourceOk(cl, x)
  BY <1>1, <1>4, <1>5, <1>6 DEF SourceOk
<1>8. Keeps(st, x)
  BY <1>4 DEF Keeps, Coming, Issued
<1> QED
  BY <1>4, <1>7, <1>8, OnwardKeeps

\* A field that the invariant does not speak of.
Unlike(st, x) ==
  /\ IsPort(x) /\ x.outControl = st.outControl /\ x.pending = st.pending /\ x.batch = st.batch
  /\ x.streams = st.streams /\ x.nextStream = st.nextStream /\ x.encoders = st.encoders

\* Fields that the source's invariant does not speak of.
LEMMA UnlikeOk ==
  ASSUME NEW cl, NEW st, SourceOk(cl, st), NEW x, Unlike(st, x)
  PROVE  Onward(cl, st, cl, x)
<1>1. /\ IsPort(x) /\ x.outControl = st.outControl /\ x.pending = st.pending /\ x.batch = st.batch
      /\ x.streams = st.streams /\ x.nextStream = st.nextStream /\ x.encoders = st.encoders
  BY DEF Unlike
<1>2. EncodersOk(x)
  BY <1>1 DEF SourceOk, EncodersOk, Active, Current
<1>3. SourceOk(cl, x)
  BY <1>1, <1>2 DEF SourceOk
<1>4. Keeps(st, x)
  BY <1>1 DEF Keeps, Coming, Issued
<1> QED
  BY <1>3, <1>4, OnwardKeeps

\* queue_event keeps the port right.
LEMMA QueueEventOk ==
  ASSUME NEW cl, NEW st, SourceOk(cl, st), NEW s \in Surfaces, NEW e, EventOk(e, s, cl[s]), NEW x, x = QueueEvent(st, e)
  PROVE  Onward(cl, st, cl, x)
<1>1. PICK q : q = st.pending[s]
  OBVIOUS
<1>2. e.surface = s /\ PendingOk(q, s, cl[s]) /\ IsPort(st)
  BY <1>1 DEF EventOk, SourceOk
<1>3. \/ x = [st EXCEPT !.error = "pending"]
      \/ x = [st EXCEPT !.pending[s] = Insert(q, e)]
  BY <1>1, <1>2 DEF QueueEvent
<1>4. CASE x = [st EXCEPT !.error = "pending"]
  <2>1. Unlike(st, x)
    BY <1>2, <1>4 DEF IsPort, Unlike
  <2> QED
    BY <2>1, UnlikeOk
<1>5. CASE x = [st EXCEPT !.pending[s] = Insert(q, e)]
  <2>1. PICK p : p = Insert(q, e)
    OBVIOUS
  <2>2. PendingOk(p, s, cl[s])
    BY <1>2, <2>1, InsertPending
  <2> QED
    BY <1>5, <2>1, <2>2, PendingBecomes
<1> QED
  BY <1>3, <1>4, <1>5

\* cancel_encode
LEMMA CancelOnward ==
  ASSUME NEW cl, NEW st, SourceOk(cl, st), NEW s \in Surfaces, NEW x, x = CancelEncode(st, s)
  PROVE  Onward(cl, st, cl, x) /\ SourceOk(cl, x) /\ Free(x, s)
<1>1. SourceOk(cl, x) /\ Keeps(st, x) /\ Free(x, s)
  BY CancelOk DEF Cancels
<1>2. Onward(cl, st, cl, x)
  BY <1>1, OnwardKeeps
<1> QED
  BY <1>1, <1>2

\* A sequence of events of one session without frames.
LEMMA PathSteady ==
  ASSUME NEW a, NEW q, IsSeq(q), \A i \in 1 .. Len(q) : Legal(a, q[i], a)
  PROVE  Path(a, q, a)
<1>1. Len(q) \in Nat
  BY SeqFacts
<1> DEFINE f == [n \in 0 .. Len(q) |-> a]
<1>2. \A n \in 0 .. Len(q) : f[n] = a
  OBVIOUS
<1> HIDE DEF f
<1>3. f[0] = a /\ f[Len(q)] = a
  BY <1>1, <1>2
<1>4. \A n \in 1 .. Len(q) : Legal(f[n - 1], q[n], f[n])
  <2>1. TAKE n \in 1 .. Len(q)
  <2>2. n - 1 \in 0 .. Len(q) /\ n \in 0 .. Len(q)
    BY <1>1
  <2>3. f[n - 1] = a /\ f[n] = a
    BY <1>2, <2>2
  <2> QED
    BY <2>3
<1>5. PathBy(f, a, q, a)
  BY <1>3, <1>4 DEF PathBy
<1> QED
  BY <1>5 DEF Path

\* What a full unmap keeps: the controls, in their order.
LEMMA SurvivingEvents ==
  ASSUME NEW q, NEW s, NEW n, PendingOk(q, s, n), NEW k, k = Surviving(q), NEW p, p = [i \in DOMAIN k |-> k[i].event]
  PROVE  IsSeq(p) /\ \A i \in 1 .. Len(p) : EventOk(p[i], s, n) /\ p[i].kind # "commit"
<1>1. IsSeq(q) /\ \A i \in 1 .. Len(q) : EventOk(q[i].event, s, n)
  BY DEF PendingOk
<1>2. PICK S : S = {r \in ToSet(q) : r.event.kind = "commit"}
  OBVIOUS
<1>3. k = Dropping(q, S)
  BY <1>2 DEF Surviving
<1>4. PICK h : Picks(k, q, h) /\ \A i \in 1 .. Len(k) : k[i] \notin S
  BY <1>1, <1>3, DroppingPicks
<1>5. IsSeq(k) /\ \A i \in 1 .. Len(k) : h[i] \in 1 .. Len(q) /\ k[i] = q[h[i]]
  BY <1>4 DEF Picks
<1>6. Len(k) \in Nat /\ DOMAIN k = 1 .. Len(k)
  BY <1>5, SeqFacts
<1>7. \A i \in 1 .. Len(k) : EventOk(k[i].event, s, n) /\ k[i].event.kind # "commit"
  <2>1. TAKE i \in 1 .. Len(k)
  <2>2. h[i] \in 1 .. Len(q) /\ k[i] = q[h[i]] /\ k[i] \notin S
    BY <1>4, <1>5
  <2>3. ToSet(q) = {q[j] : j \in 1 .. Len(q)}
    BY <1>1, SeqFacts
  <2>4. k[i] \in ToSet(q)
    BY <2>2, <2>3
  <2> QED
    BY <1>1, <1>2, <2>2, <2>4
<1>8. PICK E : E = {k[i].event : i \in 1 .. Len(k)}
  OBVIOUS
<1>9. p \in Seq(E) /\ Len(p) = Len(k) /\ \A i \in 1 .. Len(k) : p[i] = k[i].event
  BY <1>6, <1>8
<1> QED
  BY <1>7, <1>9 DEF IsSeq

\* Events of one session without frames are sent.
LEMMA SendEachOk ==
  ASSUME NEW cl, NEW st, SourceOk(cl, st), NEW s \in Surfaces, NEW p, IsSeq(p),
         \A i \in 1 .. Len(p) : EventOk(p[i], s, cl[s]) /\ p[i].kind # "commit",
         NEW x, x = [st EXCEPT !.outControl = @ \o p]
  PROVE  Onward(cl, st, cl, x) /\ x.pending = st.pending /\ x.batch = st.batch
<1>1. /\ IsPort(st) /\ IsSeq(st.outControl) /\ st.pending = [t \in Surfaces |-> st.pending[t]]
      /\ \A t \in Surfaces : PendingOk(st.pending[t], t, cl[t])
      /\ StreamsOk(st.streams, st.nextStream) /\ BatchOk(st.batch, cl, st.streams) /\ EncodersOk(st)
  BY DEF SourceOk
<1>2. /\ IsPort(x) /\ x.outControl = st.outControl \o p /\ x.pending = st.pending /\ x.batch = st.batch
      /\ x.streams = st.streams /\ x.nextStream = st.nextStream /\ x.encoders = st.encoders
  BY <1>1 DEF IsPort
<1>3. IsSeq(st.outControl \o p)
  BY <1>1, ConcatFacts
<1>4. EncodersOk(x)
  BY <1>1, <1>2 DEF EncodersOk, Active, Current
<1>5. SourceOk(cl, x)
  BY <1>1, <1>2, <1>3, <1>4 DEF SourceOk
<1>6. ASSUME NEW a, NEW c, IsSeq(c), LineOk(a, c, cl, st) PROVE LineOk(a, c, cl, x)
  <2>1. PICK w : /\ Path(a, c \o st.outControl, State(cl, w))
                 /\ \A f \in w \union Coming(st) : Issued(st, f)
                 /\ Coming(st) \cap w = {}
    BY <1>6 DEF LineOk
  <2>2. \A i \in 1 .. Len(p) : Legal(State(cl, w), p[i], State(cl, w))
    <3>1. TAKE i \in 1 .. Len(p)
    <3>2. EventOk(p[i], s, cl[s]) /\ FramesOf(p[i]) = {}
      BY DEF FramesOf
    <3> QED
      BY <3>2, SteadyLegal
  <2>3. Path(State(cl, w), p, State(cl, w))
    BY <2>2, PathSteady
  <2>4. IsSeq(c \o st.outControl)
    BY <1>1, <1>6, ConcatFacts
  <2>5. Path(a, (c \o st.outControl) \o p, State(cl, w))
    BY <2>1, <2>3, <2>4, PathJoin
  <2>6. (c \o st.outControl) \o p = c \o (st.outControl \o p)
    <3>1. PICK A, B, D : c \in Seq(A) /\ st.outControl \in Seq(B) /\ p \in Seq(D)
      BY <1>1, <1>6 DEF IsSeq
    <3>2. PICK G, o : G = A \union B \union D /\ o = st.outControl
      OBVIOUS
    <3>3. c \in Seq(G) /\ o \in Seq(G) /\ p \in Seq(G)
      BY <3>1, <3>2
    <3>4. (c \o o) \o p = c \o (o \o p)
      BY <3>3, ConcatAssociative, SMTT(60)
    <3> QED
      BY <3>2, <3>4
  <2>7. Coming(x) = Coming(st) /\ \A f : Issued(st, f) => Issued(x, f)
    BY <1>2 DEF Coming, Issued
  <2>8. Path(a, c \o x.outControl, State(cl, w))
    BY <1>2, <2>5, <2>6
  <2> QED
    BY <2>1, <2>7, <2>8 DEF LineOk
<1> QED
  BY <1>2, <1>5, <1>6 DEF Onward

\* A full unmap sends the controls that waited, in their place.
LEMMA FullUnmapOk ==
  ASSUME NEW cl, NEW st, SourceOk(cl, st), NEW s \in Surfaces, NEW e, EventOk(e, s, cl[s]), e.kind = "commit",
         e.layers = {}, NEW x, x = FullUnmap(st, e)
  PROVE  Onward(cl, st, cl, x)
<1>1. e.surface = s /\ DOMAIN e.buffers = {}
  BY DEF EventOk
<1>2. FramesOf(e) = {}
  BY <1>1, ControlFrames
<1>3. PICK q, k, p : q = st.pending[s] /\ k = Surviving(q) /\ p = [i \in DOMAIN k |-> k[i].event]
  OBVIOUS
<1>4. PendingOk(q, s, cl[s])
  BY <1>3 DEF SourceOk
<1>5. IsSeq(p) /\ \A i \in 1 .. Len(p) : EventOk(p[i], s, cl[s]) /\ p[i].kind # "commit"
  BY <1>3, <1>4, SurvivingEvents
<1>6. PICK y, z : y = CancelEncode(st, s) /\ z = [y EXCEPT !.outControl = @ \o p]
  OBVIOUS
<1>7. x = Send(z, e)
  BY <1>1, <1>3, <1>6 DEF FullUnmap
<1>8. Onward(cl, st, cl, y) /\ SourceOk(cl, y)
  BY <1>6, CancelOnward
<1>9. Onward(cl, y, cl, z)
  BY <1>5, <1>6, <1>8, SendEachOk
<1>10. SourceOk(cl, z)
  BY <1>9 DEF Onward
<1>11. Onward(cl, z, cl, x)
  BY <1>2, <1>7, <1>10, SendOk
<1> QED
  BY <1>8, <1>9, <1>11, OnwardJoin

\* EncodedSourceState::enqueue, for an event of a mapped surface
LEMMA EnqueueOk ==
  ASSUME NEW cl, NEW st, SourceOk(cl, st), NEW s \in Surfaces, NEW e, EventOk(e, s, cl[s]), NEW ready,
         NEW turned, e.kind = "commit" => turned \subseteq DOMAIN e.buffers, NEW x, x = Enqueue(st, e, ready, turned)
  PROVE  Onward(cl, st, cl, x)
<1>1. e.kind \in {"role", "metadata", "commit"}
  BY DEF EventOk
<1>2. CASE e.kind = "commit" /\ Unmaps(e)
  <2>1. x = FullUnmap(st, e) /\ e.layers = {}
    BY <1>2 DEF Enqueue, Unmaps
  <2> QED
    BY <1>2, <2>1, FullUnmapOk
<1>3. CASE e.kind = "commit" /\ ~Unmaps(e) /\ MustQueue(st, e, ready)
  <2>1. x = QueueEvent(st, e)
    BY <1>3 DEF Enqueue
  <2> QED
    BY <2>1, QueueEventOk
<1>4. CASE e.kind = "commit" /\ ~Unmaps(e) /\ ~MustQueue(st, e, ready)
  <2>1. x = SubmitOrSend(st, e, turned)
    BY <1>4 DEF Enqueue
  <2>2. st.batch = NoBatch
    BY <1>4 DEF MustQueue
  <2> QED
    BY <1>4, <2>1, <2>2, SubmitOrSendOk
<1>5. CASE e.kind # "commit"
  <2>1. x = QueueEvent(st, e) \/ x = Send(st, e)
    BY <1>1, <1>5 DEF Enqueue, Unmaps
  <2>2. FramesOf(e) = {}
    BY <1>5, ControlFrames
  <2> QED
    BY <2>1, <2>2, QueueEventOk, SendOk
<1> QED
  BY <1>2, <1>3, <1>4, <1>5

-----------------------------------------------------------------------------
(* The operations that map and end a session.                              *)

IsSessions(cl) == cl = [t \in Surfaces |-> cl[t]]

\* destroyed
LEMMA DestroyOk ==
  ASSUME NEW cl, IsSessions(cl), NEW st, SourceOk(cl, st), NEW s \in Surfaces, NEW dl, dl = [cl EXCEPT ![s] = 0],
         NEW e, e = Record("destroyed", s, cl[s], 0), NEW x, x = Send(CancelEncode(st, s), e)
  PROVE  Onward(cl, st, dl, x)
<1>1. PICK y : y = CancelEncode(st, s)
  OBVIOUS
<1>2. Onward(cl, st, cl, y) /\ SourceOk(cl, y) /\ Free(y, s)
  BY <1>1, CancelOnward
<1>3. Others(cl, dl, s)
  BY DEF IsSessions, Others
<1>4. SourceOk(dl, y)
  BY <1>2, <1>3, Recast
<1>5. SourceOk(dl, x)
  BY <1>1, <1>4, SendKeeps
<1>6. e.surface = s /\ e.session = cl[s] /\ e.kind = "destroyed" /\ FramesOf(e) = {}
  BY DEF Record, FramesOf
<1>7. \A w : Legal(State(cl, w), e, State(dl, w))
  BY <1>6 DEF Legal, State
<1>8. ASSUME NEW a, NEW c, IsSeq(c), LineOk(a, c, cl, st) PROVE LineOk(a, c, dl, x)
  <2>1. LineOk(a, c, cl, y)
    BY <1>2, <1>8 DEF Onward
  <2>2. IsPort(y) /\ IsSeq(y.outControl)
    BY <1>2 DEF SourceOk
  <2> QED
    BY <1>1, <1>6, <1>7, <1>8, <2>1, <2>2, SendLine
<1> QED
  BY <1>5, <1>8 DEF Onward

\* SourceRelayAdapter::unmap
LEMMA WithdrawOk ==
  ASSUME NEW cl, IsSessions(cl), NEW st, SourceOk(cl, st), NEW s \in Surfaces, NEW dl, dl = [cl EXCEPT ![s] = 0],
         NEW n, NEW x, x = CancelEncode(Send(st, Record("withdraw", s, n, 0)), s)
  PROVE  Onward(cl, st, dl, x)
<1>1. PICK e, y : e = Record("withdraw", s, n, 0) /\ y = Send(st, e)
  OBVIOUS
<1>2. SourceOk(cl, y) /\ x = CancelEncode(y, s)
  BY <1>1, SendKeeps
<1>3. SourceOk(cl, x) /\ Keeps(y, x) /\ Free(x, s)
  BY <1>2, CancelOk DEF Cancels
<1>4. Others(cl, dl, s)
  BY DEF IsSessions, Others
<1>5. SourceOk(dl, x)
  BY <1>3, <1>4, Recast
<1>6. e.surface = s /\ e.kind = "withdraw" /\ FramesOf(e) = {}
  BY <1>1 DEF Record, FramesOf
<1>7. \A w : Legal(State(cl, w), e, State(dl, w))
  BY <1>6 DEF Legal, State
<1>8. ASSUME NEW a, NEW c, IsSeq(c), LineOk(a, c, cl, st) PROVE LineOk(a, c, dl, x)
  <2>1. IsPort(st) /\ IsSeq(st.outControl)
    BY DEF SourceOk
  <2>2. LineOk(a, c, dl, y)
    BY <1>1, <1>6, <1>7, <1>8, <2>1, SendLine
  <2> QED
    BY <1>3, <2>2, KeepsLine
<1> QED
  BY <1>5, <1>8 DEF Onward

\* SourceRelayAdapter::map
LEMMA MapOk ==
  ASSUME NEW cl, IsSessions(cl), NEW st, SourceOk(cl, st), NEW s \in Surfaces, cl[s] = 0,
         NEW n, NEW dl, dl = [cl EXCEPT ![s] = n], NEW x, x = Send(st, Record("map", s, n, 0))
  PROVE  Onward(cl, st, dl, x)
<1>1. PICK e : e = Record("map", s, n, 0)
  OBVIOUS
<1>2. PICK q, b : q = st.pending[s] /\ b = st.batch
  OBVIOUS
<1>3. PendingOk(q, s, cl[s]) /\ BatchOk(b, cl, st.streams) /\ IsPort(st) /\ IsSeq(st.outControl)
  BY <1>2 DEF SourceOk
<1>4. q = <<>>
  <2>1. IsSeq(q) /\ \A i \in 1 .. Len(q) : FALSE
    BY <1>3 DEF PendingOk, EventOk
  <2>2. PICK Q : q \in Seq(Q)
    BY <2>1 DEF IsSeq
  <2>3. Len(q) = 0
    <3>1. Len(q) \in Nat
      BY <2>2
    <3>2. Len(q) > 0 => 1 \in 1 .. Len(q)
      BY <3>1
    <3> QED
      BY <2>1, <3>1, <3>2
  <2> QED
    BY <2>2, <2>3, EmptySeq
<1>5. b = NoBatch \/ b.surface # s \/ b.cancelled = TRUE
  BY <1>3 DEF BatchOk, Live, EventOk
<1>6. Others(cl, dl, s)
  BY DEF IsSessions, Others
<1>7. SourceOk(dl, st)
  <2>1. Free(st, s)
    BY <1>2, <1>4, <1>5 DEF Free
  <2> QED
    BY <1>6, <2>1, Recast
<1>8. SourceOk(dl, x)
  BY <1>7, SendKeeps
<1>9. e.surface = s /\ e.session = n /\ e.kind = "map" /\ FramesOf(e) = {}
  BY <1>1 DEF Record, FramesOf
<1>10. \A w : Legal(State(cl, w), e, State(dl, w))
  BY <1>9 DEF Legal, State
<1>11. ASSUME NEW a, NEW c, IsSeq(c), LineOk(a, c, cl, st) PROVE LineOk(a, c, dl, x)
  BY <1>1, <1>3, <1>9, <1>10, <1>11, SendLine
<1> QED
  BY <1>8, <1>11 DEF Onward

-----------------------------------------------------------------------------
(* A job completes, and the batch with it.                                 *)

\* The completion of a cancelled job.
LEMMA CompletedCancelled ==
  ASSUME NEW cl, NEW st, SourceOk(cl, st), st.batch # NoBatch, st.batch.cancelled = TRUE, NEW x, x = Completed(st)
  PROVE  Onward(cl, st, cl, x)
<1>1. PICK b, g : b = st.batch /\ g = Generation(b.active)
  OBVIOUS
<1>2. PICK y : y = [st EXCEPT !.batch = NoBatch]
  OBVIOUS
<1>3. x = Retire(y, {g})
  BY <1>1, <1>2 DEF Completed
<1>4. /\ IsPort(st) /\ IsSeq(st.outControl) /\ st.pending = [t \in Surfaces |-> st.pending[t]]
      /\ \A t \in Surfaces : PendingOk(st.pending[t], t, cl[t])
      /\ StreamsOk(st.streams, st.nextStream) /\ EncodersOk(st)
  BY DEF SourceOk
<1>5. /\ IsPort(y) /\ y.batch = NoBatch /\ y.outControl = st.outControl /\ y.pending = st.pending
      /\ y.streams = st.streams /\ y.nextStream = st.nextStream /\ y.encoders = st.encoders
  BY <1>2, <1>4 DEF IsPort
<1>6. x = [y EXCEPT !.encoders = @ \ {g}]
  BY <1>3, <1>5, RetirableIs DEF Retire
<1>7. /\ IsPort(x) /\ x.batch = NoBatch /\ x.outControl = st.outControl /\ x.pending = st.pending
      /\ x.streams = st.streams /\ x.nextStream = st.nextStream /\ x.encoders = st.encoders \ {g}
  BY <1>5, <1>6 DEF IsPort
<1>8. EncodersOk(x)
  BY <1>1, <1>4, <1>7 DEF EncodersOk, Active, Current
<1>9. SourceOk(cl, x)
  BY <1>4, <1>7, <1>8 DEF SourceOk, BatchOk
<1>10. Keeps(st, x)
  BY <1>7 DEF Keeps, Coming, Issued
<1> QED
  BY <1>9, <1>10, OnwardKeeps

\* The next job of a batch.
LEMMA CompletedNext ==
  ASSUME NEW cl, NEW st, SourceOk(cl, st), st.batch # NoBatch, st.batch.cancelled = FALSE, st.batch.todo # <<>>,
         NEW x, x = Completed(st)
  PROVE  Onward(cl, st, cl, x)
<1>1. PICK b, J, g : b = st.batch /\ J = b.todo /\ g = Generation(Head(J))
  OBVIOUS
<1>2. /\ IsPort(st) /\ IsSeq(st.outControl) /\ st.pending = [t \in Surfaces |-> st.pending[t]]
      /\ \A t \in Surfaces : PendingOk(st.pending[t], t, cl[t])
      /\ StreamsOk(st.streams, st.nextStream) /\ BatchOk(b, cl, st.streams) /\ EncodersOk(st)
  BY <1>1 DEF SourceOk
<1>3. /\ b = [surface |-> b.surface, session |-> b.session, event |-> b.event, active |-> b.active,
              todo |-> b.todo, done |-> b.done, cancelled |-> b.cancelled]
      /\ b.surface \in Surfaces /\ b.cancelled = FALSE /\ Live(b, cl, st.streams)
  BY <1>1, <1>2 DEF BatchOk
<1>4. PICK d : d = [b EXCEPT !.active = Head(J), !.todo = Tail(J), !.done = Append(b.done, b.active)]
  OBVIOUS
<1>5. x = [st EXCEPT !.batch = d, !.encoders = @ \union {g}]
  <2>1. x = [st EXCEPT !.batch = [b EXCEPT !.active = Head(b.todo), !.todo = Tail(@), !.done = Append(b.done, b.active)],
                       !.encoders = @ \union {Generation(Head(b.todo))}]
    BY <1>1, <1>3 DEF Completed
  <2>2. d = [b EXCEPT !.active = Head(b.todo), !.todo = Tail(@), !.done = Append(b.done, b.active)]
    BY <1>1, <1>4
  <2> QED
    BY <1>1, <2>1, <2>2
<1>6. /\ IsPort(x) /\ x.batch = d /\ x.outControl = st.outControl /\ x.pending = st.pending
      /\ x.streams = st.streams /\ x.nextStream = st.nextStream /\ x.encoders = st.encoders \union {g}
  BY <1>2, <1>5 DEF IsPort
<1>7. /\ d.surface = b.surface /\ d.event = b.event /\ d.active = Head(J) /\ d.todo = Tail(J) /\ d.cancelled = FALSE
      /\ d = [surface |-> d.surface, session |-> d.session, event |-> d.event, active |-> d.active,
              todo |-> d.todo, done |-> d.done, cancelled |-> d.cancelled]
      /\ d # NoBatch
  <2>1. d = [surface |-> b.surface, session |-> b.session, event |-> b.event, active |-> Head(J),
             todo |-> Tail(J), done |-> Append(b.done, b.active), cancelled |-> b.cancelled]
    BY <1>3, <1>4
  <2> QED
    BY <1>3, <2>1, SourceAssumption DEF NoBatch
<1>8. PICK G : G = GensOf(st.streams, b.surface)
  OBVIOUS
<1>9. Generation(b.active) \in G /\ G \subseteq Current(st)
  BY <1>3, <1>8 DEF Live, GensOf, Current
<1>10. g \in G /\ IsSeq(Tail(J)) /\ \A i \in 1 .. Len(Tail(J)) : Generation(Tail(J)[i]) \in G
  <2>1. IsSeq(J) /\ J # <<>> /\ \A i \in 1 .. Len(J) : Generation(J[i]) \in G
    BY <1>1, <1>3, <1>8 DEF Live
  <2>2. PICK H : J \in Seq(H)
    BY <2>1 DEF IsSeq
  <2>3. Head(J) = J[1] /\ Len(J) \in Nat /\ Len(J) > 0 /\ Tail(J) \in Seq(H) /\ Len(Tail(J)) = Len(J) - 1
        /\ \A i \in 1 .. Len(J) - 1 : Tail(J)[i] = J[i + 1]
    BY <2>1, <2>2, HeadTailProperties
  <2>4. 1 \in 1 .. Len(J) /\ \A i \in 1 .. Len(J) - 1 : i + 1 \in 1 .. Len(J)
    BY <2>3
  <2> QED
    BY <1>1, <2>1, <2>3, <2>4 DEF IsSeq
<1>11. BatchOk(d, cl, st.streams)
  BY <1>1, <1>3, <1>7, <1>8, <1>10 DEF BatchOk, Live
<1>12. EncodersOk(x)
  <2>1. Active(x) = {g} /\ Active(st) = {Generation(b.active)} /\ Current(x) = Current(st)
    BY <1>1, <1>6, <1>7 DEF Active, Current
  <2> QED
    BY <1>2, <1>6, <1>9, <2>1 DEF EncodersOk
<1>13. SourceOk(cl, x)
  BY <1>2, <1>6, <1>11, <1>12 DEF SourceOk
<1>14. Keeps(st, x)
  BY <1>1, <1>3, <1>6, <1>7 DEF Keeps, Coming, Issued
<1> QED
  BY <1>13, <1>14, OnwardKeeps

\* The last job of a batch: its event and frames are sent.
LEMMA CompletedLast ==
  ASSUME NEW cl, NEW st, SourceOk(cl, st), st.batch # NoBatch, st.batch.cancelled = FALSE, st.batch.todo = <<>>,
         NEW x, x = Completed(st)
  PROVE  Onward(cl, st, cl, x)
<1>1. PICK b, e : b = st.batch /\ e = b.event
  OBVIOUS
<1>2. /\ IsPort(st) /\ IsSeq(st.outControl) /\ st.pending = [t \in Surfaces |-> st.pending[t]]
      /\ \A t \in Surfaces : PendingOk(st.pending[t], t, cl[t])
      /\ StreamsOk(st.streams, st.nextStream) /\ BatchOk(b, cl, st.streams) /\ EncodersOk(st)
  BY <1>1 DEF SourceOk
<1>3. b.surface \in Surfaces /\ b.cancelled = FALSE /\ Live(b, cl, st.streams)
  BY <1>1, <1>2 DEF BatchOk
<1>4. EventOk(e, b.surface, cl[b.surface]) /\ e.kind = "commit" /\ Generation(b.active) \in Current(st)
  BY <1>1, <1>3 DEF Live, GensOf, Current
<1>5. PICK o : x = Send([st EXCEPT !.batch = NoBatch, !.outMedia = o], e)
  BY <1>1, <1>3 DEF Completed
<1>6. PICK y : y = [st EXCEPT !.batch = NoBatch, !.outMedia = o] /\ x = Send(y, e)
  BY <1>5
<1>7. /\ IsPort(y) /\ y.batch = NoBatch /\ y.outControl = st.outControl /\ y.pending = st.pending
      /\ y.streams = st.streams /\ y.nextStream = st.nextStream /\ y.encoders = st.encoders
  BY <1>2, <1>6 DEF IsPort
<1>8. SourceOk(cl, y)
  <2>1. EncodersOk(y)
    BY <1>1, <1>2, <1>4, <1>7 DEF EncodersOk, Active, Current
  <2> QED
    BY <1>2, <1>7, <2>1 DEF SourceOk, BatchOk
<1>9. SourceOk(cl, x) /\ Sent(y, e, x)
  BY <1>6, <1>8, SendKeeps
<1>10. /\ x.outControl = Append(st.outControl, e) /\ x.batch = NoBatch
       /\ x.streams = st.streams /\ x.nextStream = st.nextStream
  BY <1>7, <1>9 DEF Sent
<1>11. Coming(st) = FramesOf(e) /\ Coming(x) = {} /\ \A f : Issued(st, f) => Issued(x, f)
  BY <1>1, <1>3, <1>10 DEF Coming, Issued
<1>12. ASSUME NEW a, NEW c, IsSeq(c), LineOk(a, c, cl, st) PROVE LineOk(a, c, cl, x)
  <2>1. PICK w : /\ Path(a, c \o st.outControl, State(cl, w))
                 /\ \A f \in w \union Coming(st) : Issued(st, f)
                 /\ Coming(st) \cap w = {}
    BY <1>12 DEF LineOk
  <2>2. PICK u : u = w \union FramesOf(e)
    OBVIOUS
  <2>3. Legal(State(cl, w), e, State(cl, u))
    <3>1. e.surface = b.surface /\ e.session = cl[b.surface] /\ e.session # 0 /\ DOMAIN e.buffers \subseteq Layers
      BY <1>4 DEF EventOk
    <3>2. PICK p, r : p = State(cl, w) /\ r = State(cl, u)
      OBVIOUS
    <3>3. p.session = cl /\ p.used = w /\ r.session = cl /\ r.used = u
      BY <3>2 DEF State
    <3>4. Legal(p, e, r)
      BY <1>3, <1>4, <1>11, <2>1, <2>2, <3>1, <3>3 DEF Legal
    <3> QED
      BY <3>2, <3>4
  <2>4. /\ IsSeq(c \o st.outControl) /\ c \o Append(st.outControl, e) = Append(c \o st.outControl, e)
    BY <1>2, <1>12, AppendAfter, SMTT(30)
  <2>5. Path(a, c \o x.outControl, State(cl, u))
    BY <1>10, <2>1, <2>3, <2>4, PathAppend
  <2>6. /\ \A f \in u \union Coming(x) : Issued(x, f)
        /\ Coming(x) \cap u = {}
    BY <1>11, <2>1, <2>2
  <2> QED
    BY <2>5, <2>6 DEF LineOk
<1> QED
  BY <1>9, <1>12 DEF Onward

\* drain, whatever the completed job was.
LEMMA CompletedOk ==
  ASSUME NEW cl, NEW st, SourceOk(cl, st), st.batch # NoBatch, NEW x, x = Completed(st)
  PROVE  Onward(cl, st, cl, x)
<1>1. st.batch.cancelled \in BOOLEAN
  BY DEF SourceOk, BatchOk
<1> QED
  BY <1>1, CompletedCancelled, CompletedNext, CompletedLast

-----------------------------------------------------------------------------
(* The end of a call: flush, and the lanes.                                *)

\* A set of naturals that is not empty has its minimum in it.
LEMMA MinOf ==
  ASSUME NEW T, T \subseteq Nat, T # {}
  PROVE  Min(T) \in T /\ \A y \in T : Min(T) <= y
<1>1. \E x \in T : \A y \in T : x <= y
  BY LeastOf
<1> QED
  BY <1>1 DEF Min

\* No more is sent than is there or has room.
LEMMA SendableIs ==
  ASSUME NEW q, NEW c, NEW r \in Nat, Len(q) \in Nat, Len(c) \in Nat, Len(c) <= r
  PROVE  Sendable(q, c, r) \in 0 .. Len(q) /\ Len(c) + Sendable(q, c, r) <= r
<1>1. PICK n, m : n = Len(q) /\ m = r - Len(c)
  OBVIOUS
<1>2. n \in Nat /\ m \in Nat
  BY <1>1
<1>3. PICK k : k = Min({n, m})
  OBVIOUS
<1>4. k \in {n, m} /\ \A y \in {n, m} : k <= y
  BY <1>2, <1>3, MinOf
<1>5. k <= n /\ k <= m /\ k \in Nat
  BY <1>2, <1>4
<1>6. Sendable(q, c, r) = k
  BY <1>1, <1>3 DEF Sendable
<1> QED
  BY <1>1, <1>2, <1>5, <1>6

\* A port with its lanes, for the sessions cl.
PortOk(cl, p) ==
  /\ p = [st |-> p.st, control |-> p.control, media |-> p.media]
  /\ SourceOk(cl, p.st) /\ IsSeq(p.control) /\ Len(p.control) <= ControlRoom

Leads(cl, p, dl, q) ==
  PortOk(dl, q) /\ \A a : LineOk(a, p.control, cl, p.st) => LineOk(a, q.control, dl, q.st)

\* An operation on the port alone, for the port with its lanes.
LEMMA OnwardLeads ==
  ASSUME NEW cl, NEW dl, NEW p, PortOk(cl, p), NEW q, q = [p EXCEPT !.st = q.st], Onward(cl, p.st, dl, q.st)
  PROVE  Leads(cl, p, dl, q)
<1>1. p = [st |-> p.st, control |-> p.control, media |-> p.media] /\ IsSeq(p.control) /\ Len(p.control) <= ControlRoom
  BY DEF PortOk
<1>2. q = [st |-> q.st, control |-> p.control, media |-> p.media]
  BY <1>1
<1>3. q.control = p.control /\ q = [st |-> q.st, control |-> q.control, media |-> q.media]
  BY <1>2
<1> QED
  BY <1>1, <1>3 DEF Leads, PortOk, Onward

\* What is moved to the lane and what is left are together what they were.
LEMMA SplitJoin ==
  ASSUME NEW c, NEW o, IsSeq(c), IsSeq(o), NEW n \in 0 .. Len(o)
  PROVE  /\ IsSeq(c \o SubSeq(o, 1, n)) /\ Len(c \o SubSeq(o, 1, n)) = Len(c) + n /\ IsSeq(SubSeq(o, n + 1, Len(o)))
         /\ (c \o SubSeq(o, 1, n)) \o SubSeq(o, n + 1, Len(o)) = c \o o
<1>1. PICK A, B : c \in Seq(A) /\ o \in Seq(B)
  BY DEF IsSeq
<1>2. PICK G, x, y : G = A \union B /\ x = SubSeq(o, 1, n) /\ y = SubSeq(o, n + 1, Len(o))
  OBVIOUS
<1>3. c \in Seq(G) /\ o \in Seq(G) /\ Len(o) \in Nat
  BY <1>1, <1>2
<1>4. x \in Seq(G) /\ Len(x) = n /\ y \in Seq(G) /\ Len(y) = Len(o) - n
  BY <1>2, <1>3
<1>5. (\A i \in 1 .. n : x[i] = o[i]) /\ \A i \in 1 .. Len(o) - n : y[i] = o[n + i]
  BY <1>2, <1>3, PartFacts DEF IsSeq
<1>6. x \o y = o
  <2>1. PICK w : w = x \o y
    OBVIOUS
  <2>2. w \in Seq(G) /\ Len(w) = Len(o)
    BY <1>3, <1>4, <2>1, ConcatProperties
  <2>3. Joined(w, x, y)
    BY <1>4, <2>1, ConcatJoined DEF IsSeq
  <2>4. \A i \in 1 .. Len(o) : w[i] = o[i]
    <3>1. TAKE i \in 1 .. Len(o)
    <3>2. CASE i <= n
      BY <1>3, <1>4, <1>5, <2>3, <3>2 DEF Joined
    <3>3. CASE i > n
      <4>1. PICK k \in 1 .. Len(o) - n : i = n + k
        <5>1. i - n \in 1 .. Len(o) - n /\ i = n + (i - n)
          BY <1>3, <3>3
        <5> QED
          BY <5>1
      <4> QED
        BY <1>4, <1>5, <2>3, <4>1 DEF Joined
    <3> QED
      BY <1>3, <3>2, <3>3
  <2> QED
    BY <1>3, <2>1, <2>2, <2>4, SeqEqual
<1>7. (c \o x) \o y = c \o (x \o y)
  <2>1. c \in Seq(G) /\ x \in Seq(G) /\ y \in Seq(G)
    BY <1>3, <1>4
  <2> QED
    BY <2>1, ConcatAssociative, SMTT(60)
<1>8. c \o x \in Seq(G) /\ Len(c \o x) = Len(c) + n
  BY <1>3, <1>4, ConcatProperties
<1> QED
  BY <1>2, <1>4, <1>6, <1>7, <1>8 DEF IsSeq

\* The lane c and the port st, and the lane d and the port x that flush leaves.
Flushed(c, st, d, x) ==
  /\ IsPort(x) /\ x.pending = st.pending /\ x.batch = st.batch /\ x.streams = st.streams
  /\ x.nextStream = st.nextStream /\ x.encoders = st.encoders /\ x.call = st.call /\ x.resizing = st.resizing
  /\ IsSeq(d) /\ IsSeq(x.outControl) /\ d \o x.outControl = c \o st.outControl

\* A flush moves records, and reorders none.
LEMMA FlushedOk ==
  ASSUME NEW cl, NEW c, NEW st, NEW d, NEW x, SourceOk(cl, st), Flushed(c, st, d, x)
  PROVE  SourceOk(cl, x) /\ \A a : LineOk(a, c, cl, st) => LineOk(a, d, cl, x)
<1>1. /\ IsPort(x) /\ x.pending = st.pending /\ x.batch = st.batch /\ x.streams = st.streams
      /\ x.nextStream = st.nextStream /\ x.encoders = st.encoders
      /\ IsSeq(d) /\ IsSeq(x.outControl) /\ d \o x.outControl = c \o st.outControl
  BY DEF Flushed
<1>2. EncodersOk(x)
  BY <1>1 DEF SourceOk, EncodersOk, Active, Current
<1>3. SourceOk(cl, x)
  BY <1>1, <1>2 DEF SourceOk
<1>4. Coming(x) = Coming(st) /\ \A f : Issued(st, f) => Issued(x, f)
  BY <1>1 DEF Coming, Issued
<1>5. ASSUME NEW a, LineOk(a, c, cl, st)
      PROVE  LineOk(a, d, cl, x)
  <2>1. PICK w : /\ Path(a, c \o st.outControl, State(cl, w))
                 /\ \A f \in w \union Coming(st) : Issued(st, f)
                 /\ Coming(st) \cap w = {}
    BY <1>5 DEF LineOk
  <2>2. Path(a, d \o x.outControl, State(cl, w))
    BY <1>1, <2>1
  <2> QED
    BY <1>4, <2>1, <2>2 DEF LineOk
<1> QED
  BY <1>3, <1>5

\* flush keeps the port and the lane right.
LEMMA FlushOk ==
  ASSUME limits \in Links, NEW cl, NEW p, PortOk(cl, p), NEW q, q = Flush(p)
  PROVE  Leads(cl, p, cl, q) /\ q.st.call = p.st.call /\ q.st.batch = p.st.batch
<1>1. /\ p = [st |-> p.st, control |-> p.control, media |-> p.media] /\ SourceOk(cl, p.st)
      /\ IsSeq(p.control) /\ Len(p.control) <= ControlRoom
  BY DEF PortOk
<1>2. /\ IsPort(p.st) /\ IsSeq(p.st.outControl) /\ ControlRoom \in Nat
  BY <1>1, LanesAssumption DEF SourceOk, ControlRoom
<1>3. CASE Failure(p.st) # "none"
  <2>1. PICK x : x = [p.st EXCEPT !.error = Failure(p.st)]
    OBVIOUS
  <2>2. q = [p EXCEPT !.st = x]
    BY <1>3, <2>1 DEF Flush
  <2>3. q.st = x /\ q = [p EXCEPT !.st = q.st]
    BY <1>1, <2>2
  <2>4. Unlike(p.st, x) /\ x.call = p.st.call /\ x.batch = p.st.batch
    BY <1>2, <2>1 DEF Unlike, IsPort
  <2>5. Onward(cl, p.st, cl, q.st)
    BY <1>1, <2>3, <2>4, UnlikeOk
  <2> QED
    BY <2>3, <2>4, <2>5, OnwardLeads
<1>4. CASE Failure(p.st) = "none"
  <2>1. PICK n, k, o : /\ n = Sendable(p.st.outControl, p.control, ControlRoom)
                       /\ k = Sendable(p.st.outMedia, p.media, MediaRoom)
                       /\ o = p.st.outControl
    OBVIOUS
  <2>2. PICK x : x = [p.st EXCEPT !.outControl = Drop(@, n), !.outMedia = Drop(@, k)]
    OBVIOUS
  <2>3. PICK d : d = p.control \o SubSeq(o, 1, n)
    OBVIOUS
  <2>4. q.st = x /\ q.control = d /\ q = [st |-> q.st, control |-> q.control, media |-> q.media]
    BY <1>4, <2>1, <2>2, <2>3 DEF Flush
  <2>5. x.outControl = SubSeq(o, n + 1, Len(o))
    BY <1>2, <2>1, <2>2 DEF Drop, IsPort
  <2>6. Len(p.control) \in Nat /\ Len(o) \in Nat /\ IsSeq(o)
    BY <1>1, <1>2, <2>1, SeqFacts
  <2>7. n \in 0 .. Len(o) /\ Len(p.control) + n <= ControlRoom
    BY <1>1, <1>2, <2>1, <2>6, SendableIs
  <2>8. /\ IsSeq(d) /\ Len(d) = Len(p.control) + n /\ IsSeq(x.outControl)
        /\ d \o x.outControl = p.control \o o
    BY <1>1, <2>3, <2>5, <2>6, <2>7, SplitJoin
  <2>9. /\ IsPort(x) /\ x.pending = p.st.pending /\ x.batch = p.st.batch /\ x.streams = p.st.streams
        /\ x.nextStream = p.st.nextStream /\ x.encoders = p.st.encoders /\ x.call = p.st.call
        /\ x.resizing = p.st.resizing
    BY <1>2, <2>2 DEF IsPort
  <2>10. Flushed(p.control, p.st, d, x)
    BY <2>1, <2>8, <2>9 DEF Flushed
  <2>11. SourceOk(cl, x) /\ \A a : LineOk(a, p.control, cl, p.st) => LineOk(a, d, cl, x)
    BY <1>1, <2>10, FlushedOk
  <2>12. PortOk(cl, q)
    BY <2>4, <2>7, <2>8, <2>11 DEF PortOk
  <2> QED
    BY <2>4, <2>9, <2>11, <2>12 DEF Leads
<1> QED
  BY <1>3, <1>4

-----------------------------------------------------------------------------
(* The source's steps.                                                     *)

\* The call on the port st with the lane c ends with the port x and the lane d.
Returned(cl, c, st, dl, d, x) ==
  /\ SourceOk(dl, x) /\ IsSeq(d) /\ Len(d) <= ControlRoom /\ (x.call # "idle" => x.batch = NoBatch)
  /\ \A a : LineOk(a, c, cl, st) => LineOk(a, d, dl, x)

\* progress keeps them right and returns between two batches.
LEMMA ProgressOk ==
  ASSUME limits \in Links, NEW cl, NEW p, PortOk(cl, p), ProgressFrom(p)
  PROVE  Returned(cl, p.control, p.st, cl, control', src')
<1>1. PICK q : q = Flush(p)
  OBVIOUS
<1>2. Leads(cl, p, cl, q)
  BY <1>1, FlushOk
<1>3. PortOk(cl, q) /\ \A a : LineOk(a, p.control, cl, p.st) => LineOk(a, q.control, cl, q.st)
  BY <1>2 DEF Leads
<1>4. IsPort(q.st) /\ SourceOk(cl, q.st) /\ IsSeq(q.control) /\ Len(q.control) <= ControlRoom
  BY <1>3 DEF PortOk, SourceOk
<1>5. PICK x, d : x = src' /\ d = control'
  OBVIOUS
<1>6. d = q.control /\ x = [q.st EXCEPT !.call = IF Schedulable(q) THEN "pass" ELSE "idle"]
  BY <1>1, <1>5 DEF ProgressFrom
<1>7. Unlike(q.st, x) /\ x.call = IF Schedulable(q) THEN "pass" ELSE "idle"
  BY <1>4, <1>6 DEF Unlike, IsPort
<1>8. x.call # "idle" => x.batch = NoBatch
  BY <1>7 DEF Unlike, Schedulable
<1>9. Onward(cl, q.st, cl, x)
  BY <1>4, <1>7, UnlikeOk
<1>10. SourceOk(cl, x) /\ \A a : LineOk(a, q.control, cl, q.st) => LineOk(a, q.control, cl, x)
  BY <1>4, <1>9 DEF Onward
<1>11. Returned(cl, p.control, p.st, cl, d, x)
  BY <1>3, <1>4, <1>6, <1>8, <1>10 DEF Returned
<1> QED
  BY <1>5, <1>11

LaneOk == limits \in Links /\ IsSeq(control) /\ Len(control) <= ControlRoom

\* A call begins with the lanes as they are.
LEMMA CallOk ==
  ASSUME LaneOk, NEW cl, NEW x, SourceOk(cl, x)
  PROVE  PortOk(cl, Call(x)) /\ Call(x).st = x /\ Call(x).control = control
BY DEF LaneOk, PortOk, Call

\* An operation that goes onward, and then progress.
LEMMA CallReturns ==
  ASSUME LaneOk, NEW cl, NEW st, NEW dl, NEW x, Onward(cl, st, dl, x), Progress(x)
  PROVE  Returned(cl, control, st, dl, control', src')
<1>1. SourceOk(dl, x) /\ \A a : LineOk(a, control, cl, st) => LineOk(a, control, dl, x)
  BY DEF Onward, LaneOk
<1>2. PICK p : p = Call(x)
  OBVIOUS
<1>3. PortOk(dl, p) /\ p.st = x /\ p.control = control
  BY <1>1, <1>2, CallOk
<1>4. ProgressFrom(p) /\ limits \in Links
  BY <1>2 DEF Progress, LaneOk
<1>5. Returned(dl, control, x, dl, control', src')
  BY <1>3, <1>4, ProgressOk
<1> QED
  BY <1>1, <1>5 DEF Returned

\* A submission of the relay returns.
LEMMA SubmitOk ==
  ASSUME LaneOk, NEW cl, SourceOk(cl, src), NEW s \in Surfaces, NEW e, EventOk(e, s, cl[s]), Submit(e)
  PROVE  Returned(cl, control, src, cl, control', src')
<1>1. PICK ready \in BOOLEAN, turned \in SUBSET Turnable(src, e) : Progress(Enqueue(src, e, ready, turned))
  BY DEF Submit
<1>2. e.kind = "commit" => turned \subseteq DOMAIN e.buffers
  BY <1>1 DEF Turnable
<1>3. PICK x : x = Enqueue(src, e, ready, turned)
  OBVIOUS
<1>4. Onward(cl, src, cl, x)
  BY <1>2, <1>3, EnqueueOk
<1>5. Progress(x)
  BY <1>1, <1>3
<1> QED
  BY <1>4, <1>5, CallReturns

\* A call that changes nothing that the invariant speaks of.
LEMMA StillOk ==
  ASSUME LaneOk, NEW cl, SourceOk(cl, src), NEW x, Unlike(src, x), x.call # "idle" => x.batch = NoBatch,
         src' = x, control' = control
  PROVE  Returned(cl, control, src, cl, control', src')
<1>1. Onward(cl, src, cl, x)
  BY UnlikeOk
<1>2. SourceOk(cl, x) /\ \A a : LineOk(a, control, cl, src) => LineOk(a, control, cl, x)
  BY <1>1 DEF Onward, LaneOk
<1> QED
  BY <1>2 DEF Returned, LaneOk

\* A queue from which an event was taken.
LEMMA TailPending ==
  ASSUME NEW q, NEW s, NEW n, PendingOk(q, s, n), q # <<>>
  PROVE  /\ Head(q) = [event |-> Head(q).event, barrier |-> Head(q).barrier] /\ EventOk(Head(q).event, s, n)
         /\ PendingOk(Tail(q), s, n)
<1>1. IsSeq(q) /\ \A i \in 1 .. Len(q) : EntryOk(q[i], s, n)
  BY PendingEntries
<1>2. PICK E : q \in Seq(E)
  BY <1>1 DEF IsSeq
<1>3. Len(q) \in Nat /\ Len(q) > 0 /\ Head(q) = q[1] /\ Tail(q) \in Seq(E) /\ Len(Tail(q)) = Len(q) - 1
  BY <1>2
<1>4. \A i \in 1 .. Len(q) - 1 : Tail(q)[i] = q[i + 1] /\ i + 1 \in 1 .. Len(q)
  BY <1>2, <1>3
<1>5. \A i \in 1 .. Len(Tail(q)) : EntryOk(Tail(q)[i], s, n)
  BY <1>1, <1>3, <1>4
<1>6. PendingOk(Tail(q), s, n)
  BY <1>3, <1>5, PendingEntries DEF IsSeq
<1>7. EntryOk(Head(q), s, n)
  BY <1>1, <1>3
<1> QED
  BY <1>6, <1>7 DEF EntryOk

\* One iteration of schedule_at.
LEMMA PickOk ==
  ASSUME LaneOk, NEW cl, SourceOk(cl, src), src.call # "idle" => src.batch = NoBatch, NEW s \in Surfaces, Pick(s)
  PROVE  Returned(cl, control, src, cl, control', src')
<1>1. src.batch = NoBatch /\ src.pending[s] # <<>> /\ PendingOk(src.pending[s], s, cl[s])
  BY DEF Pick, Candidates, SourceOk
<1>2. PICK e, q : e = Head(src.pending[s]).event /\ q = Tail(src.pending[s])
  OBVIOUS
<1>3. EventOk(e, s, cl[s]) /\ PendingOk(q, s, cl[s])
  BY <1>1, <1>2, TailPending
<1>4. PICK y : y = [src EXCEPT !.pending[s] = q]
  OBVIOUS
<1>5. Onward(cl, src, cl, y) /\ y.batch = NoBatch
  BY <1>1, <1>3, <1>4, PendingBecomes
<1>6. SourceOk(cl, y)
  BY <1>5 DEF Onward
<1>7. PICK turned \in SUBSET Turnable(src, e) :
        LET st == SubmitOrSend(y, e, turned)
        IN IF st.batch # NoBatch THEN Progress(st)
           ELSE src' = [st EXCEPT !.call = "sent"] /\ UNCHANGED <<control, media>>
  BY <1>2, <1>4 DEF Pick
<1>8. e.kind = "commit" => turned \subseteq DOMAIN e.buffers
  BY <1>7 DEF Turnable
<1>9. PICK x : x = SubmitOrSend(y, e, turned)
  OBVIOUS
<1>10. Onward(cl, y, cl, x)
  BY <1>3, <1>5, <1>6, <1>8, <1>9, SubmitOrSendOk
<1>11. Onward(cl, src, cl, x)
  BY <1>5, <1>10, OnwardJoin
<1>12. CASE x.batch # NoBatch
  <2>1. Progress(x)
    BY <1>7, <1>9, <1>12
  <2> QED
    BY <1>11, <2>1, CallReturns
<1>13. CASE x.batch = NoBatch
  <2>1. PICK z : z = [x EXCEPT !.call = "sent"]
    OBVIOUS
  <2>2. src' = z /\ control' = control
    BY <1>7, <1>9, <1>13, <2>1
  <2>3. SourceOk(cl, x) /\ IsPort(x)
    BY <1>10 DEF Onward, SourceOk
  <2>4. Unlike(x, z) /\ z.batch = NoBatch
    BY <1>13, <2>1, <2>3 DEF Unlike, IsPort
  <2>5. Onward(cl, x, cl, z)
    BY <2>3, <2>4, UnlikeOk
  <2>6. Onward(cl, src, cl, z)
    BY <1>11, <2>5, OnwardJoin
  <2>7. SourceOk(cl, z) /\ \A a : LineOk(a, control, cl, src) => LineOk(a, control, cl, z)
    BY <2>6 DEF Onward, LaneOk
  <2>8. Returned(cl, control, src, cl, control, z)
    BY <2>4, <2>7 DEF Returned, LaneOk
  <2> QED
    BY <2>2, <2>8
<1> QED
  BY <1>12, <1>13

\* The end of schedule_at's loop.
LEMMA PassEndsOk ==
  ASSUME LaneOk, NEW cl, SourceOk(cl, src), PassEnds
  PROVE  Returned(cl, control, src, cl, control', src')
<1>1. CASE src.call = "sent"
  <2>1. Progress(src)
    BY <1>1 DEF PassEnds
  <2>2. Onward(cl, src, cl, src)
    BY DEF Onward
  <2> QED
    BY <2>1, <2>2, CallReturns
<1>2. CASE src.call # "sent"
  <2>1. PICK x : x = [src EXCEPT !.call = "idle"]
    OBVIOUS
  <2>2. src' = x /\ control' = control
    BY <1>2, <2>1 DEF PassEnds
  <2>3. Unlike(src, x) /\ x.call = "idle"
    BY <2>1 DEF SourceOk, IsPort, Unlike
  <2> QED
    BY <2>2, <2>3, StillOk
<1> QED
  BY <1>1, <1>2

-----------------------------------------------------------------------------
(* The relay's clients.                                                    *)

Sessions(c) == [s \in Surfaces |-> c[s].session]

ClientRec(r) ==
  /\ r = [alive |-> r.alive, session |-> r.session, rev |-> r.rev, mapped |-> r.mapped, layers |-> r.layers,
          role |-> r.role, meta |-> r.meta]
  /\ IsMap(r.layers) /\ DOMAIN r.layers \subseteq Layers
ClientOk(c) == c = [s \in Surfaces |-> c[s]] /\ \A s \in Surfaces : ClientRec(c[s])

\* What the call under way still has to submit.
ReplayOk(q, cl) == IsSeq(q) /\ \A i \in 1 .. Len(q) : \E s \in Surfaces : EventOk(q[i], s, cl[s])

BoundsOk(b) == b = [sessions |-> b.sessions, resizes |-> b.resizes] /\ b.sessions \in Nat

SourceInv ==
  /\ LaneOk /\ SourceOk(Sessions(client), src) /\ (src.call # "idle" => src.batch = NoBatch)
  /\ ClientOk(client) /\ ReplayOk(replay, Sessions(client)) /\ BoundsOk(bounds)

SourceMoves ==
  /\ Returned(Sessions(client), control, src, Sessions(client'), control', src')
  /\ ClientOk(client') /\ ReplayOk(replay', Sessions(client')) /\ BoundsOk(bounds')

\* At the surface s the map d has r, and elsewhere it is c.
Becomes(c, s, r, d) == d = [c EXCEPT ![s] = r]

\* A surface of the relay changes.
LEMMA ClientBecomes ==
  ASSUME NEW c, ClientOk(c), NEW s \in Surfaces, NEW r, ClientRec(r), NEW d, Becomes(c, s, r, d)
  PROVE  ClientOk(d) /\ Becomes(Sessions(c), s, r.session, Sessions(d))
<1>1. c = [t \in Surfaces |-> c[t]] /\ \A t \in Surfaces : ClientRec(c[t])
  BY DEF ClientOk
<1>2. d = [t \in Surfaces |-> d[t]] /\ \A t \in Surfaces : d[t] = IF t = s THEN r ELSE c[t]
  BY <1>1 DEF Becomes
<1>3. ClientOk(d)
  BY <1>1, <1>2 DEF ClientOk
<1>4. Sessions(d) = [Sessions(c) EXCEPT ![s] = r.session]
  BY <1>2 DEF Sessions
<1>5. Becomes(Sessions(c), s, r.session, Sessions(d))
  BY <1>4 DEF Becomes
<1> QED
  BY <1>3, <1>5

\* A client that changes in place keeps its session.
LEMMA SameSessions ==
  ASSUME NEW c, NEW s \in Surfaces, NEW d, Becomes(Sessions(c), s, c[s].session, d)
  PROVE  d = Sessions(c)
BY DEF Sessions, Becomes

\* Nothing waits to be submitted.
LEMMA NoReplay ==
  ASSUME NEW cl
  PROVE  ReplayOk(<<>>, cl)
BY DEF ReplayOk, IsSeq

\* A call that submits nothing.
LEMMA NothingOk ==
  ASSUME LaneOk, NEW cl, SourceOk(cl, src), Idle, UNCHANGED <<src, control>>
  PROVE  Returned(cl, control, src, cl, control', src')
<1>1. Unlike(src, src) /\ src.call = "idle"
  BY DEF Unlike, SourceOk, Idle
<1> QED
  BY <1>1, StillOk

\* An event of a surface, which is forwarded when the surface is mapped.
LEMMA ForwardOk ==
  ASSUME SourceInv, Turn, NEW s \in Surfaces, NEW e, Hoisted(s) => EventOk(e, s, client[s].session), Forward(s, e)
  PROVE  Returned(Sessions(client), control, src, Sessions(client), control', src')
<1>1. LaneOk /\ SourceOk(Sessions(client), src) /\ Sessions(client)[s] = client[s].session /\ Idle
  BY DEF SourceInv, Sessions, Turn
<1>2. CASE Hoisted(s)
  <2>1. Submit(e)
    BY <1>2 DEF Forward
  <2>2. EventOk(e, s, Sessions(client)[s])
    BY <1>1, <1>2
  <2> QED
    BY <1>1, <2>1, <2>2, SubmitOk
<1>3. CASE ~Hoisted(s)
  <2>1. UNCHANGED <<src, control>>
    BY <1>3 DEF Forward
  <2> QED
    BY <1>1, <2>1, NothingOk
<1> QED
  BY <1>2, <1>3

\* The client changes what it shows, and its session stays.
LEMMA ClientMoves ==
  ASSUME SourceInv, Turn, NEW s \in Surfaces, NEW r, ClientRec(r), r.session = client[s].session,
         client' = [client EXCEPT ![s] = r], UNCHANGED <<replay, bounds>>,
         NEW e, Hoisted(s) => EventOk(e, s, client[s].session), Forward(s, e)
  PROVE  SourceMoves
<1>1. Returned(Sessions(client), control, src, Sessions(client), control', src')
  BY ForwardOk
<1>2. ClientOk(client) /\ BoundsOk(bounds) /\ replay = <<>>
  BY DEF SourceInv, Turn
<1>3. PICK d : d = [client EXCEPT ![s] = r]
  OBVIOUS
<1>4. ClientOk(d) /\ Sessions(d) = Sessions(client)
  <2>1. Becomes(client, s, r, d)
    BY <1>3 DEF Becomes
  <2>2. ClientOk(d) /\ Becomes(Sessions(client), s, r.session, Sessions(d))
    BY <1>2, <2>1, ClientBecomes
  <2> QED
    BY <2>2, SameSessions
<1>5. client' = d /\ replay' = <<>> /\ bounds' = bounds
  BY <1>2, <1>3
<1> QED
  BY <1>1, <1>2, <1>4, <1>5, NoReplay DEF SourceMoves

\* observe, for a commit.
LEMMA ClientCommitOk ==
  ASSUME SourceInv, NEW s \in Surfaces, NEW shape \in Shapes,
         ClientCommit(s, shape.layers, shape.replaced, shape.mapped)
  PROVE  SourceMoves
<1>1. PICK inv, rep, mapped : inv = shape.layers /\ rep = shape.replaced /\ mapped = shape.mapped
  OBVIOUS
<1>2. rep \subseteq inv /\ inv \subseteq Layers
  BY <1>1, SourceAssumption DEF SourceInv, LaneOk, Shapes
<1>3. PICK rev, now : /\ rev = client[s].rev + 1
                      /\ now = [l \in inv |-> IF l \in rep THEN rev ELSE client[s].layers[l]]
  OBVIOUS
<1>4. PICK buffers, want : buffers = [l \in rep |-> rev] /\ want = [layers |-> now, role |-> client[s].role]
  OBVIOUS
<1>5. PICK e : e = Commit(s, client[s].session, rev, mapped, inv, buffers, want)
  OBVIOUS
<1>6. /\ Turn /\ client' = [client EXCEPT ![s].rev = rev, ![s].mapped = mapped, ![s].layers = now]
      /\ Forward(s, e) /\ UNCHANGED <<replay, bounds>>
  BY <1>1, <1>3, <1>4, <1>5 DEF ClientCommit
<1>7. ClientRec(client[s]) /\ client = [t \in Surfaces |-> client[t]]
  BY DEF SourceInv, ClientOk
<1>8. PICK r : r = [client[s] EXCEPT !.rev = rev, !.mapped = mapped, !.layers = now]
  OBVIOUS
<1>9. client' = [client EXCEPT ![s] = r]
  BY <1>6, <1>7, <1>8
<1>10. r = [alive |-> client[s].alive, session |-> client[s].session, rev |-> rev, mapped |-> mapped, layers |-> now,
            role |-> client[s].role, meta |-> client[s].meta]
  BY <1>7, <1>8 DEF ClientRec
<1>11. ClientRec(r) /\ r.session = client[s].session
  BY <1>2, <1>3, <1>10 DEF ClientRec, IsMap
<1>12. IsMap(buffers) /\ DOMAIN buffers = rep
  BY <1>4 DEF IsMap
<1>13. Hoisted(s) => EventOk(e, s, client[s].session)
  BY <1>2, <1>5, <1>12 DEF EventOk, Commit, Hoisted
<1> QED
  BY <1>6, <1>9, <1>11, <1>13, ClientMoves

\* A role or metadata record may be submitted.
LEMMA RecordOk ==
  ASSUME NEW k \in {"role", "metadata"}, NEW s, NEW n, n # 0, NEW v
  PROVE  EventOk(Record(k, s, n, v), s, n)
BY DEF EventOk, Record

\* observe, for a role.
LEMMA ClientRoleOk ==
  ASSUME SourceInv, NEW s \in Surfaces, ClientRole(s)
  PROVE  SourceMoves
<1>1. ClientRec(client[s]) /\ client = [t \in Surfaces |-> client[t]]
  BY DEF SourceInv, ClientOk
<1>2. PICK r : r = [client[s] EXCEPT !.role = @ + 1]
  OBVIOUS
<1>3. PICK e : e = Record("role", s, client[s].session, client[s].role + 1)
  OBVIOUS
<1>4. Turn /\ client' = [client EXCEPT ![s] = r] /\ Forward(s, e) /\ UNCHANGED <<replay, bounds>>
  BY <1>1, <1>2, <1>3 DEF ClientRole
<1>5. ClientRec(r) /\ r.session = client[s].session
  BY <1>1, <1>2 DEF ClientRec, IsMap
<1>6. Hoisted(s) => EventOk(e, s, client[s].session)
  BY <1>3, RecordOk DEF Hoisted
<1> QED
  BY <1>4, <1>5, <1>6, ClientMoves

\* observe, for metadata.
LEMMA ClientMetadataOk ==
  ASSUME SourceInv, NEW s \in Surfaces, ClientMetadata(s)
  PROVE  SourceMoves
<1>1. ClientRec(client[s]) /\ client = [t \in Surfaces |-> client[t]]
  BY DEF SourceInv, ClientOk
<1>2. PICK r : r = [client[s] EXCEPT !.meta = @ + 1]
  OBVIOUS
<1>3. PICK e : e = Record("metadata", s, client[s].session, client[s].meta + 1)
  OBVIOUS
<1>4. Turn /\ client' = [client EXCEPT ![s] = r] /\ Forward(s, e) /\ UNCHANGED <<replay, bounds>>
  BY <1>1, <1>2, <1>3 DEF ClientMetadata
<1>5. ClientRec(r) /\ r.session = client[s].session
  BY <1>1, <1>2 DEF ClientRec, IsMap
<1>6. Hoisted(s) => EventOk(e, s, client[s].session)
  BY <1>3, RecordOk DEF Hoisted
<1> QED
  BY <1>4, <1>5, <1>6, ClientMoves

\* The session of a surface ends.
LEMMA SessionEnds ==
  ASSUME SourceInv, Turn, NEW s \in Surfaces, NEW r, ClientRec(r), r.session = 0,
         client' = [client EXCEPT ![s] = r], UNCHANGED <<replay, bounds>>,
         NEW dl, dl = [Sessions(client) EXCEPT ![s] = 0],
         Returned(Sessions(client), control, src, dl, control', src')
  PROVE  SourceMoves
<1>1. ClientOk(client) /\ BoundsOk(bounds) /\ replay = <<>>
  BY DEF SourceInv, Turn
<1>2. PICK d : d = [client EXCEPT ![s] = r]
  OBVIOUS
<1>3. Becomes(client, s, r, d)
  BY <1>2 DEF Becomes
<1>4. ClientOk(d) /\ Becomes(Sessions(client), s, r.session, Sessions(d))
  BY <1>1, <1>3, ClientBecomes
<1>5. Sessions(d) = dl
  BY <1>4 DEF Becomes
<1>6. client' = d /\ replay' = <<>> /\ bounds' = bounds
  BY <1>1, <1>2
<1> QED
  BY <1>1, <1>4, <1>5, <1>6, NoReplay DEF SourceMoves

\* A client whose session ends.
LEMMA EndedRec ==
  ASSUME NEW r, ClientRec(r), NEW w, w = [r EXCEPT !.session = 0] \/ w = [r EXCEPT !.alive = FALSE, !.session = 0]
  PROVE  ClientRec(w) /\ w.session = 0
BY DEF ClientRec, IsMap

\* observe, for a surface that is destroyed.
LEMMA ClientDestroysOk ==
  ASSUME SourceInv, NEW s \in Surfaces, ClientDestroys(s)
  PROVE  SourceMoves
<1>1. ClientRec(client[s]) /\ client = [t \in Surfaces |-> client[t]]
  BY DEF SourceInv, ClientOk
<1>2. PICK r : r = [client[s] EXCEPT !.alive = FALSE, !.session = 0]
  OBVIOUS
<1>3. PICK e : e = Record("destroyed", s, client[s].session, 0)
  OBVIOUS
<1>4. Turn /\ client' = [client EXCEPT ![s] = r] /\ Forward(s, e) /\ UNCHANGED <<replay, bounds>>
  BY <1>1, <1>2, <1>3 DEF ClientDestroys
<1>5. ClientRec(r) /\ r.session = 0
  BY <1>1, <1>2, EndedRec
<1>6. LaneOk /\ Idle /\ SourceOk(Sessions(client), src) /\ Sessions(client)[s] = client[s].session
  BY <1>4 DEF SourceInv, Turn, Sessions
<1>7. PICK cl, dl : cl = Sessions(client) /\ dl = [cl EXCEPT ![s] = 0]
  OBVIOUS
<1>8. IsSessions(cl)
  BY <1>7 DEF IsSessions, Sessions
<1>9. Returned(cl, control, src, dl, control', src')
  <2>1. CASE Hoisted(s)
    <3>1. PICK ready \in BOOLEAN, turned \in SUBSET Turnable(src, e) : Progress(Enqueue(src, e, ready, turned))
      BY <1>4, <2>1 DEF Forward, Submit
    <3>2. e.kind = "destroyed" /\ e.surface = s
      BY <1>3 DEF Record
    <3>3. PICK x : x = Send(CancelEncode(src, s), e)
      OBVIOUS
    <3>4. Enqueue(src, e, ready, turned) = x
      BY <3>2, <3>3 DEF Enqueue, Unmaps
    <3>5. e = Record("destroyed", s, cl[s], 0)
      BY <1>3, <1>6, <1>7
    <3>6. Onward(cl, src, dl, x)
      BY <1>6, <1>7, <1>8, <3>3, <3>5, DestroyOk
    <3>7. Progress(x)
      BY <3>1, <3>4
    <3> QED
      BY <1>6, <3>6, <3>7, CallReturns
  <2>2. CASE ~Hoisted(s)
    <3>1. UNCHANGED <<src, control>>
      BY <1>4, <2>2 DEF Forward
    <3>2. dl = cl
      BY <1>6, <1>7, <1>8, <2>2 DEF Hoisted, IsSessions
    <3> QED
      BY <1>6, <1>7, <3>1, <3>2, NothingOk
  <2> QED
    BY <2>1, <2>2
<1> QED
  BY <1>4, <1>5, <1>7, <1>9, SessionEnds

\* unmap withdraws the surface.
LEMMA WithdrawStepOk ==
  ASSUME SourceInv, NEW s \in Surfaces, Withdraw(s)
  PROVE  SourceMoves
<1>1. ClientRec(client[s]) /\ client = [t \in Surfaces |-> client[t]]
  BY DEF SourceInv, ClientOk
<1>2. PICK r : r = [client[s] EXCEPT !.session = 0]
  OBVIOUS
<1>3. Turn /\ client' = [client EXCEPT ![s] = r] /\ Progress(WithdrawSurface(src, s)) /\ UNCHANGED <<replay, bounds>>
  BY <1>1, <1>2 DEF Withdraw
<1>4. ClientRec(r) /\ r.session = 0
  BY <1>1, <1>2, EndedRec
<1>5. LaneOk /\ SourceOk(Sessions(client), src)
  BY DEF SourceInv
<1>6. PICK cl, dl, n : cl = Sessions(client) /\ dl = [cl EXCEPT ![s] = 0] /\ n = client[s].session
  OBVIOUS
<1>7. IsSessions(cl)
  BY <1>6 DEF IsSessions, Sessions
<1>8. PICK x : x = CancelEncode(Send(src, Record("withdraw", s, n, 0)), s)
  OBVIOUS
<1>9. Onward(cl, src, dl, x)
  BY <1>5, <1>6, <1>7, <1>8, WithdrawOk
<1>10. Progress(x)
  BY <1>3, <1>6, <1>8 DEF WithdrawSurface
<1>11. Returned(cl, control, src, dl, control', src')
  BY <1>5, <1>9, <1>10, CallReturns
<1> QED
  BY <1>3, <1>4, <1>6, <1>11, SessionEnds

\* Events to submit, and others after them.
LEMMA ReplayJoin ==
  ASSUME NEW cl, NEW q, NEW p, ReplayOk(q, cl), ReplayOk(p, cl)
  PROVE  ReplayOk(q \o p, cl)
<1>1. IsSeq(q) /\ IsSeq(p)
  BY DEF ReplayOk
<1>2. PICK c : c = q \o p
  OBVIOUS
<1>3. Joined(c, q, p) /\ Len(q) \in Nat /\ Len(p) \in Nat
  BY <1>1, <1>2, ConcatJoined, SeqFacts
<1>4. ASSUME NEW i \in 1 .. Len(c)
      PROVE  \E s \in Surfaces : EventOk(c[i], s, cl[s])
  <2>1. CASE i <= Len(q)
    BY <1>3, <2>1 DEF ReplayOk, Joined
  <2>2. CASE i > Len(q)
    <3>1. PICK k \in 1 .. Len(p) : i = Len(q) + k
      <4>1. i - Len(q) \in 1 .. Len(p) /\ i = Len(q) + (i - Len(q))
        BY <1>3, <2>2 DEF Joined
      <4> QED
        BY <4>1
    <3> QED
      BY <1>3, <3>1 DEF ReplayOk, Joined
  <2> QED
    BY <1>3, <2>1, <2>2 DEF Joined
<1> QED
  BY <1>2, <1>3, <1>4 DEF ReplayOk, Joined

\* One event to submit.
LEMMA ReplayOne ==
  ASSUME NEW cl, NEW s \in Surfaces, NEW e, EventOk(e, s, cl[s])
  PROVE  ReplayOk(<<e>>, cl)
BY OneFacts DEF ReplayOk

\* What map submits is right for the session that it maps.
LEMMA CachedOk ==
  ASSUME NEW s \in Surfaces, ClientRec(client[s]), NEW n, n # 0, NEW cl, cl[s] = n
  PROVE  ReplayOk(Cached(s, n), cl)
<1>1. PICK c : c = client[s]
  OBVIOUS
<1>2. PICK a, b : a = Record("role", s, n, c.role) /\ b = Record("metadata", s, n, c.meta)
  OBVIOUS
<1>3. PICK m : m = Commit(s, n, c.rev, c.mapped, DOMAIN c.layers, c.layers, [layers |-> c.layers, role |-> c.role])
  OBVIOUS
<1>4. EventOk(a, s, n) /\ EventOk(b, s, n)
  BY <1>2, RecordOk
<1>5. EventOk(m, s, n)
  BY <1>1, <1>3 DEF EventOk, Commit, ClientRec
<1>6. ReplayOk(<<m>>, cl) /\ ReplayOk(<<>>, cl)
  BY <1>5, ReplayOne, NoReplay
<1>7. <<a, b>> \in Seq({a, b}) /\ Len(<<a, b>>) = 2 /\ <<a, b>>[1] = a /\ <<a, b>>[2] = b
  OBVIOUS
<1>8. ReplayOk(<<a, b>>, cl)
  <2>1. IsSeq(<<a, b>>)
    BY <1>7 DEF IsSeq
  <2>2. \A i \in 1 .. 2 : EventOk(<<a, b>>[i], s, cl[s])
    BY <1>4, <1>7
  <2> QED
    BY <1>7, <2>1, <2>2 DEF ReplayOk
<1>9. PICK p : p = IF c.rev = 0 THEN <<>> ELSE <<m>>
  OBVIOUS
<1>10. ReplayOk(p, cl)
  BY <1>6, <1>9
<1>11. Cached(s, n) = <<a, b>> \o p
  BY <1>1, <1>2, <1>3, <1>9 DEF Cached
<1> QED
  BY <1>8, <1>10, <1>11, ReplayJoin

\* map announces the session and leaves the cached events to submit.
LEMMA MapStepOk ==
  ASSUME SourceInv, NEW s \in Surfaces, Map(s)
  PROVE  SourceMoves
<1>1. ClientRec(client[s]) /\ client = [t \in Surfaces |-> client[t]] /\ ClientOk(client) /\ BoundsOk(bounds)
  BY DEF SourceInv, ClientOk
<1>2. PICK n, b : n = bounds.sessions + 1 /\ b = [bounds EXCEPT !.sessions = @ + 1]
  OBVIOUS
<1>3. b.sessions = n /\ n # 0 /\ BoundsOk(b) /\ bounds' = b
  BY <1>1, <1>2 DEF BoundsOk, Map
<1>4. PICK r : r = [client[s] EXCEPT !.session = n]
  OBVIOUS
<1>5. PICK x : x = Send(src, Record("map", s, n, 0))
  OBVIOUS
<1>6. client' = [client EXCEPT ![s] = r] /\ replay' = Cached(s, n) /\ Progress(x) /\ ~Hoisted(s)
  BY <1>1, <1>3, <1>4, <1>5 DEF Map
<1>7. ClientRec(r) /\ r.session = n
  BY <1>1, <1>4 DEF ClientRec, IsMap
<1>8. LaneOk /\ SourceOk(Sessions(client), src)
  BY DEF SourceInv
<1>9. PICK cl, dl : cl = Sessions(client) /\ dl = [cl EXCEPT ![s] = n]
  OBVIOUS
<1>10. IsSessions(cl) /\ cl[s] = 0 /\ dl[s] = n
  BY <1>6, <1>9 DEF IsSessions, Sessions, Hoisted
<1>11. Onward(cl, src, dl, x)
  BY <1>5, <1>8, <1>9, <1>10, MapOk
<1>12. Returned(cl, control, src, dl, control', src')
  BY <1>6, <1>8, <1>11, CallReturns
<1>13. PICK d : d = [client EXCEPT ![s] = r]
  OBVIOUS
<1>14. Becomes(client, s, r, d)
  BY <1>13 DEF Becomes
<1>15. ClientOk(d) /\ Becomes(Sessions(client), s, r.session, Sessions(d))
  BY <1>1, <1>7, <1>14, ClientBecomes
<1>16. Sessions(d) = dl
  BY <1>7, <1>9, <1>15 DEF Becomes
<1>17. ReplayOk(Cached(s, n), dl)
  BY <1>1, <1>3, <1>10, CachedOk
<1> QED
  BY <1>3, <1>6, <1>9, <1>12, <1>13, <1>15, <1>16, <1>17 DEF SourceMoves

\* One of the events that map submits.
LEMMA ReplayStepOk ==
  ASSUME SourceInv, Replay
  PROVE  SourceMoves
<1>1. PICK cl, q, e : cl = Sessions(client) /\ q = replay /\ e = Head(replay)
  OBVIOUS
<1>2. LaneOk /\ SourceOk(cl, src) /\ ReplayOk(q, cl) /\ ClientOk(client) /\ BoundsOk(bounds)
  BY <1>1 DEF SourceInv
<1>3. q # <<>> /\ Submit(e) /\ replay' = Tail(q) /\ client' = client /\ bounds' = bounds
  BY <1>1 DEF Replay
<1>4. PICK E : q \in Seq(E)
  BY <1>2 DEF ReplayOk, IsSeq
<1>5. Len(q) \in Nat /\ Len(q) > 0 /\ e = q[1] /\ Tail(q) \in Seq(E) /\ Len(Tail(q)) = Len(q) - 1
  BY <1>1, <1>3, <1>4
<1>6. \A i \in 1 .. Len(q) - 1 : Tail(q)[i] = q[i + 1] /\ i + 1 \in 1 .. Len(q)
  BY <1>4, <1>5
<1>7. ReplayOk(Tail(q), cl)
  BY <1>2, <1>5, <1>6 DEF ReplayOk, IsSeq
<1>8. PICK s \in Surfaces : EventOk(e, s, cl[s])
  BY <1>2, <1>5 DEF ReplayOk
<1>9. Returned(cl, control, src, cl, control', src')
  BY <1>2, <1>3, <1>8, SubmitOk
<1> QED
  BY <1>1, <1>2, <1>3, <1>7, <1>9 DEF SourceMoves

\* The port after its poll.
LEMMA PolledOk ==
  ASSUME LaneOk, NEW cl, SourceOk(cl, src), NEW done, CanPoll(done), NEW p, p = Polled(done)
  PROVE  PortOk(cl, p) /\ \A a : LineOk(a, control, cl, src) => LineOk(a, p.control, cl, p.st)
<1>1. PICK x : x = IF done THEN Completed(src) ELSE src
  OBVIOUS
<1>2. Onward(cl, src, cl, x)
  <2>1. CASE done
    <3>1. src.batch # NoBatch /\ x = Completed(src)
      BY <1>1, <2>1 DEF CanPoll
    <3> QED
      BY <3>1, CompletedOk
  <2>2. CASE ~done
    BY <1>1, <2>2 DEF Onward
  <2> QED
    BY <2>1, <2>2
<1>3. SourceOk(cl, x) /\ \A a : LineOk(a, control, cl, src) => LineOk(a, control, cl, x)
  BY <1>2 DEF Onward, LaneOk
<1>4. PICK y : y = Call(x)
  OBVIOUS
<1>5. PortOk(cl, y) /\ y.st = x /\ y.control = control /\ limits \in Links
  BY <1>3, <1>4, CallOk DEF LaneOk
<1>6. p = Flush(y)
  BY <1>1, <1>4 DEF Polled
<1>7. Leads(cl, y, cl, p)
  BY <1>5, <1>6, FlushOk
<1> QED
  BY <1>3, <1>5, <1>7 DEF Leads

\* The end of a poll, which leaves the sessions as they are.
LEMMA PollReturns ==
  ASSUME SourceInv, NEW q, PortOk(Sessions(client), q),
         \A a : LineOk(a, control, Sessions(client), src) => LineOk(a, q.control, Sessions(client), q.st),
         ProgressFrom(q), UNCHANGED <<client, replay>>, BoundsOk(bounds')
  PROVE  SourceMoves
<1>1. PICK cl : cl = Sessions(client)
  OBVIOUS
<1>2. limits \in Links /\ ClientOk(client) /\ ReplayOk(replay, cl)
  BY <1>1 DEF SourceInv, LaneOk
<1>3. Returned(cl, q.control, q.st, cl, control', src')
  BY <1>1, <1>2, ProgressOk
<1>4. Returned(cl, control, src, cl, control', src')
  BY <1>1, <1>3 DEF Returned
<1> QED
  BY <1>1, <1>2, <1>4 DEF SourceMoves

\* poll, without a request of the peer.
LEMMA SourcePollOk ==
  ASSUME SourceInv, NEW done, SourcePoll(done)
  PROVE  SourceMoves
<1>1. PICK cl, p : cl = Sessions(client) /\ p = Polled(done)
  OBVIOUS
<1>2. LaneOk /\ SourceOk(cl, src) /\ CanPoll(done) /\ ProgressFrom(p) /\ UNCHANGED <<client, replay, bounds>>
  BY <1>1 DEF SourceInv, SourcePoll
<1>3. PortOk(cl, p) /\ \A a : LineOk(a, control, cl, src) => LineOk(a, p.control, cl, p.st)
  BY <1>1, <1>2, PolledOk
<1>4. BoundsOk(bounds')
  BY <1>2 DEF SourceInv
<1> QED
  BY <1>1, <1>2, <1>3, <1>4, PollReturns

\* poll, with a request that begins or ends a resize.
LEMMA PollConfigureOk ==
  ASSUME SourceInv, NEW done, NEW s \in Surfaces, PollConfigure(done, s)
  PROVE  SourceMoves
<1>1. PICK cl, p : cl = Sessions(client) /\ p = Polled(done)
  OBVIOUS
<1>2. PICK q : q = [p EXCEPT !.st.resizing = IF s \in @ THEN @ \ {s} ELSE @ \union {s}]
  OBVIOUS
<1>3. LaneOk /\ SourceOk(cl, src) /\ CanPoll(done) /\ ProgressFrom(q) /\ UNCHANGED <<client, replay>>
  BY <1>1, <1>2 DEF SourceInv, PollConfigure
<1>4. PortOk(cl, p) /\ \A a : LineOk(a, control, cl, src) => LineOk(a, p.control, cl, p.st)
  BY <1>1, <1>3, PolledOk
<1>5. PICK z : z = IF s \in p.st.resizing THEN p.st.resizing \ {s} ELSE p.st.resizing \union {s}
  OBVIOUS
<1>6. PICK x : x = [p.st EXCEPT !.resizing = z]
  OBVIOUS
<1>7. /\ p = [st |-> p.st, control |-> p.control, media |-> p.media] /\ IsPort(p.st) /\ SourceOk(cl, p.st)
      /\ IsSeq(p.control)
  BY <1>4 DEF PortOk, SourceOk
<1>8. q.st = x /\ q = [p EXCEPT !.st = q.st]
  BY <1>2, <1>5, <1>6, <1>7
<1>9. Unlike(p.st, x)
  BY <1>6, <1>7 DEF Unlike, IsPort
<1>10. Onward(cl, p.st, cl, q.st)
  BY <1>7, <1>8, <1>9, UnlikeOk
<1>11. Leads(cl, p, cl, q)
  BY <1>4, <1>8, <1>10, OnwardLeads
<1>12. PortOk(cl, q) /\ \A a : LineOk(a, control, cl, src) => LineOk(a, q.control, cl, q.st)
  BY <1>4, <1>11 DEF Leads
<1>13. BoundsOk(bounds')
  BY DEF SourceInv, PollConfigure, BoundsOk
<1> QED
  BY <1>1, <1>3, <1>12, <1>13, PollReturns

\* Every step of the source keeps the source and the line right.
LEMMA SourceNextOk ==
  ASSUME SourceInv, SourceNext
  PROVE  SourceMoves
<1>1. PICK cl : cl = Sessions(client)
  OBVIOUS
<1>2. /\ LaneOk /\ SourceOk(cl, src) /\ (src.call # "idle" => src.batch = NoBatch)
      /\ ClientOk(client) /\ ReplayOk(replay, cl) /\ BoundsOk(bounds)
  BY <1>1 DEF SourceInv
<1>3. CASE \E s \in Surfaces : Pick(s)
  <2>1. PICK s \in Surfaces : Pick(s)
    BY <1>3
  <2>2. Returned(cl, control, src, cl, control', src')
    BY <1>2, <2>1, PickOk
  <2>3. UNCHANGED <<client, replay, bounds>>
    BY <2>1 DEF Pick
  <2> QED
    BY <1>1, <1>2, <2>2, <2>3 DEF SourceMoves
<1>4. CASE PassEnds
  <2>1. Returned(cl, control, src, cl, control', src')
    BY <1>2, <1>4, PassEndsOk
  <2>2. UNCHANGED <<client, replay, bounds>>
    BY <1>4 DEF PassEnds
  <2> QED
    BY <1>1, <1>2, <2>1, <2>2 DEF SourceMoves
<1>5. CASE \E s \in Surfaces, shape \in Shapes : ClientCommit(s, shape.layers, shape.replaced, shape.mapped)
  BY <1>5, ClientCommitOk
<1>6. CASE \E s \in Surfaces : ClientRole(s) \/ ClientMetadata(s) \/ ClientDestroys(s) \/ Map(s) \/ Withdraw(s)
  BY <1>6, ClientRoleOk, ClientMetadataOk, ClientDestroysOk, MapStepOk, WithdrawStepOk
<1>7. CASE \E s \in Surfaces : \E done \in BOOLEAN : PollConfigure(done, s)
  BY <1>7, PollConfigureOk
<1>8. CASE Replay
  BY <1>8, ReplayStepOk
<1>9. CASE \E done \in BOOLEAN : SourcePoll(done)
  BY <1>9, SourcePollOk
<1> QED
  BY <1>3, <1>4, <1>5, <1>6, <1>7, <1>8, <1>9 DEF SourceNext

-----------------------------------------------------------------------------
(* The destination: what is queued, and the contexts that are kept.        *)

IsEnd(d) ==
  d = [queues |-> d.queues, arrived |-> d.arrived, decoded |-> d.decoded, jobs |-> d.jobs, tombs |-> d.tombs,
       streams |-> d.streams, retiring |-> d.retiring, decoders |-> d.decoders, call |-> d.call, error |-> d.error]

IsView(r) ==
  r = [session |-> r.session, rev |-> r.rev, mapped |-> r.mapped, layers |-> r.layers, role |-> r.role,
       meta |-> r.meta, got |-> r.got, want |-> r.want]
ViewOk(v) == v = [s \in Surfaces |-> v[s]] /\ \A s \in Surfaces : IsView(v[s])

\* An event that is queued for a surface in its session n.
Fits(e, n) ==
  /\ e.kind \in {"role", "metadata", "commit"} /\ e.session = n /\ n # 0
  /\ e.kind = "commit" => DOMAIN e.buffers \subseteq Layers

QueuesOk(Q, v) ==
  /\ Q = [s \in Surfaces |-> Q[s]]
  /\ \A s \in Surfaces : IsSeq(Q[s]) /\ \A i \in 1 .. Len(Q[s]) : Fits(Q[s][i], v[s].session)

\* Two queued events have no frame in common.
Distinct(Q) ==
  \A s, t \in Surfaces : \A i \in 1 .. Len(Q[s]), j \in 1 .. Len(Q[t]) :
    s # t \/ i # j => FramesOf(Q[s][i]) \cap FramesOf(Q[t][j]) = {}

\* The generations that a stream or the retirement accounts for.
Accounted(d) == {d.streams[k] : k \in DOMAIN d.streams} \union d.retiring

\* A context that is there, or will be there for a queued frame.
ContextsOk(d) ==
  /\ DOMAIN d.decoders \subseteq Accounted(d)
  /\ \A s \in Surfaces : \A i \in 1 .. Len(d.queues[s]) : \A f \in FramesOf(d.queues[s][i]) :
       f \in d.decoded \/ Generation(f) \in Accounted(d)

DestinationOk(d, v) ==
  IsEnd(d) /\ ViewOk(v) /\ QueuesOk(d.queues, v) /\ Distinct(d.queues) /\ ContextsOk(d)

\* The queued frames are in U.
Contained(Q, U) == \A s \in Surfaces : \A i \in 1 .. Len(Q[s]) : FramesOf(Q[s][i]) \subseteq U

\* The queues P keep events of Q, in their order.
Fewer(P, Q) == P = [s \in Surfaces |-> P[s]] /\ \A s \in Surfaces : \E h : Picks(P[s], Q[s], h)

\* A queue keeps all of itself.
LEMMA PicksSelf ==
  ASSUME NEW q, IsSeq(q)
  PROVE  \E h : Picks(q, q, h)
<1>1. Len(q) \in Nat
  BY SeqFacts
<1> DEFINE h == [i \in 1 .. Len(q) |-> i]
<1>2. \A i \in 1 .. Len(q) : h[i] = i
  OBVIOUS
<1> HIDE DEF h
<1>3. Picks(q, q, h)
  BY <1>1, <1>2 DEF Picks
<1> QED
  BY <1>3

\* An empty queue keeps nothing of any.
LEMMA PicksNone ==
  ASSUME NEW q
  PROVE  \E h : Picks(<<>>, q, h)
<1>1. IsSeq(<<>>) /\ Len(<<>>) = 0
  BY DEF IsSeq
<1>2. Picks(<<>>, q, <<>>)
  BY <1>1 DEF Picks
<1> QED
  BY <1>2

\* What is left after n elements.
LEMMA PicksRest ==
  ASSUME NEW q, IsSeq(q), NEW n \in 0 .. Len(q)
  PROVE  \E h : Picks(SubSeq(q, n + 1, Len(q)), q, h)
<1>1. PICK w, k : w = SubSeq(q, n + 1, Len(q)) /\ k = Len(q) - n
  OBVIOUS
<1>2. Len(q) \in Nat /\ k \in Nat
  BY <1>1, SeqFacts
<1>3. IsSeq(w) /\ Len(w) = k /\ \A i \in 1 .. k : w[i] = q[n + i]
  BY <1>1, <1>2, PartFacts
<1> DEFINE h == [i \in 1 .. k |-> n + i]
<1>4. \A i \in 1 .. k : h[i] = n + i
  OBVIOUS
<1> HIDE DEF h
<1>5. \A i \in 1 .. k : n + i \in 1 .. Len(q)
  BY <1>1, <1>2
<1>6. Picks(w, q, h)
  BY <1>2, <1>3, <1>4, <1>5 DEF Picks
<1> QED
  BY <1>1, <1>6

\* Two places that Picks has kept apart.
LEMMA PicksApart ==
  ASSUME NEW p, NEW q, NEW h, Picks(p, q, h), NEW i \in 1 .. Len(p), NEW j \in 1 .. Len(p), i # j
  PROVE  h[i] # h[j]
<1>1. Len(p) \in Nat /\ h[i] \in 1 .. Len(q) /\ h[j] \in 1 .. Len(q)
  BY SeqFacts DEF Picks
<1>2. i < j \/ j < i
  BY <1>1
<1>3. CASE i < j
  <2>1. h[i] < h[j]
    BY <1>3 DEF Picks
  <2> QED
    BY <1>1, <2>1
<1>4. CASE j < i
  <2>1. h[j] < h[i]
    BY <1>4 DEF Picks
  <2> QED
    BY <1>1, <2>1
<1> QED
  BY <1>2, <1>3, <1>4

\* Events that leave a queue leave the others without a common frame.
LEMMA FewerDistinct ==
  ASSUME NEW P, NEW Q, Fewer(P, Q), Distinct(Q)
  PROVE  Distinct(P)
<1> SUFFICES ASSUME NEW s \in Surfaces, NEW t \in Surfaces, NEW i \in 1 .. Len(P[s]), NEW j \in 1 .. Len(P[t]),
                    s # t \/ i # j
             PROVE  FramesOf(P[s][i]) \cap FramesOf(P[t][j]) = {}
  BY DEF Distinct
<1>1. PICK h : Picks(P[s], Q[s], h)
  BY DEF Fewer
<1>2. PICK g : Picks(P[t], Q[t], g)
  BY DEF Fewer
<1>3. h[i] \in 1 .. Len(Q[s]) /\ P[s][i] = Q[s][h[i]] /\ g[j] \in 1 .. Len(Q[t]) /\ P[t][j] = Q[t][g[j]]
  BY <1>1, <1>2 DEF Picks
<1>4. CASE s # t
  BY <1>3, <1>4, ZenonT(60) DEF Distinct
<1>5. CASE s = t
  <2>1. h[j] \in 1 .. Len(Q[s]) /\ P[s][j] = Q[s][h[j]]
    BY <1>1, <1>5 DEF Picks
  <2>2. h[i] # h[j]
    BY <1>1, <1>5, PicksApart
  <2>3. FramesOf(Q[s][h[i]]) \cap FramesOf(Q[s][h[j]]) = {}
    BY <1>3, <2>1, <2>2 DEF Distinct
  <2> QED
    BY <1>3, <1>5, <2>1, <2>3
<1> QED
  BY <1>4, <1>5

\* Events leave the queues of d, or contexts are accounted for that were not.
Shrinks(d, v, x, w) ==
  /\ IsEnd(x) /\ ViewOk(w) /\ Fewer(x.queues, d.queues)
  /\ Accounted(d) \subseteq Accounted(x) /\ DOMAIN x.decoders \subseteq DOMAIN d.decoders
  /\ \A s \in Surfaces : \A i \in 1 .. Len(x.queues[s]) :
       FramesOf(x.queues[s][i]) \cap d.decoded \subseteq x.decoded /\ w[s].session = v[s].session

\* The destination stays right when its queues shrink.
LEMMA ShrinksOk ==
  ASSUME NEW d, NEW v, DestinationOk(d, v), NEW x, NEW w, Shrinks(d, v, x, w)
  PROVE  DestinationOk(x, w) /\ \A U : Contained(d.queues, U) => Contained(x.queues, U)
<1>1. PICK Q, P : Q = d.queues /\ P = x.queues
  OBVIOUS
<1>2. /\ IsEnd(x) /\ ViewOk(w) /\ Fewer(P, Q) /\ QueuesOk(Q, v) /\ Distinct(Q)
      /\ Accounted(d) \subseteq Accounted(x) /\ DOMAIN x.decoders \subseteq DOMAIN d.decoders
  BY <1>1 DEF Shrinks, DestinationOk
<1>3. \A s \in Surfaces : \A i \in 1 .. Len(P[s]) :
        FramesOf(P[s][i]) \cap d.decoded \subseteq x.decoded /\ w[s].session = v[s].session
  BY <1>1 DEF Shrinks
<1>4. \A s \in Surfaces : \A i \in 1 .. Len(P[s]) : \E j \in 1 .. Len(Q[s]) : P[s][i] = Q[s][j]
  BY <1>2 DEF Fewer, Picks
<1>5. QueuesOk(P, w)
  <2>1. P = [s \in Surfaces |-> P[s]] /\ \A s \in Surfaces : IsSeq(P[s])
    BY <1>2 DEF Fewer, Picks
  <2>2. \A s \in Surfaces : \A i \in 1 .. Len(P[s]) : Fits(P[s][i], w[s].session)
    BY <1>2, <1>3, <1>4 DEF QueuesOk
  <2> QED
    BY <2>1, <2>2 DEF QueuesOk
<1>6. Distinct(P)
  BY <1>2, FewerDistinct
<1>7. ContextsOk(x)
  <2>1. DOMAIN x.decoders \subseteq Accounted(x)
    BY <1>2 DEF DestinationOk, ContextsOk
  <2>2. ASSUME NEW s \in Surfaces, NEW i \in 1 .. Len(P[s]), NEW f \in FramesOf(P[s][i]), f \notin x.decoded
        PROVE  Generation(f) \in Accounted(x)
    <3>1. PICK j \in 1 .. Len(Q[s]) : P[s][i] = Q[s][j]
      BY <1>4
    <3>2. f \notin d.decoded
      BY <1>3, <2>2
    <3>3. Generation(f) \in Accounted(d)
      BY <1>1, <3>1, <3>2 DEF DestinationOk, ContextsOk
    <3> QED
      BY <1>2, <3>3
  <2> QED
    BY <1>1, <2>1, <2>2 DEF ContextsOk
<1>8. \A U : Contained(Q, U) => Contained(P, U)
  BY <1>4 DEF Contained
<1> QED
  BY <1>1, <1>2, <1>5, <1>6, <1>7, <1>8 DEF DestinationOk

\* Queues that keep all.
LEMMA FewerSame ==
  ASSUME NEW Q, NEW v, QueuesOk(Q, v)
  PROVE  Fewer(Q, Q)
BY PicksSelf DEF Fewer, QueuesOk

\* Fields that the invariant does not speak of.
Alike(d, x) ==
  /\ IsEnd(x) /\ x.queues = d.queues /\ x.decoded = d.decoded /\ x.streams = d.streams
  /\ x.retiring = d.retiring /\ x.decoders = d.decoders

\* The destination stays right when none of its queues or contexts changes.
LEMMA AlikeOk ==
  ASSUME NEW d, NEW v, DestinationOk(d, v), NEW x, Alike(d, x)
  PROVE  DestinationOk(x, v)
BY DEF DestinationOk, Alike, ContextsOk, Accounted

\* A protocol error changes the error alone.
LEMMA FailOk ==
  ASSUME NEW d, NEW v, DestinationOk(d, v), NEW why, why # "none", NEW x, x = Fail(d, why)
  PROVE  DestinationOk(x, v) /\ x.error # "none" /\ x.queues = d.queues
<1>1. IsEnd(d)
  BY DEF DestinationOk
<1>2. Alike(d, x)
  BY <1>1 DEF Alike, Fail, IsEnd
<1>3. x.error # "none"
  BY <1>1 DEF Fail, IsEnd
<1> QED
  BY <1>2, <1>3, AlikeOk DEF Alike

\* sweep_retirement ends no context that a queued frame needs.
LEMMA SweepOk ==
  ASSUME NEW d, NEW v, DestinationOk(d, v), NEW x, x = Sweep(d)
  PROVE  DestinationOk(x, v) /\ x.queues = d.queues /\ x.error = d.error
<1>1. IsEnd(d)
  BY DEF DestinationOk
<1>2. PICK ready : ready = d.retiring \ InUse(d)
  OBVIOUS
<1>3. PICK ret, dec : ret = d.retiring \ ready /\ dec = Without(d.decoders, ready)
  OBVIOUS
<1>4. x = [d EXCEPT !.retiring = ret, !.decoders = dec]
  BY <1>2, <1>3 DEF Sweep, RetirableContexts
<1>5. /\ IsEnd(x) /\ x.queues = d.queues /\ x.decoded = d.decoded /\ x.streams = d.streams /\ x.error = d.error
      /\ x.retiring = ret /\ x.decoders = dec
  BY <1>1, <1>4 DEF IsEnd
<1>6. DOMAIN dec = DOMAIN d.decoders \ ready
  BY <1>3 DEF Without
<1>7. Accounted(d) \ ready \subseteq Accounted(x)
  BY <1>3, <1>5 DEF Accounted
<1>8. ASSUME NEW s \in Surfaces, NEW i \in 1 .. Len(d.queues[s]), NEW f \in FramesOf(d.queues[s][i]), f \notin d.decoded
      PROVE  Generation(f) \in Accounted(x)
  <2>1. d.queues[s][i] \in Queued(d)
    <3>1. ToSet(d.queues[s]) = {d.queues[s][k] : k \in 1 .. Len(d.queues[s])}
      BY SeqFacts DEF DestinationOk, QueuesOk
    <3>2. d.queues[s][i] \in ToSet(d.queues[s])
      BY <3>1
    <3> QED
      BY <3>2 DEF Queued
  <2>2. f \in Awaiting(d)
    <3>1. PICK e : e = d.queues[s][i]
      OBVIOUS
    <3>2. f \in UNION {FramesOf(q) : q \in Queued(d)}
      BY <1>8, <2>1, <3>1
    <3> QED
      BY <1>8, <3>2 DEF Awaiting
  <2>3. Generation(f) \in InUse(d)
    <3>1. PICK M : M = Awaiting(d) \union ArrivedFrames(d) \union JobFrames(d)
      OBVIOUS
    <3>2. Generation(f) \in {Generation(g) : g \in M}
      BY <2>2, <3>1
    <3> QED
      BY <3>1, <3>2 DEF InUse
  <2>4. Generation(f) \in Accounted(d)
    BY <1>8 DEF DestinationOk, ContextsOk
  <2> QED
    BY <1>2, <1>7, <2>3, <2>4
<1>9. ContextsOk(x)
  <2>1. DOMAIN x.decoders \subseteq Accounted(x)
    BY <1>5, <1>6, <1>7 DEF DestinationOk, ContextsOk
  <2> QED
    BY <1>5, <1>8, <2>1 DEF ContextsOk
<1> QED
  BY <1>5, <1>9 DEF DestinationOk

\* cancel_surface, with the surface's view closed
LEMMA CancelSurfaceOk ==
  ASSUME NEW d, NEW v, DestinationOk(d, v), NEW s \in Surfaces, NEW w, Becomes(v, s, NotShown, w),
         NEW x, x = CancelSurface(d, s)
  PROVE  /\ DestinationOk(x, w) /\ x.queues[s] = <<>> /\ (x.error = "none" => d.error = "none")
         /\ \A U : Contained(d.queues, U) => Contained(x.queues, U)
<1>1. PICK Q : Q = d.queues
  OBVIOUS
<1>2. IsEnd(d) /\ ViewOk(v) /\ QueuesOk(Q, v) /\ Distinct(Q)
  BY <1>1 DEF DestinationOk
<1>3. PICK gone, keys, missing, P, arr, ded, jobs, tombs, ret, str :
        /\ gone = UNION {FramesOf(e) : e \in ToSet(d.queues[s])}
        /\ keys = {k \in DOMAIN d.streams : k[1] = s}
        /\ missing = gone \ (ArrivedFrames(d) \union d.decoded \union JobFrames(d))
        /\ P = [Q EXCEPT ![s] = <<>>]
        /\ arr = {p \in d.arrived : p.frame \notin gone}
        /\ ded = d.decoded \ gone
        /\ jobs = {IF j.frame \in gone THEN [j EXCEPT !.cancelled = TRUE] ELSE j : j \in d.jobs}
        /\ tombs = d.tombs \union Tombs(d, s, missing)
        /\ str = Without(d.streams, keys)
        /\ ret = d.retiring \union {Generation(f) : f \in gone} \union {d.streams[k] : k \in keys}
  OBVIOUS
<1>4. PICK y : y = [d EXCEPT !.queues = P, !.arrived = arr, !.decoded = ded, !.jobs = jobs, !.tombs = tombs,
                            !.streams = str, !.retiring = ret]
  OBVIOUS
<1>5. PICK z : z = IF Cardinality(y.tombs) > MaxReferenced THEN Fail(y, "tombs") ELSE y
  OBVIOUS
<1>6. x = Sweep(z)
  BY <1>1, <1>3, <1>4, <1>5 DEF CancelSurface
<1>7. /\ IsEnd(y) /\ y.queues = P /\ y.decoded = ded /\ y.streams = str /\ y.retiring = ret
      /\ y.decoders = d.decoders /\ y.error = d.error
  BY <1>2, <1>4 DEF IsEnd
<1>8. ViewOk(w) /\ \A t \in Surfaces : t # s => w[t] = v[t]
  BY <1>2 DEF ViewOk, IsView, NotShown, Becomes
<1>9. P = [t \in Surfaces |-> P[t]] /\ P[s] = <<>> /\ \A t \in Surfaces : t # s => P[t] = Q[t]
  BY <1>2, <1>3 DEF QueuesOk
<1>10. Fewer(P, Q)
  <2>1. ASSUME NEW t \in Surfaces PROVE \E h : Picks(P[t], Q[t], h)
    <3>1. CASE t = s
      BY <1>9, <3>1, PicksNone
    <3>2. CASE t # s
      BY <1>2, <1>9, <3>2, PicksSelf DEF QueuesOk
    <3> QED
      BY <3>1, <3>2
  <2> QED
    BY <1>9, <2>1 DEF Fewer
<1>11. Accounted(d) \subseteq Accounted(y)
  <2>1. DOMAIN str = DOMAIN d.streams \ keys /\ \A k \in DOMAIN str : str[k] = d.streams[k]
    BY <1>3 DEF Without
  <2>2. ASSUME NEW k \in DOMAIN d.streams PROVE d.streams[k] \in Accounted(y)
    <3>1. CASE k \in keys
      BY <1>3, <1>7, <3>1 DEF Accounted
    <3>2. CASE k \notin keys
      BY <1>7, <2>1, <3>2 DEF Accounted
    <3> QED
      BY <3>1, <3>2
  <2>3. d.retiring \subseteq Accounted(y)
    BY <1>3, <1>7 DEF Accounted
  <2> QED
    BY <2>2, <2>3 DEF Accounted
<1>12. ASSUME NEW t \in Surfaces, NEW i \in 1 .. Len(P[t])
       PROVE  FramesOf(P[t][i]) \cap d.decoded \subseteq ded /\ w[t].session = v[t].session
  <2>1. t # s
    BY <1>9, <1>12
  <2>2. ASSUME NEW f \in FramesOf(P[t][i]) PROVE f \notin gone
    <3>1. SUFFICES ASSUME f \in gone PROVE FALSE
      OBVIOUS
    <3>2. ToSet(Q[s]) = {Q[s][k] : k \in 1 .. Len(Q[s])}
      BY <1>2, SeqFacts DEF QueuesOk
    <3>3. PICK j \in 1 .. Len(Q[s]) : f \in FramesOf(Q[s][j])
      BY <1>1, <1>3, <3>1, <3>2
    <3>4. FramesOf(Q[t][i]) \cap FramesOf(Q[s][j]) = {}
      BY <1>2, <1>9, <2>1 DEF Distinct
    <3> QED
      BY <1>9, <2>1, <2>2, <3>3, <3>4
  <2> QED
    BY <1>3, <1>8, <2>1, <2>2
<1>13. Shrinks(d, v, y, w)
  BY <1>1, <1>7, <1>8, <1>10, <1>11, <1>12 DEF Shrinks
<1>14. DestinationOk(y, w) /\ \A U : Contained(d.queues, U) => Contained(y.queues, U)
  BY <1>13, ShrinksOk
<1>15. DestinationOk(z, w) /\ z.queues = y.queues /\ (z.error = "none" => y.error = "none")
  <2>1. CASE Cardinality(y.tombs) > MaxReferenced
    BY <1>5, <1>14, <2>1, FailOk
  <2>2. CASE ~(Cardinality(y.tombs) > MaxReferenced)
    BY <1>5, <1>14, <2>2
  <2> QED
    BY <2>1, <2>2
<1>16. DestinationOk(x, w) /\ x.queues = z.queues /\ x.error = z.error
  BY <1>6, <1>15, SweepOk
<1> QED
  BY <1>7, <1>9, <1>14, <1>15, <1>16

\* update_stream_generations: the frames of the commit are accounted for.
LEMMA UpdateStreamsOk ==
  ASSUME NEW d, NEW v, DestinationOk(d, v), NEW e, e.kind = "commit", NEW x, x = UpdateStreams(d, e)
  PROVE  /\ DestinationOk(x, v) /\ x.queues = d.queues /\ x.error = d.error
         /\ \A f \in FramesOf(e) : Generation(f) \in Accounted(x)
<1>1. PICK gone, B, next, m : /\ gone = {k \in DOMAIN d.streams : k[1] = e.surface /\ k[2] \notin e.layers}
                              /\ B = {e.surface} \X DOMAIN e.buffers
                              /\ next = [k \in B |-> Generation(e.buffers[k[2]])]
                              /\ m = Without(d.streams, gone)
  OBVIOUS
<1>2. PICK str, ret : str = Over(next, m) /\ ret = d.retiring \union {d.streams[k] : k \in gone \union Replaced(d, next)}
  OBVIOUS
<1>3. x = [d EXCEPT !.streams = str, !.retiring = ret]
  BY <1>1, <1>2 DEF UpdateStreams
<1>4. IsEnd(d) /\ ViewOk(v) /\ QueuesOk(d.queues, v)
  BY DEF DestinationOk
<1>5. /\ IsEnd(x) /\ x.queues = d.queues /\ x.decoded = d.decoded /\ x.error = d.error /\ x.decoders = d.decoders
      /\ x.streams = str /\ x.retiring = ret
  BY <1>3, <1>4 DEF IsEnd
<1>6. DOMAIN m = DOMAIN d.streams \ gone /\ \A k \in DOMAIN m : m[k] = d.streams[k]
  BY <1>1 DEF Without
<1>7. IsOver(str, next, m) /\ DOMAIN next = B
  BY <1>1, <1>2, OverFacts
<1>8. /\ DOMAIN str = B \union DOMAIN m
      /\ \A k \in B : str[k] = next[k]
      /\ \A k \in DOMAIN m : k \notin B => str[k] = m[k]
  BY <1>7 DEF IsOver
<1>9. ASSUME NEW k \in DOMAIN d.streams PROVE d.streams[k] \in Accounted(x)
  <2>1. CASE k \in gone \union Replaced(d, next)
    BY <1>2, <1>5, <2>1 DEF Accounted
  <2>2. CASE k \notin gone /\ k \notin Replaced(d, next)
    <3>1. k \in DOMAIN m /\ m[k] = d.streams[k]
      BY <1>6, <2>2
    <3>2. str[k] = d.streams[k]
      <4>1. CASE k \in B
        <5>1. next[k] = d.streams[k]
          BY <1>7, <2>2, <4>1 DEF Replaced
        <5> QED
          BY <1>8, <4>1, <5>1
      <4>2. CASE k \notin B
        BY <1>8, <3>1, <4>2
      <4> QED
        BY <4>1, <4>2
    <3>3. k \in DOMAIN str
      BY <1>8, <3>1
    <3> QED
      BY <1>5, <3>2, <3>3 DEF Accounted
  <2> QED
    BY <2>1, <2>2
<1>10. Accounted(d) \subseteq Accounted(x)
  <2>1. d.retiring \subseteq Accounted(x)
    BY <1>2, <1>5 DEF Accounted
  <2> QED
    BY <1>9, <2>1 DEF Accounted
<1>11. Shrinks(d, v, x, v)
  BY <1>4, <1>5, <1>10, FewerSame DEF Shrinks
<1>12. DestinationOk(x, v)
  BY <1>11, ShrinksOk
<1>13. ASSUME NEW f \in FramesOf(e) PROVE Generation(f) \in Accounted(x)
  <2>1. PICK l \in DOMAIN e.buffers : f = e.buffers[l]
    BY DEF FramesOf
  <2>2. PICK k : k = <<e.surface, l>>
    OBVIOUS
  <2>3. k \in B /\ k[2] = l
    BY <1>1, <2>1, <2>2
  <2>4. next[k] = Generation(f)
    BY <1>1, <2>1, <2>3
  <2>5. k \in DOMAIN str /\ str[k] = Generation(f)
    BY <1>8, <2>3, <2>4
  <2> QED
    BY <1>5, <2>5 DEF Accounted
<1> QED
  BY <1>5, <1>12, <1>13

\* The queue of s becomes q.
Requeued(d, s, q, x) == x = [d EXCEPT !.queues = [d.queues EXCEPT ![s] = q]]

\* Newer metadata replaces what is queued.
Supersedes(d, s, e, x) == Requeued(d, s, Superseded(d.queues[s], e), x)

\* Metadata that is superseded leaves the queues right.
LEMMA SupersededOk ==
  ASSUME NEW d, NEW v, DestinationOk(d, v), NEW s \in Surfaces, NEW e,
         NEW x, Supersedes(d, s, e, x)
  PROVE  /\ DestinationOk(x, v) /\ x.error = d.error /\ x.streams = d.streams /\ x.retiring = d.retiring
         /\ \A U : Contained(d.queues, U) => Contained(x.queues, U)
<1>1. PICK Q, q, P : Q = d.queues /\ q = Superseded(Q[s], e) /\ P = [Q EXCEPT ![s] = q]
  OBVIOUS
<1>2. IsEnd(d) /\ ViewOk(v) /\ QueuesOk(Q, v)
  BY <1>1 DEF DestinationOk
<1>3. x = [d EXCEPT !.queues = P]
  BY <1>1 DEF Supersedes, Requeued
<1>4. /\ IsEnd(x) /\ x.queues = P /\ x.decoded = d.decoded /\ x.error = d.error /\ x.decoders = d.decoders
      /\ x.streams = d.streams /\ x.retiring = d.retiring
  BY <1>2, <1>3 DEF IsEnd
<1>5. P = [t \in Surfaces |-> P[t]] /\ P[s] = q /\ \A t \in Surfaces : t # s => P[t] = Q[t]
  BY <1>1, <1>2 DEF QueuesOk
<1>6. \E h : Picks(q, Q[s], h)
  <2>1. IsSeq(Q[s])
    BY <1>2 DEF QueuesOk
  <2>2. CASE e.kind = "metadata"
    <3>1. PICK S : q = Dropping(Q[s], S)
      BY <1>1, <2>2 DEF Superseded, OnlyOthers
    <3> QED
      BY <2>1, <3>1, DroppingPicks
  <2>3. CASE e.kind # "metadata"
    <3>1. q = Q[s]
      BY <1>1, <2>3 DEF Superseded
    <3> QED
      BY <2>1, <3>1, PicksSelf
  <2> QED
    BY <2>2, <2>3
<1>7. Fewer(P, Q)
  <2>1. ASSUME NEW t \in Surfaces PROVE \E h : Picks(P[t], Q[t], h)
    <3>1. CASE t = s
      BY <1>5, <1>6, <3>1
    <3>2. CASE t # s
      BY <1>2, <1>5, <3>2, PicksSelf DEF QueuesOk
    <3> QED
      BY <3>1, <3>2
  <2> QED
    BY <1>5, <2>1 DEF Fewer
<1>8. Accounted(d) \subseteq Accounted(x)
  BY <1>4 DEF Accounted
<1>9. Shrinks(d, v, x, v)
  BY <1>1, <1>2, <1>4, <1>7, <1>8 DEF Shrinks
<1>10. DestinationOk(x, v) /\ \A U : Contained(d.queues, U) => Contained(x.queues, U)
  BY <1>9, ShrinksOk
<1> QED
  BY <1>4, <1>10

\* The sequence w is q and then m.
Longer(w, q, m) ==
  IsSeq(w) /\ Len(q) \in Nat /\ Len(w) = Len(q) + 1 /\ w[Len(q) + 1] = m /\ \A i \in 1 .. Len(q) : w[i] = q[i]

\* Append makes a sequence longer by one.
LEMMA AppendLonger ==
  ASSUME NEW q, IsSeq(q), NEW m, NEW w, w = Append(q, m)
  PROVE  Longer(w, q, m)
<1>1. /\ IsSeq(Append(q, m)) /\ Len(Append(q, m)) = Len(q) + 1
      /\ Append(q, m)[Len(q) + 1] = m /\ \A i \in 1 .. Len(q) : Append(q, m)[i] = q[i]
  BY AppendFacts, ZenonT(60)
<1>2. Len(q) \in Nat
  BY SeqFacts
<1> QED
  BY <1>1, <1>2 DEF Longer

\* An event is queued, with frames that have not come before.
LEMMA AppendEventOk ==
  ASSUME NEW d, NEW v, DestinationOk(d, v), NEW U, Contained(d.queues, U), NEW s \in Surfaces, NEW e,
         Fits(e, v[s].session), FramesOf(e) \cap U = {}, \A f \in FramesOf(e) : Generation(f) \in Accounted(d),
         NEW x, Requeued(d, s, Append(d.queues[s], e), x)
  PROVE  /\ DestinationOk(x, v) /\ x.error = d.error /\ Contained(x.queues, U \union FramesOf(e))
<1>1. PICK Q, q, P, n : Q = d.queues /\ q = Append(Q[s], e) /\ P = [Q EXCEPT ![s] = q] /\ n = Len(Q[s])
  OBVIOUS
<1>2. IsEnd(d) /\ ViewOk(v) /\ QueuesOk(Q, v) /\ Distinct(Q) /\ ContextsOk(d)
  BY <1>1 DEF DestinationOk
<1>3. x = [d EXCEPT !.queues = P]
  BY <1>1 DEF Requeued
<1>4. /\ IsEnd(x) /\ x.queues = P /\ x.decoded = d.decoded /\ x.error = d.error /\ x.decoders = d.decoders
      /\ x.streams = d.streams /\ x.retiring = d.retiring
  BY <1>2, <1>3 DEF IsEnd
<1>5. P = [t \in Surfaces |-> P[t]] /\ P[s] = q /\ \A t \in Surfaces : t # s => P[t] = Q[t]
  BY <1>1, <1>2 DEF QueuesOk
<1>6. IsSeq(q) /\ n \in Nat /\ Len(q) = n + 1 /\ q[n + 1] = e /\ \A i \in 1 .. n : q[i] = Q[s][i]
  <2>1. PICK o : o = Q[s]
    OBVIOUS
  <2>2. IsSeq(o) /\ n = Len(o) /\ q = Append(o, e)
    BY <1>1, <1>2, <2>1 DEF QueuesOk
  <2>3. Longer(q, o, e)
    BY <2>2, AppendLonger
  <2> QED
    BY <2>1, <2>2, <2>3 DEF Longer
<1>7. ASSUME NEW t \in Surfaces, NEW i \in 1 .. Len(P[t])
      PROVE  (t = s /\ i = n + 1 /\ P[t][i] = e) \/ (i \in 1 .. Len(Q[t]) /\ P[t][i] = Q[t][i])
  <2>1. CASE t = s /\ i = n + 1
    BY <1>5, <1>6, <2>1
  <2>2. CASE t = s /\ i # n + 1
    <3>1. i \in 1 .. n
      BY <1>5, <1>6, <1>7, <2>2
    <3> QED
      BY <1>1, <1>5, <1>6, <2>2, <3>1
  <2>3. CASE t # s
    BY <1>5, <2>3
  <2> QED
    BY <2>1, <2>2, <2>3
<1>8. QueuesOk(P, v)
  <2>1. ASSUME NEW t \in Surfaces PROVE IsSeq(P[t])
    BY <1>2, <1>5, <1>6 DEF QueuesOk
  <2>2. ASSUME NEW t \in Surfaces, NEW i \in 1 .. Len(P[t]) PROVE Fits(P[t][i], v[t].session)
    BY <1>2, <1>7 DEF QueuesOk
  <2> QED
    BY <1>5, <2>1, <2>2 DEF QueuesOk
<1>9. \A t \in Surfaces : \A i \in 1 .. Len(Q[t]) : FramesOf(Q[t][i]) \subseteq U
  BY <1>1 DEF Contained
<1>10. Distinct(P)
  <2>1. SUFFICES ASSUME NEW t \in Surfaces, NEW r \in Surfaces, NEW i \in 1 .. Len(P[t]), NEW j \in 1 .. Len(P[r]),
                        t # r \/ i # j
                 PROVE  FramesOf(P[t][i]) \cap FramesOf(P[r][j]) = {}
    BY DEF Distinct
  <2>2. CASE i \in 1 .. Len(Q[t]) /\ P[t][i] = Q[t][i] /\ j \in 1 .. Len(Q[r]) /\ P[r][j] = Q[r][j]
    BY <1>2, <2>1, <2>2 DEF Distinct
  <2>3. CASE t = s /\ i = n + 1 /\ P[t][i] = e /\ j \in 1 .. Len(Q[r]) /\ P[r][j] = Q[r][j]
    <3>1. FramesOf(Q[r][j]) \subseteq U
      BY <1>9, <2>3
    <3> QED
      BY <2>3, <3>1
  <2>4. CASE r = s /\ j = n + 1 /\ P[r][j] = e /\ i \in 1 .. Len(Q[t]) /\ P[t][i] = Q[t][i]
    <3>1. FramesOf(Q[t][i]) \subseteq U
      BY <1>9, <2>4
    <3> QED
      BY <2>4, <3>1
  <2>5. ~(t = s /\ i = n + 1 /\ r = s /\ j = n + 1)
    BY <2>1
  <2> QED
    BY <1>7, <2>2, <2>3, <2>4, <2>5
<1>11. Accounted(x) = Accounted(d)
  BY <1>4 DEF Accounted
<1>12. ContextsOk(x)
  <2>1. DOMAIN x.decoders \subseteq Accounted(x)
    BY <1>2, <1>4, <1>11 DEF ContextsOk
  <2>2. ASSUME NEW t \in Surfaces, NEW i \in 1 .. Len(P[t]), NEW f \in FramesOf(P[t][i])
        PROVE  f \in d.decoded \/ Generation(f) \in Accounted(d)
    <3>1. CASE P[t][i] = e
      BY <3>1
    <3>2. CASE i \in 1 .. Len(Q[t]) /\ P[t][i] = Q[t][i]
      BY <1>1, <1>2, <3>2 DEF ContextsOk
    <3> QED
      BY <1>7, <3>1, <3>2
  <2> QED
    BY <1>4, <1>11, <2>1, <2>2 DEF ContextsOk
<1>13. Contained(P, U \union FramesOf(e))
  <2>1. ASSUME NEW t \in Surfaces, NEW i \in 1 .. Len(P[t]) PROVE FramesOf(P[t][i]) \subseteq U \union FramesOf(e)
    BY <1>7, <1>9
  <2> QED
    BY <2>1 DEF Contained
<1> QED
  BY <1>2, <1>4, <1>8, <1>10, <1>12, <1>13 DEF DestinationOk

-----------------------------------------------------------------------------
(* What is done for each element of a sequence.                            *)

StepOf(op, x, e) ==
  CASE op = "present" -> Present(x, e)
    [] op = "control" -> ApplyControl(x, e)
    [] op = "media"   -> ApplyMedia(x, e)
RunDef(f, op, N, x, q) == f = [n \in 0 .. N |-> IF n = 0 THEN x ELSE StepOf(op, f[n - 1], q[n])]
Run(f, op, x, q) == f[0] = x /\ \A n \in 1 .. Len(q) : f[n] = StepOf(op, f[n - 1], q[n])

\* The functions that PresentEach, ApplyControls and ApplyMedias recur on exist.
LEMMA RunExists ==
  ASSUME NEW op, NEW x, NEW q, Len(q) \in Nat
  PROVE  \E f : RunDef(f, op, Len(q), x, q)
<1> DEFINE P == {n \in 0 .. Len(q) : \E f : RunDef(f, op, n, x, q)}
<1>1. 0 \in P
  <2>1. RunDef([n \in 0 .. 0 |-> x], op, 0, x, q)
    BY DEF RunDef
  <2> QED
    BY <2>1
<1>2. ASSUME NEW n \in 1 .. Len(q), n - 1 \in P
      PROVE  n \in P
  <2>1. PICK f : RunDef(f, op, n - 1, x, q)
    BY <1>2
  <2>2. \A m \in 0 .. n - 1 : f[m] = IF m = 0 THEN x ELSE StepOf(op, f[m - 1], q[m])
    BY <2>1 DEF RunDef
  <2> DEFINE g == [m \in 0 .. n |-> IF m = n THEN StepOf(op, f[n - 1], q[n]) ELSE f[m]]
  <2>3. g[n] = StepOf(op, f[n - 1], q[n]) /\ \A m \in 0 .. n - 1 : g[m] = f[m]
    OBVIOUS
  <2>4. g = [m \in 0 .. n |-> g[m]]
    OBVIOUS
  <2> HIDE DEF g
  <2>5. ASSUME NEW m \in 0 .. n
        PROVE  g[m] = IF m = 0 THEN x ELSE StepOf(op, g[m - 1], q[m])
    <3>1. CASE m = n
      BY <2>3, <3>1
    <3>2. CASE m = 0
      BY <2>2, <2>3, <3>2
    <3>3. CASE m # n /\ m # 0
      <4>1. m \in 0 .. n - 1 /\ m - 1 \in 0 .. n - 1
        BY <3>3
      <4> QED
        BY <2>2, <2>3, <3>3, <4>1
    <3> QED
      BY <3>1, <3>2, <3>3
  <2>6. RunDef(g, op, n, x, q)
    BY <2>4, <2>5 DEF RunDef
  <2> QED
    BY <2>6
<1> HIDE DEF P
<1>3. Inductive(Len(q), P)
  BY <1>1, <1>2 DEF Inductive
<1>4. Len(q) \in P
  BY <1>3, Induct
<1> QED
  BY <1>4 DEF P

\* And each of their values is a step from the one before it.
LEMMA RunSteps ==
  ASSUME NEW op, NEW x, NEW q, NEW f, RunDef(f, op, Len(q), x, q), Len(q) \in Nat
  PROVE  Run(f, op, x, q)
<1>1. \A n \in 0 .. Len(q) : f[n] = IF n = 0 THEN x ELSE StepOf(op, f[n - 1], q[n])
  BY DEF RunDef
<1> QED
  BY <1>1 DEF Run

\* PresentEach as such a run.
LEMMA PresentRuns ==
  ASSUME NEW x, NEW q, Len(q) \in Nat
  PROVE  \E f : Run(f, "present", x, q) /\ PresentEach(x, q) = f[Len(q)]
<1> DEFINE Is(g) == g = [n \in 0 .. Len(q) |-> IF n = 0 THEN x ELSE Present(g[n - 1], q[n])]
<1> DEFINE f == CHOOSE g : Is(g)
<1>1. PresentEach(x, q) = f[Len(q)]
  BY DEF PresentEach
<1>2. \A g : RunDef(g, "present", Len(q), x, q) <=> Is(g)
  BY DEF RunDef, StepOf
<1>3. Is(f)
  BY <1>2, RunExists
<1>4. RunDef(f, "present", Len(q), x, q)
  BY <1>2, <1>3
<1> HIDE DEF f
<1>5. Run(f, "present", x, q)
  BY <1>4, RunSteps
<1> QED
  BY <1>1, <1>5

\* ApplyControls as such a run.
LEMMA ControlRuns ==
  ASSUME NEW x, NEW q, Len(q) \in Nat
  PROVE  \E f : Run(f, "control", x, q) /\ ApplyControls(x, q) = f[Len(q)]
<1> DEFINE Is(g) == g = [n \in 0 .. Len(q) |-> IF n = 0 THEN x ELSE ApplyControl(g[n - 1], q[n])]
<1> DEFINE f == CHOOSE g : Is(g)
<1>1. ApplyControls(x, q) = f[Len(q)]
  BY DEF ApplyControls
<1>2. \A g : RunDef(g, "control", Len(q), x, q) <=> Is(g)
  BY DEF RunDef, StepOf
<1>3. Is(f)
  BY <1>2, RunExists
<1>4. RunDef(f, "control", Len(q), x, q)
  BY <1>2, <1>3
<1> HIDE DEF f
<1>5. Run(f, "control", x, q)
  BY <1>4, RunSteps
<1> QED
  BY <1>1, <1>5

\* ApplyMedias as such a run.
LEMMA MediaRuns ==
  ASSUME NEW x, NEW q, Len(q) \in Nat
  PROVE  \E f : Run(f, "media", x, q) /\ ApplyMedias(x, q) = f[Len(q)]
<1> DEFINE Is(g) == g = [n \in 0 .. Len(q) |-> IF n = 0 THEN x ELSE ApplyMedia(g[n - 1], q[n])]
<1> DEFINE f == CHOOSE g : Is(g)
<1>1. ApplyMedias(x, q) = f[Len(q)]
  BY DEF ApplyMedias
<1>2. \A g : RunDef(g, "media", Len(q), x, q) <=> Is(g)
  BY DEF RunDef, StepOf
<1>3. Is(f)
  BY <1>2, RunExists
<1>4. RunDef(f, "media", Len(q), x, q)
  BY <1>2, <1>3
<1> HIDE DEF f
<1>5. Run(f, "media", x, q)
  BY <1>4, RunSteps
<1> QED
  BY <1>1, <1>5

-----------------------------------------------------------------------------
(* Publication and reception.                                              *)

\* A view stays in its session.
Stays(v, w) == IsView(w) /\ w.session = v.session

\* An event that is presented keeps the session.
LEMMA PresentStays ==
  ASSUME NEW v, IsView(v), NEW e, e.kind \in {"role", "metadata", "commit"}, NEW w, w = Present(v, e)
  PROVE  Stays(v, w)
<1>1. CASE e.kind = "role"
  <2>1. w = [v EXCEPT !.role = e.value]
    BY <1>1 DEF Present
  <2> QED
    BY <2>1 DEF IsView, Stays
<1>2. CASE e.kind = "metadata"
  <2>1. w = [v EXCEPT !.meta = e.value]
    BY <1>2 DEF Present
  <2> QED
    BY <2>1 DEF IsView, Stays
<1>3. CASE e.kind = "commit"
  <2>1. PICK now : w = [v EXCEPT !.rev = e.rev, !.mapped = e.mapped, !.layers = now, !.want = e.want,
                                 !.got = [layers |-> now, role |-> v.role]]
    BY <1>3 DEF Present
  <2>2. PICK a, b, c, g : a = e.rev /\ b = e.mapped /\ c = e.want /\ g = [layers |-> now, role |-> v.role]
    OBVIOUS
  <2>3. w = [v EXCEPT !.rev = a, !.mapped = b, !.layers = now, !.want = c, !.got = g]
    BY <2>1, <2>2
  <2> QED
    BY <2>3 DEF IsView, Stays
<1> QED
  BY <1>1, <1>2, <1>3

\* And so do all that are presented together.
LEMMA PresentEachStays ==
  ASSUME NEW v, IsView(v), NEW q, IsSeq(q), \A i \in 1 .. Len(q) : q[i].kind \in {"role", "metadata", "commit"},
         NEW w, w = PresentEach(v, q)
  PROVE  Stays(v, w)
<1>1. Len(q) \in Nat
  BY SeqFacts
<1>2. PICK f : Run(f, "present", v, q) /\ w = f[Len(q)]
  BY <1>1, PresentRuns
<1> DEFINE P == {n \in 0 .. Len(q) : Stays(v, f[n])}
<1>3. 0 \in P
  BY <1>1, <1>2 DEF Run, Stays
<1>4. ASSUME NEW n \in 1 .. Len(q), n - 1 \in P PROVE n \in P
  <2>1. f[n] = Present(f[n - 1], q[n])
    BY <1>2 DEF Run, StepOf
  <2>2. IsView(f[n - 1]) /\ Stays(v, f[n - 1])
    BY <1>4 DEF Stays
  <2>3. Stays(f[n - 1], f[n])
    BY <2>1, <2>2, PresentStays
  <2>4. Stays(v, f[n])
    BY <2>2, <2>3 DEF Stays
  <2> QED
    BY <1>1, <2>4
<1> HIDE DEF P
<1>5. Inductive(Len(q), P)
  BY <1>1, <1>3, <1>4 DEF Inductive
<1>6. Len(q) \in P
  BY <1>5, Induct
<1> QED
  BY <1>2, <1>6 DEF P

\* The sequence o is the first elements of q.
Starts(o, q) == IsSeq(o) /\ Len(o) \in 0 .. Len(q) /\ \A i \in 1 .. Len(o) : o[i] = q[i]

\* What is published of a surface is the beginning of its queue.
LEMMA ReadyStarts ==
  ASSUME NEW d, NEW s, IsSeq(d.queues[s]), NEW o, o = ReadyPrefix(d, s)
  PROVE  Starts(o, d.queues[s])
<1>1. PICK q, waits : q = d.queues[s] /\ waits = {i \in DOMAIN d.queues[s] : ~Ready(d, d.queues[s][i])}
  OBVIOUS
<1>2. IsSeq(q) /\ Len(q) \in Nat /\ waits \subseteq 1 .. Len(q)
  BY <1>1, SeqFacts
<1>3. CASE waits = {}
  <2>1. o = q
    BY <1>1, <1>3 DEF ReadyPrefix
  <2> QED
    BY <1>1, <1>2, <2>1 DEF Starts
<1>4. CASE waits # {}
  <2>1. PICK m, n : m = Min(waits) /\ n = m - 1
    OBVIOUS
  <2>2. m \in waits
    <3>1. waits \subseteq Nat
      BY <1>2
    <3> QED
      BY <1>4, <2>1, <3>1, MinOf
  <2>3. n \in 0 .. Len(q)
    BY <1>2, <2>1, <2>2
  <2>4. o = SubSeq(q, 1, n)
    BY <1>1, <1>4, <2>1 DEF ReadyPrefix
  <2>5. IsSeq(o) /\ Len(o) = n /\ \A i \in 1 .. n : o[i] = q[i]
    BY <1>2, <2>3, <2>4, PartFacts
  <2> QED
    BY <1>1, <2>3, <2>5 DEF Starts
<1> QED
  BY <1>3, <1>4

SameSession(v, w) == \A s \in Surfaces : w[s].session = v[s].session

\* publish_ready keeps the destination right and every session as it was.
LEMMA PublishOk ==
  ASSUME NEW d, NEW v, DestinationOk(d, v), NEW p, p = Publish(d, v)
  PROVE  /\ p = [d |-> p.d, view |-> p.view] /\ DestinationOk(p.d, p.view) /\ SameSession(v, p.view)
         /\ (p.d.error = "none" => d.error = "none")
         /\ \A U : Contained(d.queues, U) => Contained(p.d.queues, U)
<1>1. CASE Crossed(d, v)
  <2>1. PICK x : x = Fail(d, "crossed")
    OBVIOUS
  <2>2. p = [d |-> x, view |-> v]
    BY <1>1, <2>1 DEF Publish
  <2>3. DestinationOk(x, v) /\ x.error # "none" /\ x.queues = d.queues
    BY <2>1, FailOk
  <2> QED
    BY <2>2, <2>3 DEF SameSession
<1>2. CASE ~Crossed(d, v)
  <2>1. PICK Q, out : Q = d.queues /\ out = [s \in Surfaces |-> ReadyPrefix(d, s)]
    OBVIOUS
  <2>2. PICK used, P, ded : /\ used = UNION {FramesOf(e) : e \in UNION {ToSet(out[s]) : s \in Surfaces}}
                            /\ P = [s \in Surfaces |-> SubSeq(Q[s], Len(out[s]) + 1, Len(Q[s]))]
                            /\ ded = d.decoded \ used
    OBVIOUS
  <2>3. PICK y, x, w : /\ y = [d EXCEPT !.queues = P, !.decoded = ded] /\ x = Sweep(y)
                       /\ w = [s \in Surfaces |-> PresentEach(v[s], out[s])]
    OBVIOUS
  <2>4. p = [d |-> x, view |-> w]
    BY <1>2, <2>1, <2>2, <2>3 DEF Publish
  <2>5. IsEnd(d) /\ ViewOk(v) /\ QueuesOk(Q, v) /\ Distinct(Q)
    BY <2>1 DEF DestinationOk
  <2>6. ASSUME NEW s \in Surfaces
        PROVE  /\ IsSeq(Q[s]) /\ Len(Q[s]) \in Nat /\ Starts(out[s], Q[s])
               /\ \A i \in 1 .. Len(Q[s]) : Fits(Q[s][i], v[s].session)
    <3>1. IsSeq(Q[s]) /\ \A i \in 1 .. Len(Q[s]) : Fits(Q[s][i], v[s].session)
      BY <2>5 DEF QueuesOk
    <3>2. Len(Q[s]) \in Nat
      BY <3>1, SeqFacts
    <3>3. Starts(out[s], Q[s])
      BY <2>1, <3>1, ReadyStarts
    <3> QED
      BY <3>1, <3>2, <3>3
  <2>7. ASSUME NEW s \in Surfaces PROVE Stays(v[s], w[s])
    <3>1. IsView(v[s]) /\ w[s] = PresentEach(v[s], out[s]) /\ IsSeq(out[s])
      BY <2>3, <2>5, <2>6 DEF ViewOk, Starts
    <3>2. \A i \in 1 .. Len(out[s]) : out[s][i].kind \in {"role", "metadata", "commit"}
      BY <2>6 DEF Starts, Fits
    <3> QED
      BY <3>1, <3>2, PresentEachStays
  <2>8. ViewOk(w) /\ SameSession(v, w)
    BY <2>3, <2>7 DEF ViewOk, SameSession, Stays
  <2>9. /\ IsEnd(y) /\ y.queues = P /\ y.decoded = ded /\ y.streams = d.streams /\ y.retiring = d.retiring
        /\ y.decoders = d.decoders /\ y.error = d.error
    BY <2>3, <2>5 DEF IsEnd
  <2>10. Fewer(P, Q)
    <3>1. ASSUME NEW s \in Surfaces PROVE \E h : Picks(P[s], Q[s], h)
      BY <2>2, <2>6, PicksRest DEF Starts
    <3>2. P = [s \in Surfaces |-> P[s]]
      BY <2>2
    <3> QED
      BY <3>1, <3>2 DEF Fewer
  <2>11. ASSUME NEW s \in Surfaces, NEW i \in 1 .. Len(P[s]), NEW f \in FramesOf(P[s][i]) PROVE f \notin used
    <3>1. SUFFICES ASSUME f \in used PROVE FALSE
      OBVIOUS
    <3>2. PICK t \in Surfaces : \E e \in ToSet(out[t]) : f \in FramesOf(e)
      BY <2>2, <3>1
    <3>3. IsSeq(out[t]) /\ Starts(out[t], Q[t])
      BY <2>6 DEF Starts
    <3>4. ToSet(out[t]) = {out[t][k] : k \in 1 .. Len(out[t])}
      BY <3>3, SeqFacts
    <3>5. PICK k \in 1 .. Len(out[t]) : f \in FramesOf(out[t][k])
      BY <3>2, <3>4
    <3>6. k \in 1 .. Len(Q[t]) /\ out[t][k] = Q[t][k]
      BY <2>6, <3>3, <3>5 DEF Starts
    <3>7. PICK m : m = Len(out[s])
      OBVIOUS
    <3>8. m \in 0 .. Len(Q[s]) /\ P[s] = SubSeq(Q[s], m + 1, Len(Q[s]))
      BY <2>2, <2>6, <3>7 DEF Starts
    <3>9. i \in 1 .. Len(Q[s]) - m /\ P[s][i] = Q[s][m + i]
      BY <2>6, <2>11, <3>8, PartFacts
    <3>10. m + i \in 1 .. Len(Q[s]) /\ (s = t => m + i # k)
      BY <2>6, <3>5, <3>7, <3>8, <3>9
    <3>11. FramesOf(Q[s][m + i]) \cap FramesOf(Q[t][k]) = {}
      BY <2>5, <3>6, <3>10 DEF Distinct
    <3> QED
      BY <2>11, <3>5, <3>6, <3>9, <3>11
  <2>12. Accounted(d) = Accounted(y)
    BY <2>9 DEF Accounted
  <2>13. Shrinks(d, v, y, w)
    <3>1. \A s \in Surfaces : \A i \in 1 .. Len(P[s]) :
             FramesOf(P[s][i]) \cap d.decoded \subseteq ded /\ w[s].session = v[s].session
      BY <2>2, <2>8, <2>11 DEF SameSession
    <3> QED
      BY <2>1, <2>8, <2>9, <2>10, <2>12, <3>1 DEF Shrinks
  <2>14. DestinationOk(y, w) /\ \A U : Contained(d.queues, U) => Contained(y.queues, U)
    BY <2>13, ShrinksOk
  <2>15. DestinationOk(x, w) /\ x.queues = y.queues /\ x.error = y.error
    BY <2>3, <2>14, SweepOk
  <2> QED
    BY <2>4, <2>8, <2>9, <2>14, <2>15
<1> QED
  BY <1>1, <1>2

\* The port and the view p are in the state a, unless the port has failed.
InState(p, a) ==
  /\ IsSessions(a.session) /\ \A s \in Surfaces : p.view[s].session = a.session[s]
  /\ Contained(p.d.queues, a.used)
Tracks(p, a) ==
  /\ p = [d |-> p.d, view |-> p.view] /\ DestinationOk(p.d, p.view)
  /\ p.d.error = "none" => InState(p, a)

\* A surface event is queued for the session that is mapped.
LEMMA EnqueueSurfaceOk ==
  ASSUME NEW p, NEW a, Tracks(p, a), p.d.error = "none", NEW e, NEW b, Legal(a, e, b),
         e.kind \in {"role", "metadata", "commit"}, NEW q, q = EnqueueSurface(p, e)
  PROVE  Tracks(q, b)
<1>1. PICK d, v, s, U : d = p.d /\ v = p.view /\ s = e.surface /\ U = a.used
  OBVIOUS
<1>2. /\ p = [d |-> d, view |-> v] /\ DestinationOk(d, v) /\ IsSessions(a.session)
      /\ \A t \in Surfaces : v[t].session = a.session[t]
      /\ Contained(d.queues, U)
  BY <1>1 DEF Tracks, InState
<1>3. /\ s \in Surfaces /\ a.session[s] = e.session /\ e.session # 0 /\ FramesOf(e) \cap U = {}
      /\ b.used = U \union FramesOf(e) /\ (e.kind = "commit" => DOMAIN e.buffers \subseteq Layers)
  BY <1>1 DEF Legal
<1>4. b.session = a.session
  BY DEF Legal
<1>5. Fits(e, v[s].session)
  BY <1>2, <1>3 DEF Fits
<1>6. PICK y : y = IF e.kind = "commit" THEN UpdateStreams(d, e) ELSE d
  OBVIOUS
<1>7. /\ DestinationOk(y, v) /\ y.queues = d.queues /\ y.error = d.error
      /\ \A f \in FramesOf(e) : Generation(f) \in Accounted(y)
  <2>1. CASE e.kind = "commit"
    BY <1>2, <1>6, <2>1, UpdateStreamsOk
  <2>2. CASE e.kind # "commit"
    BY <1>2, <1>6, <2>2, ControlFrames
  <2> QED
    BY <2>1, <2>2
<1>8. PICK room : room = [y EXCEPT !.queues[s] = Superseded(@, e)]
  OBVIOUS
<1>9. /\ DestinationOk(room, v) /\ room.error = y.error /\ room.streams = y.streams /\ room.retiring = y.retiring
      /\ Contained(room.queues, U)
  <2>1. Supersedes(y, s, e, room)
    BY <1>8 DEF Supersedes, Requeued
  <2>2. /\ DestinationOk(room, v) /\ room.error = y.error /\ room.streams = y.streams /\ room.retiring = y.retiring
        /\ \A W : Contained(y.queues, W) => Contained(room.queues, W)
    BY <1>3, <1>7, <2>1, SupersededOk
  <2> QED
    BY <1>2, <1>7, <2>2
<1>10. \A f \in FramesOf(e) : Generation(f) \in Accounted(room)
  BY <1>7, <1>9 DEF Accounted
<1>11. CASE EventCount(room) >= MaxEvents
  <2>1. PICK x : x = Fail(room, "events")
    OBVIOUS
  <2>2. q = [p EXCEPT !.d = x]
    BY <1>1, <1>6, <1>8, <1>11, <2>1 DEF EnqueueSurface
  <2>3. q = [d |-> x, view |-> v]
    BY <1>2, <2>2
  <2>4. DestinationOk(x, v) /\ x.error # "none"
    BY <1>9, <2>1, FailOk
  <2> QED
    BY <2>3, <2>4 DEF Tracks
<1>12. CASE ~(EventCount(room) >= MaxEvents)
  <2>1. PICK x : x = [room EXCEPT !.queues[s] = Append(@, e)]
    OBVIOUS
  <2>2. q = Publish(x, v)
    BY <1>1, <1>6, <1>8, <1>12, <2>1 DEF EnqueueSurface
  <2>3. DestinationOk(x, v) /\ Contained(x.queues, U \union FramesOf(e))
    <3>1. Requeued(room, s, Append(room.queues[s], e), x)
      BY <2>1 DEF Requeued
    <3> QED
      BY <1>3, <1>5, <1>9, <1>10, <3>1, AppendEventOk
  <2>4. /\ q = [d |-> q.d, view |-> q.view] /\ DestinationOk(q.d, q.view) /\ SameSession(v, q.view)
        /\ Contained(q.d.queues, U \union FramesOf(e))
    BY <2>2, <2>3, PublishOk
  <2>5. InState(q, b)
    BY <1>2, <1>3, <1>4, <2>4 DEF InState, SameSession
  <2> QED
    BY <2>4, <2>5 DEF Tracks
<1> QED
  BY <1>11, <1>12

\* A surface whose session ends or has ended has nothing queued, and may be mapped.
LEMMA RemappedOk ==
  ASSUME NEW d, NEW v, DestinationOk(d, v), NEW s \in Surfaces, v[s].session = 0, NEW n,
         NEW r, IsView(r), r.session = n, NEW w, Becomes(v, s, r, w)
  PROVE  DestinationOk(d, w) /\ w[s].session = n /\ \A t \in Surfaces : t # s => w[t] = v[t]
<1>3. w = [v EXCEPT ![s] = r] /\ v = [t \in Surfaces |-> v[t]] /\ \A t \in Surfaces : IsView(v[t])
  BY DEF DestinationOk, ViewOk, Becomes
<1>4. w = [t \in Surfaces |-> w[t]] /\ w[s] = r /\ \A t \in Surfaces : t # s => w[t] = v[t]
  BY <1>3
<1>5. ViewOk(w)
  BY <1>3, <1>4 DEF ViewOk
<1>6. QueuesOk(d.queues, v)
  BY DEF DestinationOk
<1>7. \A i \in 1 .. Len(d.queues[s]) : FALSE
  BY <1>6 DEF QueuesOk, Fits
<1>8. QueuesOk(d.queues, w)
  BY <1>4, <1>6, <1>7 DEF QueuesOk
<1> QED
  BY <1>4, <1>5, <1>8 DEF DestinationOk

\* A legal control record takes the destination along the path.
LEMMA ApplyControlOk ==
  ASSUME NEW p, NEW a, Tracks(p, a), NEW e, NEW b, Legal(a, e, b), NEW q, q = ApplyControl(p, e)
  PROVE  Tracks(q, b)
<1>1. PICK d, v, s, U : d = p.d /\ v = p.view /\ s = e.surface /\ U = a.used
  OBVIOUS
<1>2. CASE d.error # "none"
  <2>1. q = p
    BY <1>1, <1>2 DEF ApplyControl
  <2> QED
    BY <1>1, <1>2, <2>1 DEF Tracks
<1>3. CASE d.error = "none"
  <2>1. /\ p = [d |-> d, view |-> v] /\ DestinationOk(d, v) /\ IsSessions(a.session)
        /\ \A t \in Surfaces : v[t].session = a.session[t]
        /\ Contained(d.queues, U)
    BY <1>1, <1>3 DEF Tracks, InState
  <2>2. s \in Surfaces /\ U \subseteq b.used /\ e.kind \in {"map", "withdraw", "destroyed", "role", "metadata", "commit"}
    BY <1>1 DEF Legal
  <2>3. Contained(d.queues, b.used)
    BY <2>1, <2>2 DEF Contained
  <2>4. CASE e.kind = "map"
    <3>1. a.session[s] = 0 /\ b.session = [a.session EXCEPT ![s] = e.session]
      BY <1>1, <2>4 DEF Legal
    <3>2. PICK n, r, w : n = e.session /\ r = [NotShown EXCEPT !.session = n] /\ w = [v EXCEPT ![s] = r]
      OBVIOUS
    <3>3. q = [p EXCEPT !.view = w]
      BY <1>1, <1>3, <2>1, <2>2, <2>4, <3>1, <3>2 DEF ApplyControl, Remapped
    <3>4. q = [d |-> d, view |-> w]
      BY <2>1, <3>3
    <3>5. DestinationOk(d, w) /\ w[s].session = n /\ \A t \in Surfaces : t # s => w[t] = v[t]
      <4>1. Becomes(v, s, r, w) /\ v[s].session = 0
        BY <2>1, <2>2, <3>1, <3>2 DEF Becomes
      <4>2. IsView(r) /\ r.session = n
        BY <3>2 DEF NotShown, IsView
      <4> QED
        BY <2>1, <2>2, <4>1, <4>2, RemappedOk
    <3>6. IsSessions(b.session) /\ \A t \in Surfaces : w[t].session = b.session[t]
      BY <2>1, <2>2, <3>1, <3>2, <3>5 DEF IsSessions
    <3>7. InState(q, b)
      BY <2>3, <3>4, <3>6 DEF InState
    <3> QED
      BY <3>4, <3>5, <3>7 DEF Tracks
  <2>5. CASE e.kind \in {"withdraw", "destroyed"}
    <3>1. b.session = [a.session EXCEPT ![s] = 0] /\ (e.kind = "destroyed" => a.session[s] = e.session)
      BY <1>1, <2>5 DEF Legal
    <3>2. PICK x, w : x = CancelSurface(d, s) /\ w = [v EXCEPT ![s] = NotShown]
      OBVIOUS
    <3>3. q = [d |-> x, view |-> w]
      BY <1>1, <1>3, <2>1, <2>2, <2>5, <3>1, <3>2 DEF ApplyControl
    <3>4. DestinationOk(x, w) /\ Contained(x.queues, b.used)
      <4>1. Becomes(v, s, NotShown, w)
        BY <3>2 DEF Becomes
      <4> QED
        BY <2>1, <2>2, <2>3, <3>2, <4>1, CancelSurfaceOk
    <3>5. w[s].session = 0 /\ \A t \in Surfaces : t # s => w[t] = v[t]
      BY <2>1, <2>2, <3>2 DEF DestinationOk, ViewOk, NotShown
    <3>6. IsSessions(b.session) /\ \A t \in Surfaces : w[t].session = b.session[t]
      BY <2>1, <2>2, <3>1, <3>5 DEF IsSessions
    <3>7. InState(q, b)
      BY <3>3, <3>4, <3>6 DEF InState
    <3> QED
      BY <3>3, <3>4, <3>7 DEF Tracks
  <2>6. CASE e.kind \in {"role", "metadata", "commit"}
    <3>1. q = EnqueueSurface(p, e)
      BY <1>1, <1>3, <2>6 DEF ApplyControl
    <3> QED
      BY <1>1, <1>3, <2>6, <3>1, EnqueueSurfaceOk
  <2> QED
    BY <2>2, <2>4, <2>5, <2>6
<1> QED
  BY <1>2, <1>3

\* The control records of the first n steps of a path.
LEMMA ApplyControlsOk ==
  ASSUME NEW f, NEW a, NEW q, NEW b, IsSeq(q), PathBy(f, a, q, b), NEW n \in 0 .. Len(q),
         NEW p, Tracks(p, a), NEW x, x = ApplyControls(p, SubSeq(q, 1, n))
  PROVE  Tracks(x, f[n])
<1>1. PICK r : r = SubSeq(q, 1, n)
  OBVIOUS
<1>2. Len(q) \in Nat /\ IsSeq(r) /\ Len(r) = n /\ \A i \in 1 .. n : r[i] = q[i]
  BY <1>1, SeqFacts, PartFacts
<1>3. PICK g : Run(g, "control", p, r) /\ x = g[n]
  <2>1. Len(r) \in Nat /\ x = ApplyControls(p, r)
    BY <1>1, <1>2
  <2>2. PICK g : Run(g, "control", p, r) /\ ApplyControls(p, r) = g[Len(r)]
    BY <2>1, ControlRuns
  <2> QED
    BY <1>2, <2>1, <2>2
<1> DEFINE P == {m \in 0 .. n : Tracks(g[m], f[m])}
<1>4. 0 \in P
  BY <1>2, <1>3 DEF Run, PathBy
<1>5. ASSUME NEW m \in 1 .. n, m - 1 \in P PROVE m \in P
  <2>1. g[m] = ApplyControl(g[m - 1], r[m])
    BY <1>2, <1>3 DEF Run, StepOf
  <2>2. Legal(f[m - 1], r[m], f[m])
    BY <1>2 DEF PathBy
  <2>3. Tracks(g[m - 1], f[m - 1])
    BY <1>5
  <2>4. Tracks(g[m], f[m])
    BY <2>1, <2>2, <2>3, ApplyControlOk
  <2> QED
    BY <2>4
<1> HIDE DEF P
<1>6. Inductive(n, P)
  BY <1>2, <1>4, <1>5 DEF Inductive
<1>7. n \in P
  BY <1>6, Induct
<1> QED
  BY <1>3, <1>7 DEF P

\* enqueue_media changes nothing that the invariant speaks of.
LEMMA ApplyMediaOk ==
  ASSUME NEW d, IsEnd(d), NEW m, NEW x, x = ApplyMedia(d, m)
  PROVE  Alike(d, x) /\ (x.error = "none" => d.error = "none")
<1>1. PICK T, arr, tmb : /\ T = {t \in d.tombs : t.frame = m.frame} /\ arr = d.arrived \union {m} /\ tmb = d.tombs \ T
  OBVIOUS
<1>2. \/ x = d \/ (d.error = "none" /\ x = [d EXCEPT !.tombs = tmb])
      \/ (d.error = "none" /\ x = [d EXCEPT !.arrived = arr])
      \/ \E why \in {"session", "media", "twice"} : x = Fail(d, why)
  BY <1>1 DEF ApplyMedia
<1>3. ASSUME NEW why \in {"session", "media", "twice"}, x = Fail(d, why)
      PROVE  Alike(d, x) /\ x.error # "none"
  BY <1>3 DEF Fail, Alike, IsEnd
<1>4. CASE x = d
  BY <1>4 DEF Alike
<1>5. CASE d.error = "none" /\ (x = [d EXCEPT !.tombs = tmb] \/ x = [d EXCEPT !.arrived = arr])
  BY <1>5 DEF Alike, IsEnd
<1> QED
  BY <1>2, <1>3, <1>4, <1>5

\* And so for all the media records of a poll.
LEMMA ApplyMediasOk ==
  ASSUME NEW d, IsEnd(d), NEW q, Len(q) \in Nat, NEW x, x = ApplyMedias(d, q)
  PROVE  Alike(d, x) /\ (x.error = "none" => d.error = "none")
<1>1. PICK g : Run(g, "media", d, q) /\ x = g[Len(q)]
  BY MediaRuns
<1> DEFINE P == {n \in 0 .. Len(q) : Alike(d, g[n]) /\ (g[n].error = "none" => d.error = "none")}
<1>2. 0 \in P
  BY <1>1 DEF Run, Alike
<1>3. ASSUME NEW n \in 1 .. Len(q), n - 1 \in P PROVE n \in P
  <2>1. g[n] = ApplyMedia(g[n - 1], q[n])
    BY <1>1 DEF Run, StepOf
  <2>2. Alike(d, g[n - 1]) /\ IsEnd(g[n - 1]) /\ (g[n - 1].error = "none" => d.error = "none")
    BY <1>3 DEF Alike
  <2>3. Alike(g[n - 1], g[n]) /\ (g[n].error = "none" => g[n - 1].error = "none")
    BY <2>1, <2>2, ApplyMediaOk
  <2>4. Alike(d, g[n])
    BY <2>2, <2>3 DEF Alike
  <2> QED
    BY <2>2, <2>3, <2>4
<1> HIDE DEF P
<1>4. Inductive(Len(q), P)
  BY <1>2, <1>3 DEF Inductive
<1>5. Len(q) \in P
  BY <1>4, Induct
<1> QED
  BY <1>1, <1>5 DEF P

\* drain: what is decoded grows, and what is cancelled retires.
LEMMA DrainedOk ==
  ASSUME NEW d, NEW v, DestinationOk(d, v), NEW done, NEW x, x = Drained(d, done)
  PROVE  DestinationOk(x, v) /\ x.queues = d.queues /\ x.error = d.error
<1>1. PICK J, D, R : /\ J = d.jobs \ done
                     /\ D = d.decoded \union {j.frame : j \in {k \in done : ~k.cancelled}}
                     /\ R = d.retiring \union {Generation(j.frame) : j \in {k \in done : k.cancelled}}
  OBVIOUS
<1>2. x = [d EXCEPT !.jobs = J, !.decoded = D, !.retiring = R]
  BY <1>1 DEF Drained
<1>3. IsEnd(d) /\ ViewOk(v) /\ QueuesOk(d.queues, v)
  BY DEF DestinationOk
<1>4. /\ IsEnd(x) /\ x.queues = d.queues /\ x.decoded = D /\ x.retiring = R /\ x.streams = d.streams
      /\ x.decoders = d.decoders /\ x.error = d.error
  BY <1>2, <1>3 DEF IsEnd
<1>5. Accounted(d) \subseteq Accounted(x) /\ d.decoded \subseteq x.decoded
  BY <1>1, <1>4 DEF Accounted
<1>6. Fewer(x.queues, d.queues)
  BY <1>3, <1>4, FewerSame
<1>7. Shrinks(d, v, x, v)
  BY <1>3, <1>4, <1>5, <1>6 DEF Shrinks
<1> QED
  BY <1>4, <1>7, ShrinksOk

\* The first n elements of c \o o are those of c, and the others are what is left of c, and o.
LEMMA FrontOf ==
  ASSUME NEW c, NEW o, IsSeq(c), IsSeq(o), NEW n \in 0 .. Len(c)
  PROVE  /\ IsSeq(c \o o) /\ n \in 0 .. Len(c \o o)
         /\ SubSeq(c \o o, 1, n) = SubSeq(c, 1, n)
         /\ SubSeq(c \o o, n + 1, Len(c \o o)) = SubSeq(c, n + 1, Len(c)) \o o
<1>1. PICK A, B : c \in Seq(A) /\ o \in Seq(B)
  BY DEF IsSeq
<1>2. PICK G, q, p, y, z : /\ G = A \union B /\ q = c \o o /\ p = SubSeq(c, 1, n) /\ y = SubSeq(c, n + 1, Len(c))
                           /\ z = SubSeq(q, n + 1, Len(q))
  OBVIOUS
<1>3. c \in Seq(G) /\ o \in Seq(G) /\ Len(c) \in Nat /\ Len(o) \in Nat
  BY <1>1, <1>2
<1>4. q \in Seq(G) /\ Joined(q, c, o)
  BY <1>2, <1>3, ConcatJoined, ConcatProperties DEF IsSeq
<1>5. Len(q) = Len(c) + Len(o) /\ n \in 0 .. Len(q) /\ IsSeq(q) /\ IsSeq(c)
  BY <1>3, <1>4 DEF Joined
<1>6. SubSeq(q, 1, n) = p
  <2>1. PICK r : r = SubSeq(q, 1, n)
    OBVIOUS
  <2>2. r \in Seq(G) /\ Len(r) = n /\ p \in Seq(G) /\ Len(p) = n
    <3>1. r \in Seq(G) /\ Len(r) = n
      BY <1>4, <1>5, <2>1
    <3>2. p \in Seq(G) /\ Len(p) = n
      BY <1>2, <1>3
    <3> QED
      BY <3>1, <3>2
  <2>3. (\A i \in 1 .. n : r[i] = q[i]) /\ \A i \in 1 .. n : p[i] = c[i]
    BY <1>2, <1>5, <2>1, PartFacts
  <2>4. \A i \in 1 .. n : r[i] = p[i]
    BY <1>3, <1>4, <2>3 DEF Joined
  <2> QED
    BY <2>1, <2>2, <2>4, SeqEqual
<1>7. z = y \o o
  <2>1. y \in Seq(G) /\ Len(y) = Len(c) - n /\ z \in Seq(G) /\ Len(z) = Len(q) - n
    <3>1. y \in Seq(G) /\ Len(y) = Len(c) - n
      BY <1>2, <1>3
    <3>2. Len(q) \in Nat
      BY <1>3, <1>5
    <3>3. z \in Seq(G) /\ Len(z) = Len(q) - n
      BY <1>2, <1>4, <1>5, <3>2
    <3> QED
      BY <3>1, <3>3
  <2>2. PICK w : w = y \o o
    OBVIOUS
  <2>3. w \in Seq(G) /\ Joined(w, y, o)
    BY <1>3, <2>1, <2>2, ConcatJoined, ConcatProperties DEF IsSeq
  <2>4. Len(w) = Len(z)
    BY <1>3, <1>5, <2>1, <2>3 DEF Joined
  <2>5. (\A i \in 1 .. Len(c) - n : y[i] = c[n + i]) /\ \A i \in 1 .. Len(q) - n : z[i] = q[n + i]
    BY <1>2, <1>5, PartFacts
  <2>6. \A i \in 1 .. Len(z) : z[i] = w[i]
    <3>1. TAKE i \in 1 .. Len(z)
    <3>2. z[i] = q[n + i]
      BY <2>1, <2>5
    <3>3. CASE i <= Len(c) - n
      <4>1. i \in 1 .. Len(c) - n /\ n + i \in 1 .. Len(c)
        BY <1>3, <3>3
      <4>2. q[n + i] = c[n + i] /\ w[i] = y[i] /\ y[i] = c[n + i]
        BY <1>4, <2>1, <2>3, <2>5, <4>1 DEF Joined
      <4> QED
        BY <3>2, <4>2
    <3>4. CASE i > Len(c) - n
      <4>1. PICK k \in 1 .. Len(o) : i = (Len(c) - n) + k
        <5>1. i - (Len(c) - n) \in 1 .. Len(o) /\ i = (Len(c) - n) + (i - (Len(c) - n))
          BY <1>3, <1>5, <2>1, <3>4
        <5> QED
          BY <5>1
      <4>2. n + i = Len(c) + k
        BY <1>3, <4>1
      <4>3. q[Len(c) + k] = o[k] /\ w[Len(y) + k] = o[k]
        BY <1>4, <2>3 DEF Joined
      <4> QED
        BY <2>1, <3>2, <4>1, <4>2, <4>3
    <3> QED
      BY <1>3, <3>3, <3>4
  <2> QED
    BY <2>1, <2>2, <2>3, <2>4, <2>6, SeqEqual
<1> QED
  BY <1>2, <1>5, <1>6, <1>7

\* The destination is in a state that what is under way leads from.
LinkedOk(d, v, c, cl, st) ==
  DestinationOk(d, v) /\ (d.error = "none" => \E a : InState([d |-> d, view |-> v], a) /\ LineOk(a, c, cl, st))

\* A poll takes records off the lane and the destination along the path.
LEMMA ReceiveOk ==
  ASSUME LaneOk, NEW cl, IsSeq(src.outControl), LinkedOk(dst, shown, control, cl, src), dst.error = "none",
         NEW n \in 0 .. Len(control), NEW m \in 0 .. Len(media), NEW done, Receive(n, m, done)
  PROVE  /\ IsSeq(control') /\ Len(control') <= ControlRoom /\ LinkedOk(dst', shown', control', cl, src)
<1>1. PICK c, o, q : c = control /\ o = src.outControl /\ q = c \o o
  OBVIOUS
<1>2. PICK a : InState([d |-> dst, view |-> shown], a) /\ LineOk(a, c, cl, src)
  BY <1>1 DEF LinkedOk
<1>3. PICK w : /\ Path(a, q, State(cl, w)) /\ (\A g \in w \union Coming(src) : Issued(src, g)) /\ Coming(src) \cap w = {}
  BY <1>1, <1>2 DEF LineOk
<1>4. PICK f : PathBy(f, a, q, State(cl, w))
  BY <1>3 DEF Path
<1>5. IsSeq(c) /\ Len(c) <= ControlRoom /\ n \in 0 .. Len(c) /\ Len(c) \in Nat /\ ControlRoom \in Nat
  BY <1>1, SeqFacts, LanesAssumption DEF LaneOk, ControlRoom
<1>6. /\ IsSeq(q) /\ n \in 0 .. Len(q) /\ SubSeq(q, 1, n) = SubSeq(c, 1, n)
      /\ SubSeq(q, n + 1, Len(q)) = SubSeq(c, n + 1, Len(c)) \o o
  BY <1>1, <1>5, FrontOf
<1>7. PICK y : y = SubSeq(c, n + 1, Len(c))
  OBVIOUS
<1>8. IsSeq(y) /\ Len(y) <= ControlRoom
  <2>1. IsSeq(y) /\ Len(y) = Len(c) - n
    BY <1>5, <1>7, PartFacts
  <2> QED
    BY <1>5, <2>1
<1>9. LineOk(f[n], y, cl, src)
  <2>1. Path(f[n], SubSeq(q, n + 1, Len(q)), State(cl, w))
    BY <1>4, <1>6, PathRest
  <2>2. Path(f[n], y \o src.outControl, State(cl, w))
    BY <1>1, <1>6, <1>7, <2>1
  <2> QED
    BY <1>3, <2>2 DEF LineOk
<1>10. PICK taken, fed, finished : /\ taken = ApplyControls([d |-> dst, view |-> shown], SubSeq(c, 1, n))
                                   /\ fed = ApplyMedias(taken.d, SubSeq(media, 1, m))
                                   /\ finished = {j \in fed.jobs : j.frame \in {x.frame : x \in done}}
  OBVIOUS
<1>11. Tracks(taken, f[n])
  <2>1. PICK p : p = [d |-> dst, view |-> shown]
    OBVIOUS
  <2>2. Tracks(p, a)
    BY <1>2, <2>1 DEF Tracks, LinkedOk
  <2>3. taken = ApplyControls(p, SubSeq(q, 1, n))
    BY <1>6, <1>10, <2>1
  <2> QED
    BY <1>4, <1>6, <2>2, <2>3, ApplyControlsOk
<1>12. PICK d, v : d = taken.d /\ v = taken.view
  OBVIOUS
<1>13. taken = [d |-> d, view |-> v] /\ DestinationOk(d, v) /\ (d.error = "none" => InState(taken, f[n]))
  BY <1>11, <1>12 DEF Tracks
<1>14. Alike(d, fed) /\ (fed.error = "none" => d.error = "none") /\ DestinationOk(fed, v)
  <2>1. m \in Nat
    OBVIOUS
  <2>2. PICK r : r = SubSeq(media, 1, m)
    OBVIOUS
  <2>3. Len(r) \in Nat
    BY <2>1, <2>2
  <2>4. Alike(d, fed) /\ (fed.error = "none" => d.error = "none")
    BY <1>10, <1>12, <1>13, <2>2, <2>3, ApplyMediasOk DEF DestinationOk
  <2> QED
    BY <1>13, <2>4, AlikeOk
<1>15. control' = y
  BY <1>1, <1>7 DEF Receive
<1>16. CASE fed.error # "none"
  <2>1. dst' = fed /\ shown' = v
    BY <1>1, <1>10, <1>12, <1>16 DEF Receive
  <2> QED
    BY <1>8, <1>14, <1>15, <1>16, <2>1 DEF LinkedOk
<1>17. CASE fed.error = "none"
  <2>1. PICK x, p, z : x = Drained(fed, finished) /\ p = Publish(x, v) /\ z = [p.d EXCEPT !.call = "advance"]
    OBVIOUS
  <2>2. dst' = z /\ shown' = p.view
    BY <1>1, <1>10, <1>12, <1>17, <2>1 DEF Receive
  <2>3. DestinationOk(x, v) /\ x.queues = fed.queues /\ x.error = fed.error
    BY <1>14, <2>1, DrainedOk
  <2>4. /\ DestinationOk(p.d, p.view) /\ SameSession(v, p.view)
        /\ \A U : Contained(x.queues, U) => Contained(p.d.queues, U)
    BY <2>1, <2>3, PublishOk
  <2>5. Alike(p.d, z)
    BY <2>1, <2>4 DEF DestinationOk, Alike, IsEnd
  <2>6. DestinationOk(z, p.view) /\ z.queues = p.d.queues
    BY <2>4, <2>5, AlikeOk DEF Alike
  <2>7. PICK b : b = f[n]
    OBVIOUS
  <2>8. /\ IsSessions(b.session) /\ (\A s \in Surfaces : v[s].session = b.session[s])
        /\ Contained(d.queues, b.used)
    BY <1>13, <1>14, <1>17, <2>7 DEF InState
  <2>9. Contained(z.queues, b.used)
    BY <1>14, <2>3, <2>4, <2>6, <2>8 DEF Alike
  <2>10. InState([d |-> z, view |-> p.view], b)
    BY <2>4, <2>8, <2>9 DEF InState, SameSession
  <2> QED
    BY <1>8, <1>9, <1>15, <2>2, <2>6, <2>7, <2>10 DEF LinkedOk
<1> QED
  BY <1>16, <1>17

\* A frame that is submitted to the decoder is of an event that waits for it.
LEMMA CandidateIs ==
  ASSUME NEW d, NEW v, DestinationOk(d, v), NEW s \in Surfaces, NEW f \in DecodeCandidate(d, s)
  PROVE  f \notin d.decoded /\ \E i \in 1 .. Len(d.queues[s]) : f \in FramesOf(d.queues[s][i])
<1>1. PICK q, e, fs : q = d.queues[s] /\ e = Lookahead(d, s) /\ fs = Frames(e)
  OBVIOUS
<1>2. IsSeq(q) /\ q # <<>> /\ \A i \in 1 .. Len(q) : Fits(q[i], v[s].session)
  BY <1>1 DEF DestinationOk, QueuesOk, DecodeCandidate
<1>3. Len(q) \in Nat /\ Len(q) > 0 /\ Head(q) = q[1]
  BY <1>2 DEF IsSeq
<1>4. PICK i \in 1 .. Len(q) : e = q[i]
  <2>1. (e = q[2] /\ Len(q) > 1) \/ e = q[1]
    BY <1>1, <1>3 DEF Lookahead
  <2> QED
    BY <1>3, <2>1
<1>5. PICK I, k : /\ I = {j \in 1 .. Len(fs) : ~Submitted(d, fs[j]) /\ fs[j] \in ArrivedFrames(d)}
                  /\ k = IF I # {} THEN Min(I) ELSE 0
  OBVIOUS
<1>6. f \in IF k = 0 THEN {} ELSE {fs[k]}
  BY <1>1, <1>2, <1>5 DEF DecodeCandidate, SelectInSeq
<1>7. I # {}
  BY <1>5, <1>6
<1>8. k \in I
  <2>1. I \subseteq Nat
    BY <1>5
  <2>2. Min(I) \in I
    BY <1>7, <2>1, MinOf
  <2> QED
    BY <1>5, <1>7, <2>2
<1>9. f = fs[k] /\ k \in 1 .. Len(fs) /\ ~Submitted(d, f)
  BY <1>5, <1>6, <1>8
<1>10. e.kind = "commit"
  <2>1. SUFFICES ASSUME e.kind # "commit" PROVE FALSE
    OBVIOUS
  <2>2. Len(fs) = 0
    BY <1>1, <2>1 DEF Frames
  <2> QED
    BY <1>9, <2>2
<1>11. f \in FramesOf(e)
  BY <1>1, <1>2, <1>4, <1>9, <1>10, FramesListed DEF Fits
<1> QED
  BY <1>1, <1>4, <1>9, <1>11 DEF Submitted

\* schedule_decode: the context that is there from now on is accounted for.
LEMMA AdvanceOk ==
  ASSUME NEW v, DestinationOk(dst, v), NEW s \in Surfaces, Advance(s)
  PROVE  DestinationOk(dst', v) /\ dst'.queues = dst.queues /\ (dst'.error = "none" => dst.error = "none")
<1>1. PICK d, x : d = dst /\ x = dst'
  OBVIOUS
<1>2. PICK f \in DecodeCandidate(d, s) : ScheduleDecode(s, f)
  BY <1>1 DEF Advance
<1>3. f \notin d.decoded /\ \E i \in 1 .. Len(d.queues[s]) : f \in FramesOf(d.queues[s][i])
  BY <1>1, <1>2, CandidateIs
<1>4. IsEnd(d) /\ Generation(f) \in Accounted(d)
  BY <1>1, <1>3 DEF DestinationOk, ContextsOk
<1>5. PICK g, arr, J, one, dec : /\ g = Generation(f) /\ arr = {p \in d.arrived : p.frame # f}
                                 /\ J = d.jobs \union {[frame |-> f, cancelled |-> FALSE]}
                                 /\ one = [y \in {g} |-> f.seq + 1] /\ dec = Over(one, d.decoders)
  OBVIOUS
<1>6. PICK z : z = [d EXCEPT !.arrived = arr, !.jobs = J, !.decoders = dec]
  OBVIOUS
<1>7. x = z \/ \E why \in {"session", "reference"} : x = Fail(d, why)
  BY <1>1, <1>2, <1>5, <1>6 DEF ScheduleDecode
<1>8. ASSUME NEW why \in {"session", "reference"}, x = Fail(d, why)
      PROVE  DestinationOk(x, v) /\ x.queues = d.queues /\ x.error # "none"
  BY <1>1, <1>8, FailOk
<1>9. CASE x = z
  <2>1. /\ IsEnd(x) /\ x.queues = d.queues /\ x.decoded = d.decoded /\ x.streams = d.streams
        /\ x.retiring = d.retiring /\ x.decoders = dec /\ x.error = d.error
    BY <1>4, <1>6, <1>9 DEF IsEnd
  <2>2. DOMAIN dec = {g} \union DOMAIN d.decoders
    <3>1. IsOver(dec, one, d.decoders)
      BY <1>5, OverFacts
    <3>2. DOMAIN one = {g}
      BY <1>5
    <3> QED
      BY <3>1, <3>2 DEF IsOver
  <2>3. Accounted(x) = Accounted(d)
    BY <2>1 DEF Accounted
  <2>4. ContextsOk(x)
    BY <1>1, <1>4, <1>5, <2>1, <2>2, <2>3 DEF DestinationOk, ContextsOk
  <2> QED
    BY <1>1, <2>1, <2>4 DEF DestinationOk
<1> QED
  BY <1>1, <1>7, <1>8, <1>9

\* The end of a poll.
LEMMA AdvanceEndsOk ==
  ASSUME NEW v, DestinationOk(dst, v), AdvanceEnds
  PROVE  DestinationOk(dst', v) /\ dst'.queues = dst.queues /\ (dst'.error = "none" => dst.error = "none")
<1>1. PICK x, z : x = Sweep(dst) /\ z = dst'
  OBVIOUS
<1>2. z = [x EXCEPT !.call = "idle"]
  BY <1>1 DEF AdvanceEnds
<1>3. DestinationOk(x, v) /\ x.queues = dst.queues /\ x.error = dst.error
  BY <1>1, SweepOk
<1>4. Alike(x, z) /\ z.error = x.error
  BY <1>2, <1>3 DEF DestinationOk, Alike, IsEnd
<1> QED
  BY <1>1, <1>3, <1>4, AlikeOk DEF Alike

\* Every step of the destination keeps the line right.
LEMMA DestinationNextOk ==
  ASSUME LaneOk, NEW cl, IsSeq(src.outControl), LinkedOk(dst, shown, control, cl, src), DestinationNext
  PROVE  IsSeq(control') /\ Len(control') <= ControlRoom /\ LinkedOk(dst', shown', control', cl, src)
<1>1. CASE \E n \in 0 .. Len(control), m \in 0 .. Len(media), done \in SUBSET dst.jobs :
             n <= ControlBudget(dst) /\ m <= MediaBudget(dst) /\ DestinationPoll(n, m, done)
  <2>1. PICK n \in 0 .. Len(control), m \in 0 .. Len(media), done \in SUBSET dst.jobs : DestinationPoll(n, m, done)
    BY <1>1
  <2>2. dst.error = "none" /\ Receive(n, m, done)
    BY <2>1 DEF DestinationPoll
  <2> QED
    BY <2>2, ReceiveOk
<1>2. CASE (\E s \in Surfaces : Advance(s)) \/ AdvanceEnds
  <2>1. /\ DestinationOk(dst', shown) /\ dst'.queues = dst.queues /\ (dst'.error = "none" => dst.error = "none")
    BY <1>2, AdvanceOk, AdvanceEndsOk DEF LinkedOk
  <2>2. shown' = shown /\ control' = control
    BY <1>2 DEF Advance, AdvanceEnds
  <2>3. ASSUME NEW a, InState([d |-> dst, view |-> shown], a)
        PROVE  InState([d |-> dst', view |-> shown], a)
    BY <2>1, <2>3 DEF InState
  <2>4. LinkedOk(dst', shown, control, cl, src)
    BY <2>1, <2>3 DEF LinkedOk
  <2> QED
    BY <2>2, <2>4 DEF LaneOk
<1> QED
  BY <1>1, <1>2 DEF DestinationNext

-----------------------------------------------------------------------------
(* The link.                                                               *)

LinkInv == SourceInv /\ LinkedOk(dst, shown, control, Sessions(client), src)

\* The invariant holds at first,
LEMMA StartsOk ==
  ASSUME Init
  PROVE  LinkInv
<1>1. limits \in Links /\ control = <<>> /\ media = <<>> /\ SourceInit /\ DestinationInit
  BY DEF Init
<1>2. IsSeq(<<>>) /\ Len(<<>>) = 0 /\ <<>> \o <<>> = <<>>
  BY DEF IsSeq
<1>3. DOMAIN Empty = {} /\ IsMap(Empty)
  BY DEF Empty, IsMap
<1>4. PICK cl : cl = [s \in Surfaces |-> 0]
  OBVIOUS
<1>5. Sessions(client) = cl /\ ClientOk(client)
  <2>1. PICK A : A = limits.surfaces
    OBVIOUS
  <2>2. client = [s \in Surfaces |-> [alive |-> s \in A, session |-> 0, rev |-> 0, mapped |-> FALSE,
                                      layers |-> Empty, role |-> 1, meta |-> 1]]
    BY <1>1, <2>1 DEF SourceInit
  <2>3. \A s \in Surfaces : client[s].session = 0 /\ ClientRec(client[s])
    BY <1>3, <2>2 DEF ClientRec
  <2> QED
    BY <1>4, <2>2, <2>3 DEF Sessions, ClientOk
<1>6. SourceOk(cl, src) /\ src.call = "idle" /\ src.outControl = <<>> /\ src.batch = NoBatch
  <2>1. src = [pending |-> [s \in Surfaces |-> <<>>], resizing |-> {}, streams |-> Empty,
               nextStream |-> 1, batch |-> NoBatch, outControl |-> <<>>, outMedia |-> <<>>,
               encoders |-> {}, call |-> "idle", error |-> "none"]
    BY <1>1 DEF SourceInit
  <2>2. /\ IsPort(src) /\ src.pending = [s \in Surfaces |-> <<>>] /\ src.streams = Empty /\ src.nextStream = 1
        /\ src.batch = NoBatch /\ src.outControl = <<>> /\ src.encoders = {} /\ src.call = "idle"
    BY <2>1 DEF IsPort
  <2>3. \A s \in Surfaces : PendingOk(src.pending[s], s, cl[s])
    BY <1>2, <2>2 DEF PendingOk
  <2>4. StreamsOk(src.streams, src.nextStream)
    BY <1>3, <2>2 DEF StreamsOk
  <2>5. EncodersOk(src) /\ BatchOk(src.batch, cl, src.streams)
    BY <2>2 DEF EncodersOk, Active, BatchOk
  <2> QED
    BY <1>2, <2>2, <2>3, <2>4, <2>5 DEF SourceOk
<1>7. SourceInv
  <2>1. LaneOk
    <3>1. ControlRoom \in Nat
      BY <1>1, LanesAssumption DEF ControlRoom
    <3> QED
      BY <1>1, <1>2, <3>1 DEF LaneOk
  <2>2. ReplayOk(replay, cl) /\ BoundsOk(bounds)
    <3>1. replay = <<>> /\ bounds = [sessions |-> 0, resizes |-> 0]
      BY <1>1 DEF SourceInit
    <3> QED
      BY <3>1, NoReplay DEF BoundsOk
  <2> QED
    BY <1>5, <1>6, <2>1, <2>2 DEF SourceInv
<1>8. DestinationOk(dst, shown) /\ \A s \in Surfaces : dst.queues[s] = <<>> /\ shown[s].session = 0
  <2>1. shown = [s \in Surfaces |-> NotShown]
    BY <1>1 DEF DestinationInit
  <2>2. ViewOk(shown) /\ \A s \in Surfaces : shown[s].session = 0
    BY <2>1 DEF ViewOk, IsView, NotShown
  <2>3. /\ IsEnd(dst) /\ dst.queues = [s \in Surfaces |-> <<>>] /\ dst.decoders = Empty
    BY <1>1 DEF DestinationInit, IsEnd
  <2>4. QueuesOk(dst.queues, shown) /\ Distinct(dst.queues) /\ ContextsOk(dst)
    BY <1>2, <1>3, <2>3 DEF QueuesOk, Distinct, ContextsOk
  <2> QED
    BY <2>2, <2>3, <2>4 DEF DestinationOk
<1>9. PICK a : a = State(cl, {})
  OBVIOUS
<1>10. InState([d |-> dst, view |-> shown], a)
  <2>1. a.session = cl /\ a.used = {}
    BY <1>9 DEF State
  <2> QED
    BY <1>2, <1>4, <1>8, <2>1 DEF InState, IsSessions, Contained
<1>11. LineOk(a, control, cl, src)
  <2>1. Path(a, <<>>, State(cl, {}))
    BY <1>9, NoPath
  <2>2. Path(a, control \o src.outControl, State(cl, {}))
    BY <1>1, <1>2, <1>6, <2>1
  <2>3. Coming(src) = {}
    BY <1>6 DEF Coming
  <2> QED
    BY <2>2, <2>3 DEF LineOk
<1> QED
  BY <1>5, <1>7, <1>8, <1>10, <1>11 DEF LinkInv, LinkedOk

\* and every step of the link keeps it.
LEMMA StepsOk ==
  ASSUME LinkInv, [Next]_vars
  PROVE  LinkInv'
<1>1. PICK cl : cl = Sessions(client)
  OBVIOUS
<1>2. LaneOk /\ SourceOk(cl, src) /\ LinkedOk(dst, shown, control, cl, src)
  BY <1>1 DEF LinkInv, SourceInv
<1>3. CASE SourceTurn /\ SourceNext /\ UNCHANGED <<limits, destinationVars>>
  <2>1. SourceMoves
    BY <1>3, SourceNextOk DEF LinkInv
  <2>2. PICK dl, c, st : dl = Sessions(client') /\ c = control' /\ st = src'
    OBVIOUS
  <2>3. /\ Returned(cl, control, src, dl, c, st) /\ ClientOk(client') /\ ReplayOk(replay', dl) /\ BoundsOk(bounds')
    BY <1>1, <2>1, <2>2 DEF SourceMoves
  <2>4. limits' = limits /\ dst' = dst /\ shown' = shown
    BY <1>3 DEF destinationVars
  <2>5. /\ SourceOk(dl, st) /\ IsSeq(c) /\ Len(c) <= ControlRoom /\ (st.call # "idle" => st.batch = NoBatch)
        /\ \A a : LineOk(a, control, cl, src) => LineOk(a, c, dl, st)
    BY <2>3 DEF Returned
  <2>6. LinkedOk(dst, shown, c, dl, st)
    BY <1>2, <2>5 DEF LinkedOk
  <2>7. LaneOk'
    BY <1>2, <2>2, <2>4, <2>5 DEF LaneOk, ControlRoom
  <2>8. SourceInv'
    BY <2>2, <2>3, <2>5, <2>7 DEF SourceInv
  <2> QED
    BY <2>2, <2>4, <2>6, <2>8 DEF LinkInv
<1>4. CASE DestinationTurn /\ DestinationNext /\ UNCHANGED <<limits, sourceVars>>
  <2>1. IsSeq(src.outControl)
    BY <1>2 DEF SourceOk
  <2>2. IsSeq(control') /\ Len(control') <= ControlRoom /\ LinkedOk(dst', shown', control', cl, src)
    BY <1>2, <1>4, <2>1, DestinationNextOk
  <2>3. limits' = limits /\ client' = client /\ replay' = replay /\ bounds' = bounds /\ src' = src
    BY <1>4 DEF sourceVars
  <2>4. LaneOk'
    BY <1>2, <2>2, <2>3 DEF LaneOk, ControlRoom
  <2>5. SourceInv'
    BY <2>3, <2>4 DEF LinkInv, SourceInv
  <2> QED
    BY <1>1, <2>2, <2>3, <2>5 DEF LinkInv
<1>5. CASE UNCHANGED vars
  <2>1. /\ limits' = limits /\ control' = control /\ client' = client /\ replay' = replay /\ bounds' = bounds
        /\ src' = src /\ shown' = shown /\ dst' = dst
    BY <1>5 DEF vars, sourceVars, destinationVars
  <2> QED
    BY <2>1 DEF LinkInv, SourceInv, LaneOk, ControlRoom
<1> QED
  BY <1>3, <1>4, <1>5 DEF Next

\* A withdrawn session leaves nothing behind, whatever the surfaces, the layers
\* and the limits: cancel_surface and cancel_encode drop all that it queued, and
\* no encoder context outlives its stream and its job.
THEOREM SessionsAlwaysLeaveNothing == Spec => []SessionsLeaveNothing
<1>1. LinkInv => SessionsLeaveNothing
  <2> SUFFICES ASSUME LinkInv PROVE SessionsLeaveNothing
    OBVIOUS
  <2>1. PICK active, current : /\ active = {Generation(b.active) : b \in {src.batch} \ {NoBatch}}
                               /\ current = {Generation(src.streams[k]) : k \in DOMAIN src.streams}
    OBVIOUS
  <2>2. active = Active(src) /\ current = Current(src)
    BY <2>1 DEF Active, Current
  <2>3. active \subseteq src.encoders /\ src.encoders \subseteq active \union current
    BY <2>2 DEF LinkInv, SourceInv, SourceOk, EncodersOk
  <2>4. QueuesOk(dst.queues, shown)
    BY DEF LinkInv, LinkedOk, DestinationOk
  <2>5. ASSUME NEW s \in Surfaces, NEW e \in ToSet(dst.queues[s]) PROVE e.session = shown[s].session
    <3>1. ToSet(dst.queues[s]) = {dst.queues[s][i] : i \in 1 .. Len(dst.queues[s])}
      BY <2>4, SeqFacts DEF QueuesOk
    <3> QED
      BY <2>4, <2>5, <3>1 DEF QueuesOk, Fits
  <2> QED
    BY <2>1, <2>3, <2>5 DEF SessionsLeaveNothing
<1> QED
  BY <1>1, StartsOk, StepsOk, PTL DEF Spec

\* No decoder context leaks, whatever is presented, cancelled or decoded in
\* between: sweep_retirement and cancel_surface keep an account of each.
THEOREM DecodersAlwaysAccounted == Spec => []DecodersAccounted
<1>1. LinkInv => DecodersAccounted
  BY DEF LinkInv, LinkedOk, DestinationOk, ContextsOk, Accounted, DecodersAccounted
<1> QED
  BY <1>1, StartsOk, StepsOk, PTL DEF Spec
=============================================================================
