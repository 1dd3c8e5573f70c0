--------------------------- MODULE RelayLinkProofs --------------------------
(***************************************************************************)
(* ClaimsSettled, EveryWindowAdmitted and OnlyStaleSessionsFail for any    *)
(* surfaces, popups, sessions, environments and orders of events.          *)
(*                                                                         *)
(* RelayInv relates the source to the local host: what the host will know  *)
(* once all that waits is played. LinkInv relates the two ends: the        *)
(* records under way bring what the destination knows to what the source   *)
(* has mapped, but for gone surfaces whose end still waits in the port.    *)
(***************************************************************************)
EXTENDS RelayLink, FiniteSetTheorems, SequenceTheorems, WellFoundedInduction, TLAPS

-----------------------------------------------------------------------------
(* Induction over the indices of a sequence, from the least counterexample.*)

Less == {p \in Nat \X Nat : p[1] < p[2]}

LEMMA LessWellFounded == IsWellFoundedOn(Less, Nat)
BY NatLessThanWellFounded DEF OpToRel, Less

LEMMA MinimalOf ==
  ASSUME NEW T, T \subseteq Nat, T # {}
  PROVE  \E x \in T : \A y \in T : ~(<<y, x>> \in Less)
BY LessWellFounded, WFMin, Zenon

LEMMA NotLess ==
  ASSUME NEW x \in Nat, NEW y \in Nat, ~(<<y, x>> \in Less)
  PROVE  x <= y
BY DEF Less

LEMMA LeastOf ==
  ASSUME NEW T, T \subseteq Nat, T # {}
  PROVE  \E x \in T : \A y \in T : x <= y
<1>1. PICK x \in T : \A y \in T : ~(<<y, x>> \in Less)
  BY MinimalOf
<1>2. \A y \in T : x <= y
  BY <1>1, NotLess
<1> QED
  BY <1>2

Inductive(N, P) == N \in Nat /\ 0 \in P /\ \A n \in 1 .. N : n - 1 \in P => n \in P

LEMMA Induct ==
  ASSUME NEW N, NEW P, Inductive(N, P)
  PROVE  N \in P
<1> DEFINE T == {n \in 0 .. N : n \notin P}
<1> SUFFICES ASSUME T # {} PROVE FALSE
  BY DEF Inductive
<1>1. T \subseteq Nat
  OBVIOUS
<1> HIDE DEF T
<1>2. PICK x \in T : \A y \in T : x <= y
  BY <1>1, LeastOf
<1>3. x \in 1 .. N /\ x \notin P
  BY <1>2 DEF T, Inductive
<1>4. x - 1 \in T
  BY <1>3 DEF T, Inductive
<1> QED
  BY <1>2, <1>3, <1>4 DEF Inductive

-----------------------------------------------------------------------------
(* Sequences and finite sets.                                              *)

IsSeq(q) == \E E : q \in Seq(E)
IsMap(f) == f = [x \in DOMAIN f |-> f[x]]

LEMMA SeqFacts ==
  ASSUME NEW q, IsSeq(q)
  PROVE  Len(q) \in Nat /\ DOMAIN q = 1 .. Len(q) /\ ToSet(q) = {q[i] : i \in 1 .. Len(q)}
BY DEF IsSeq, ToSet

LEMMA ConcatFacts ==
  ASSUME NEW q, NEW p, IsSeq(q), IsSeq(p)
  PROVE  /\ IsSeq(q \o p) /\ Len(q \o p) = Len(q) + Len(p)
         /\ \A i \in 1 .. Len(q) : (q \o p)[i] = q[i]
         /\ \A i \in 1 .. Len(p) : (q \o p)[Len(q) + i] = p[i]
<1>1. PICK E, F : q \in Seq(E) /\ p \in Seq(F)
  BY DEF IsSeq
<1>2. q \in Seq(E \union F) /\ p \in Seq(E \union F)
  BY <1>1
<1>3. q \o p \in Seq(E \union F)
  BY <1>2, ConcatProperties
<1>4. /\ Len(q \o p) = Len(q) + Len(p)
      /\ \A i \in 1 .. Len(q) + Len(p) : (q \o p)[i] = IF i <= Len(q) THEN q[i] ELSE p[i - Len(q)]
  BY <1>2, ConcatProperties
<1>5. Len(q) \in Nat /\ Len(p) \in Nat
  BY <1>2
<1> QED
  BY <1>3, <1>4, <1>5 DEF IsSeq

\* SetToSeq lists a finite set.
LEMMA Listed ==
  ASSUME NEW S, IsFiniteSet(S)
  PROVE  IsSeq(SetToSeq(S)) /\ ToSet(SetToSeq(S)) = S /\ SetToSeq(S) \in Seq(S)
<1> DEFINE n == Cardinality(S)
<1>1. n \in Nat /\ \E f : f \in Bijection(1 .. n, S)
  BY FS_CardinalityType DEF ExistsBijection
<1>2. PICK f : f \in Bijection(1 .. n, S)
  BY <1>1
<1>3. f \in [1 .. n -> S] /\ IsInjective(f)
  BY <1>2 DEF Bijection, Injection, IsInjective
<1> DEFINE g == SetToSeq(S)
<1>4. g \in [1 .. n -> S] /\ IsInjective(g)
  BY <1>3 DEF SetToSeq
<1> HIDE DEF g
<1>5. g \in Seq(S)
  BY <1>1, <1>4
<1>6. g \in Injection(1 .. n, S)
  BY <1>4 DEF Injection, IsInjective
<1>7. g \in Surjection(1 .. n, S)
  <2>1. IsFiniteSet(1 .. n) /\ Cardinality(1 .. n) = n
    BY <1>1, FS_Interval
  <2> QED
    BY <1>6, <2>1, FS_Injection
<1>8. ToSet(g) = S
  BY <1>4, <1>7 DEF Surjection, ToSet
<1> QED
  BY <1>5, <1>8 DEF g, IsSeq

\* The image of a finite set.
LEMMA ImageFinite ==
  ASSUME NEW S, IsFiniteSet(S), NEW f, DOMAIN f = S
  PROVE  IsFiniteSet({f[x] : x \in S})
<1> DEFINE T == {f[x] : x \in S}
           g == [x \in S |-> f[x]]
<1>1. g \in Surjection(S, T)
  BY DEF Surjection
<1> QED
  BY <1>1, FS_Surjection

-----------------------------------------------------------------------------
(* What waits is played in order, and what is appended after it.           *)

EffectsRun(f, u, q) == f[0] = u /\ \A n \in 1 .. Len(q) : f[n] = Apply(f[n - 1], q[n])
EffectsDef(f, N, u, q) == f = [n \in 0 .. N |-> IF n = 0 THEN u ELSE Apply(f[n - 1], q[n])]

LEMMA EffectsRunExists ==
  ASSUME NEW u, NEW q, Len(q) \in Nat
  PROVE  \E f : EffectsDef(f, Len(q), u, q)
<1> DEFINE P == {n \in 0 .. Len(q) : \E f : EffectsDef(f, n, u, q)}
<1>1. 0 \in P
  <2>1. EffectsDef([n \in 0 .. 0 |-> u], 0, u, q)
    BY DEF EffectsDef
  <2> QED
    BY <2>1
<1>2. ASSUME NEW n \in 1 .. Len(q), n - 1 \in P
      PROVE  n \in P
  <2>1. PICK f : EffectsDef(f, n - 1, u, q)
    BY <1>2
  <2>2. \A m \in 0 .. n - 1 : f[m] = IF m = 0 THEN u ELSE Apply(f[m - 1], q[m])
    BY <2>1 DEF EffectsDef
  <2> DEFINE g == [m \in 0 .. n |-> IF m = n THEN Apply(f[n - 1], q[n]) ELSE f[m]]
  <2>3. g[n] = Apply(f[n - 1], q[n]) /\ \A m \in 0 .. n - 1 : g[m] = f[m]
    OBVIOUS
  <2>4. g = [m \in 0 .. n |-> g[m]]
    OBVIOUS
  <2> HIDE DEF g
  <2>5. ASSUME NEW m \in 0 .. n
        PROVE  g[m] = IF m = 0 THEN u ELSE Apply(g[m - 1], q[m])
    <3>1. CASE m = n
      BY <2>3, <3>1
    <3>2. CASE m = 0
      BY <2>2, <2>3, <3>2
    <3>3. CASE m # n /\ m # 0
      <4>1. m \in 0 .. n - 1 /\ m - 1 \in 0 .. n - 1
        BY <3>3
      <4> QED
        BY <2>2, <2>3, <3>3, <4>1
    <3> QED
      BY <3>1, <3>2, <3>3
  <2>6. EffectsDef(g, n, u, q)
    BY <2>4, <2>5 DEF EffectsDef
  <2> QED
    BY <2>6
<1> HIDE DEF P
<1>3. Inductive(Len(q), P)
  BY <1>1, <1>2 DEF Inductive
<1>4. Len(q) \in P
  BY <1>3, Induct
<1> QED
  BY <1>4 DEF P

LEMMA EffectsRuns ==
  ASSUME NEW u, NEW q, Len(q) \in Nat
  PROVE  \E f : EffectsRun(f, u, q) /\ AfterEffects(u, q) = f[Len(q)]
<1> DEFINE f == CHOOSE g : EffectsDef(g, Len(q), u, q)
<1>1. AfterEffects(u, q) = f[Len(q)]
  BY DEF AfterEffects, EffectsDef
<1>2. EffectsDef(f, Len(q), u, q)
  BY EffectsRunExists
<1> HIDE DEF f
<1>3. \A n \in 0 .. Len(q) : f[n] = IF n = 0 THEN u ELSE Apply(f[n - 1], q[n])
  BY <1>2 DEF EffectsDef
<1>4. EffectsRun(f, u, q)
  BY <1>3 DEF EffectsRun
<1> QED
  BY <1>1, <1>4

LEMMA EffectsNothing ==
  ASSUME NEW u
  PROVE  AfterEffects(u, <<>>) = u
<1>1. Len(<<>>) = 0 /\ Len(<<>>) \in Nat
  OBVIOUS
<1>2. PICK f : EffectsRun(f, u, <<>>) /\ AfterEffects(u, <<>>) = f[Len(<<>>)]
  BY <1>1, EffectsRuns
<1> QED
  BY <1>1, <1>2 DEF EffectsRun

LEMMA EffectsConcat ==
  ASSUME NEW u, NEW q, NEW p, IsSeq(q), IsSeq(p)
  PROVE  AfterEffects(u, q \o p) = AfterEffects(AfterEffects(u, q), p)
<1>1. Len(q) \in Nat /\ Len(p) \in Nat
  BY SeqFacts
<1>2. PICK c : c = q \o p
  OBVIOUS
<1>3. /\ Len(c) = Len(q) + Len(p) /\ Len(c) \in Nat
      /\ \A i \in 1 .. Len(q) : c[i] = q[i]
      /\ \A i \in 1 .. Len(p) : c[Len(q) + i] = p[i]
  BY <1>1, <1>2, ConcatFacts
<1>4. PICK f : EffectsRun(f, u, c) /\ AfterEffects(u, c) = f[Len(c)]
  BY <1>3, EffectsRuns
<1>5. PICK g : EffectsRun(g, u, q) /\ AfterEffects(u, q) = g[Len(q)]
  BY <1>1, EffectsRuns
<1>6. PICK h : EffectsRun(h, g[Len(q)], p) /\ AfterEffects(g[Len(q)], p) = h[Len(p)]
  BY <1>1, EffectsRuns
<1>7. f[Len(q)] = g[Len(q)]
  <2> DEFINE P == {n \in 0 .. Len(q) : f[n] = g[n]}
  <2>1. 0 \in P
    BY <1>1, <1>4, <1>5 DEF EffectsRun
  <2>2. ASSUME NEW n \in 1 .. Len(q), n - 1 \in P
        PROVE  n \in P
    <3>1. n \in 1 .. Len(c) /\ c[n] = q[n]
      BY <1>1, <1>3
    <3> QED
      BY <1>4, <1>5, <2>2, <3>1 DEF EffectsRun
  <2> HIDE DEF P
  <2>3. Inductive(Len(q), P)
    BY <1>1, <2>1, <2>2 DEF Inductive
  <2>4. Len(q) \in P
    BY <2>3, Induct
  <2> QED
    BY <2>4 DEF P
<1>8. f[Len(q) + Len(p)] = h[Len(p)]
  <2> DEFINE P == {n \in 0 .. Len(p) : f[Len(q) + n] = h[n]}
  <2>1. 0 \in P
    BY <1>1, <1>6, <1>7 DEF EffectsRun
  <2>2. ASSUME NEW n \in 1 .. Len(p), n - 1 \in P
        PROVE  n \in P
    <3>1. Len(q) + n \in 1 .. Len(c) /\ c[Len(q) + n] = p[n] /\ Len(q) + (n - 1) = Len(q) + n - 1
      BY <1>1, <1>3
    <3>2. f[Len(q) + n] = Apply(f[Len(q) + n - 1], c[Len(q) + n])
      BY <1>4, <3>1 DEF EffectsRun
    <3>3. h[n] = Apply(h[n - 1], p[n])
      BY <1>6 DEF EffectsRun
    <3>4. f[Len(q) + n - 1] = h[n - 1]
      BY <2>2, <3>1
    <3>5. f[Len(q) + n] = h[n]
      BY <3>1, <3>2, <3>3, <3>4
    <3> QED
      BY <3>5
  <2> HIDE DEF P
  <2>3. Inductive(Len(p), P)
    BY <1>1, <2>1, <2>2 DEF Inductive
  <2>4. Len(p) \in P
    BY <2>3, Induct
  <2> QED
    BY <2>4 DEF P
<1> QED
  BY <1>2, <1>3, <1>4, <1>5, <1>6, <1>8

ClaimsRun(f, u, q) == f[0] = u /\ \A n \in 1 .. Len(q) : f[n] = ApplyClaim(f[n - 1], q[n])
ClaimsDef(f, N, u, q) == f = [n \in 0 .. N |-> IF n = 0 THEN u ELSE ApplyClaim(f[n - 1], q[n])]

LEMMA ClaimsRunExists ==
  ASSUME NEW u, NEW q, Len(q) \in Nat
  PROVE  \E f : ClaimsDef(f, Len(q), u, q)
<1> DEFINE P == {n \in 0 .. Len(q) : \E f : ClaimsDef(f, n, u, q)}
<1>1. 0 \in P
  <2>1. ClaimsDef([n \in 0 .. 0 |-> u], 0, u, q)
    BY DEF ClaimsDef
  <2> QED
    BY <2>1
<1>2. ASSUME NEW n \in 1 .. Len(q), n - 1 \in P
      PROVE  n \in P
  <2>1. PICK f : ClaimsDef(f, n - 1, u, q)
    BY <1>2
  <2>2. \A m \in 0 .. n - 1 : f[m] = IF m = 0 THEN u ELSE ApplyClaim(f[m - 1], q[m])
    BY <2>1 DEF ClaimsDef
  <2> DEFINE g == [m \in 0 .. n |-> IF m = n THEN ApplyClaim(f[n - 1], q[n]) ELSE f[m]]
  <2>3. g[n] = ApplyClaim(f[n - 1], q[n]) /\ \A m \in 0 .. n - 1 : g[m] = f[m]
    OBVIOUS
  <2>4. g = [m \in 0 .. n |-> g[m]]
    OBVIOUS
  <2> HIDE DEF g
  <2>5. ASSUME NEW m \in 0 .. n
        PROVE  g[m] = IF m = 0 THEN u ELSE ApplyClaim(g[m - 1], q[m])
    <3>1. CASE m = n
      BY <2>3, <3>1
    <3>2. CASE m = 0
      BY <2>2, <2>3, <3>2
    <3>3. CASE m # n /\ m # 0
      <4>1. m \in 0 .. n - 1 /\ m - 1 \in 0 .. n - 1
        BY <3>3
      <4> QED
        BY <2>2, <2>3, <3>3, <4>1
    <3> QED
      BY <3>1, <3>2, <3>3
  <2>6. ClaimsDef(g, n, u, q)
    BY <2>4, <2>5 DEF ClaimsDef
  <2> QED
    BY <2>6
<1> HIDE DEF P
<1>3. Inductive(Len(q), P)
  BY <1>1, <1>2 DEF Inductive
<1>4. Len(q) \in P
  BY <1>3, Induct
<1> QED
  BY <1>4 DEF P

LEMMA ClaimsRuns ==
  ASSUME NEW u, NEW q, Len(q) \in Nat
  PROVE  \E f : ClaimsRun(f, u, q) /\ AfterClaims(u, q) = f[Len(q)]
<1> DEFINE f == CHOOSE g : ClaimsDef(g, Len(q), u, q)
<1>1. AfterClaims(u, q) = f[Len(q)]
  BY DEF AfterClaims, ClaimsDef
<1>2. ClaimsDef(f, Len(q), u, q)
  BY ClaimsRunExists
<1> HIDE DEF f
<1>3. \A n \in 0 .. Len(q) : f[n] = IF n = 0 THEN u ELSE ApplyClaim(f[n - 1], q[n])
  BY <1>2 DEF ClaimsDef
<1>4. ClaimsRun(f, u, q)
  BY <1>3 DEF ClaimsRun
<1> QED
  BY <1>1, <1>4

LEMMA ClaimsNothing ==
  ASSUME NEW u
  PROVE  AfterClaims(u, <<>>) = u
<1>1. Len(<<>>) = 0 /\ Len(<<>>) \in Nat
  OBVIOUS
<1>2. PICK f : ClaimsRun(f, u, <<>>) /\ AfterClaims(u, <<>>) = f[Len(<<>>)]
  BY <1>1, ClaimsRuns
<1> QED
  BY <1>1, <1>2 DEF ClaimsRun

LEMMA ClaimsConcat ==
  ASSUME NEW u, NEW q, NEW p, IsSeq(q), IsSeq(p)
  PROVE  AfterClaims(u, q \o p) = AfterClaims(AfterClaims(u, q), p)
<1>1. Len(q) \in Nat /\ Len(p) \in Nat
  BY SeqFacts
<1>2. PICK c : c = q \o p
  OBVIOUS
<1>3. /\ Len(c) = Len(q) + Len(p) /\ Len(c) \in Nat
      /\ \A i \in 1 .. Len(q) : c[i] = q[i]
      /\ \A i \in 1 .. Len(p) : c[Len(q) + i] = p[i]
  BY <1>1, <1>2, ConcatFacts
<1>4. PICK f : ClaimsRun(f, u, c) /\ AfterClaims(u, c) = f[Len(c)]
  BY <1>3, ClaimsRuns
<1>5. PICK g : ClaimsRun(g, u, q) /\ AfterClaims(u, q) = g[Len(q)]
  BY <1>1, ClaimsRuns
<1>6. PICK h : ClaimsRun(h, g[Len(q)], p) /\ AfterClaims(g[Len(q)], p) = h[Len(p)]
  BY <1>1, ClaimsRuns
<1>7. f[Len(q)] = g[Len(q)]
  <2> DEFINE P == {n \in 0 .. Len(q) : f[n] = g[n]}
  <2>1. 0 \in P
    BY <1>1, <1>4, <1>5 DEF ClaimsRun
  <2>2. ASSUME NEW n \in 1 .. Len(q), n - 1 \in P
        PROVE  n \in P
    <3>1. n \in 1 .. Len(c) /\ c[n] = q[n]
      BY <1>1, <1>3
    <3> QED
      BY <1>4, <1>5, <2>2, <3>1 DEF ClaimsRun
  <2> HIDE DEF P
  <2>3. Inductive(Len(q), P)
    BY <1>1, <2>1, <2>2 DEF Inductive
  <2>4. Len(q) \in P
    BY <2>3, Induct
  <2> QED
    BY <2>4 DEF P
<1>8. f[Len(q) + Len(p)] = h[Len(p)]
  <2> DEFINE P == {n \in 0 .. Len(p) : f[Len(q) + n] = h[n]}
  <2>1. 0 \in P
    BY <1>1, <1>6, <1>7 DEF ClaimsRun
  <2>2. ASSUME NEW n \in 1 .. Len(p), n - 1 \in P
        PROVE  n \in P
    <3>1. Len(q) + n \in 1 .. Len(c) /\ c[Len(q) + n] = p[n] /\ Len(q) + (n - 1) = Len(q) + n - 1
      BY <1>1, <1>3
    <3>2. f[Len(q) + n] = ApplyClaim(f[Len(q) + n - 1], c[Len(q) + n])
      BY <1>4, <3>1 DEF ClaimsRun
    <3>3. h[n] = ApplyClaim(h[n - 1], p[n])
      BY <1>6 DEF ClaimsRun
    <3>4. f[Len(q) + n - 1] = h[n - 1]
      BY <2>2, <3>1
    <3>5. f[Len(q) + n] = h[n]
      BY <3>1, <3>2, <3>3, <3>4
    <3> QED
      BY <3>5
  <2> HIDE DEF P
  <2>3. Inductive(Len(p), P)
    BY <1>1, <2>1, <2>2 DEF Inductive
  <2>4. Len(p) \in P
    BY <2>3, Induct
  <2> QED
    BY <2>4 DEF P
<1> QED
  BY <1>2, <1>3, <1>4, <1>5, <1>6, <1>8

-----------------------------------------------------------------------------
(* The host: effects leave the claims alone, claims leave the rest alone.  *)

IsHost(u) ==
  u = [seat |-> u.seat, claims |-> u.claims, scaled |-> u.scaled, gone |-> u.gone] /\ IsMap(u.claims)

LEMMA ApplyHost ==
  ASSUME NEW u, IsHost(u), NEW e
  PROVE  IsHost(Apply(u, e)) /\ Apply(u, e).claims = u.claims /\ Apply(u, e).gone = u.gone
BY DEF Apply, IsHost

LEMMA ApplyScale ==
  ASSUME NEW u, IsHost(u), NEW e
  PROVE  /\ e.kind # "scale" => Apply(u, e).scaled \subseteq u.scaled
         /\ e.kind = "unscale" => e.surface \notin Apply(u, e).scaled
         /\ e.kind = "scale" => Apply(u, e).scaled = (u.scaled \union {e.surface}) \ u.gone
BY DEF Apply, IsHost

LEMMA EffectsHost ==
  ASSUME NEW u, IsHost(u), NEW q, IsSeq(q)
  PROVE  LET a == AfterEffects(u, q) IN IsHost(a) /\ a.claims = u.claims /\ a.gone = u.gone
<1>1. Len(q) \in Nat
  BY SeqFacts
<1>2. PICK f : EffectsRun(f, u, q) /\ AfterEffects(u, q) = f[Len(q)]
  BY <1>1, EffectsRuns
<1> DEFINE P == {n \in 0 .. Len(q) : IsHost(f[n]) /\ f[n].claims = u.claims /\ f[n].gone = u.gone}
<1>3. 0 \in P
  BY <1>1, <1>2 DEF EffectsRun
<1>4. ASSUME NEW n \in 1 .. Len(q), n - 1 \in P
      PROVE  n \in P
  <2>1. f[n] = Apply(f[n - 1], q[n])
    BY <1>2 DEF EffectsRun
  <2> QED
    BY <1>4, <2>1, ApplyHost
<1> HIDE DEF P
<1>5. Inductive(Len(q), P)
  BY <1>1, <1>3, <1>4 DEF Inductive
<1>6. Len(q) \in P
  BY <1>5, Induct
<1> QED
  BY <1>2, <1>6 DEF P

\* What is appended without a scale removes what it resets.
Resets(p) == {p[i].surface : i \in {j \in 1 .. Len(p) : p[j].kind = "unscale"}}
NoScale(p) == \A i \in 1 .. Len(p) : p[i].kind # "scale"

LEMMA EffectsQuiet ==
  ASSUME NEW u, IsHost(u), NEW p, IsSeq(p), NoScale(p)
  PROVE  AfterEffects(u, p).scaled \subseteq u.scaled \ Resets(p)
<1>1. Len(p) \in Nat
  BY SeqFacts
<1>2. PICK f : EffectsRun(f, u, p) /\ AfterEffects(u, p) = f[Len(p)]
  BY <1>1, EffectsRuns
<1> DEFINE Done(n) == {p[i].surface : i \in {j \in 1 .. n : p[j].kind = "unscale"}}
           P == {n \in 0 .. Len(p) : IsHost(f[n]) /\ f[n].scaled \subseteq u.scaled \ Done(n)}
<1>3. 0 \in P
  BY <1>1, <1>2 DEF EffectsRun
<1>4. ASSUME NEW n \in 1 .. Len(p), n - 1 \in P
      PROVE  n \in P
  <2>1. f[n] = Apply(f[n - 1], p[n])
    BY <1>2 DEF EffectsRun
  <2>2. p[n].kind # "scale"
    BY DEF NoScale
  <2>3. IsHost(f[n - 1]) /\ f[n - 1].scaled \subseteq u.scaled \ Done(n - 1)
    BY <1>4
  <2>4. IsHost(f[n])
    BY <2>1, <2>3, ApplyHost
  <2>5. f[n].scaled \subseteq f[n - 1].scaled /\ (p[n].kind = "unscale" => p[n].surface \notin f[n].scaled)
    BY <2>1, <2>2, <2>3, ApplyScale
  <2>6. ASSUME NEW x \in Done(n)
        PROVE  x \in Done(n - 1) \/ (p[n].kind = "unscale" /\ x = p[n].surface)
    <3>1. PICK i \in 1 .. n : p[i].kind = "unscale" /\ x = p[i].surface
      OBVIOUS
    <3>2. CASE i = n
      BY <3>1, <3>2
    <3>3. CASE i # n
      BY <3>1, <3>3
    <3> QED
      BY <3>2, <3>3
  <2> HIDE DEF Done
  <2>7. f[n].scaled \subseteq u.scaled \ Done(n)
    BY <2>3, <2>5, <2>6
  <2> QED
    BY <2>4, <2>7
<1>5. Resets(p) = Done(Len(p))
  BY DEF Resets
<1> HIDE DEF P, Done
<1>6. Inductive(Len(p), P)
  BY <1>1, <1>3, <1>4 DEF Inductive
<1>7. Len(p) \in P
  BY <1>6, Induct
<1> QED
  BY <1>2, <1>5, <1>7 DEF P

LEMMA WithoutMap ==
  ASSUME NEW f, NEW S
  PROVE  /\ IsMap(Without(f, S)) /\ DOMAIN Without(f, S) = DOMAIN f \ S
         /\ \A x \in DOMAIN f \ S : Without(f, S)[x] = f[x]
BY DEF IsMap, Without

LEMMA ForgetHost ==
  ASSUME NEW u, IsHost(u), NEW s
  PROVE  /\ IsHost(Forget(u, s)) /\ Forget(u, s).gone = u.gone \union {s}
         /\ Forget(u, s).scaled = u.scaled \ {s} /\ Forget(u, s).claims = Without(u.claims, {s})
<1> DEFINE v == Forget(u, s)
           c == Without(u.claims, {s})
<1>1. IsMap(c)
  BY WithoutMap
<1> HIDE DEF c
<1>2. v = [seat |-> Retire(u.seat, s), claims |-> c, scaled |-> u.scaled \ {s}, gone |-> u.gone \union {s}]
  <2>1. PICK h, m, k, g : u = [seat |-> h, claims |-> m, scaled |-> k, gone |-> g]
    BY DEF IsHost
  <2>2. v = [u EXCEPT !.gone = g \union {s}, !.scaled = k \ {s}, !.claims = c, !.seat = Retire(h, s)]
    BY <2>1 DEF Forget, c
  <2> HIDE DEF v
  <2> QED
    BY <2>1, <2>2
<1> HIDE DEF v
<1>3. IsHost(v) /\ v.gone = u.gone \union {s} /\ v.scaled = u.scaled \ {s} /\ v.claims = c
  BY <1>1, <1>2 DEF IsHost
<1> QED
  BY <1>3 DEF v, c

\* v is u without the surface s.
ScaledLess(u, v, s) ==
  IsHost(u) /\ IsHost(v) /\ v.gone = u.gone \union {s} /\ v.scaled \subseteq u.scaled \ {s}

LEMMA ApplyForget ==
  ASSUME NEW u, NEW v, NEW s, ScaledLess(u, v, s), NEW e
  PROVE  ScaledLess(Apply(u, e), Apply(v, e), s)
<1>1. /\ IsHost(Apply(u, e)) /\ Apply(u, e).gone = u.gone
      /\ IsHost(Apply(v, e)) /\ Apply(v, e).gone = v.gone
  BY ApplyHost DEF ScaledLess
<1>2. Apply(v, e).scaled \subseteq Apply(u, e).scaled \ {s}
  BY DEF Apply, IsHost, ScaledLess
<1> QED
  BY <1>1, <1>2 DEF ScaledLess

\* A destroyed surface is not scaled by what waits for it.
LEMMA EffectsForget ==
  ASSUME NEW u, IsHost(u), NEW s, NEW q, IsSeq(q)
  PROVE  AfterEffects(Forget(u, s), q).scaled \subseteq AfterEffects(u, q).scaled \ {s}
<1>1. Len(q) \in Nat
  BY SeqFacts
<1>2. PICK f : EffectsRun(f, u, q) /\ AfterEffects(u, q) = f[Len(q)]
  BY <1>1, EffectsRuns
<1>3. PICK v : v = Forget(u, s)
  OBVIOUS
<1>4. PICK g : EffectsRun(g, v, q) /\ AfterEffects(v, q) = g[Len(q)]
  BY <1>1, EffectsRuns
<1>5. IsHost(v) /\ v.gone = u.gone \union {s} /\ v.scaled = u.scaled \ {s}
  BY <1>3, ForgetHost
<1> DEFINE P == {n \in 0 .. Len(q) : ScaledLess(f[n], g[n], s)}
<1>6. 0 \in P
  BY <1>1, <1>2, <1>4, <1>5 DEF EffectsRun, ScaledLess
<1>7. ASSUME NEW n \in 1 .. Len(q), n - 1 \in P
      PROVE  n \in P
  <2>1. f[n] = Apply(f[n - 1], q[n]) /\ g[n] = Apply(g[n - 1], q[n])
    BY <1>2, <1>4 DEF EffectsRun
  <2> QED
    BY <1>7, <2>1, ApplyForget
<1> HIDE DEF P
<1>8. Inductive(Len(q), P)
  BY <1>1, <1>6, <1>7 DEF Inductive
<1>9. Len(q) \in P
  BY <1>8, Induct
<1> QED
  BY <1>2, <1>3, <1>4, <1>9 DEF P, ScaledLess

LEMMA PutMap ==
  ASSUME NEW f, NEW x, NEW v
  PROVE  /\ IsMap(Put(f, x, v)) /\ DOMAIN Put(f, x, v) = DOMAIN f \union {x}
         /\ Put(f, x, v)[x] = v /\ \A y \in DOMAIN f \ {x} : Put(f, x, v)[y] = f[y]
BY DEF IsMap, Put

LEMMA MapsEqual ==
  ASSUME NEW f, NEW g, IsMap(f), IsMap(g), DOMAIN f = DOMAIN g, \A x \in DOMAIN f : f[x] = g[x]
  PROVE  f = g
BY DEF IsMap

\* The claims after an update.
Updated(f, gone, c) ==
  IF c.claim = "release" \/ c.surface \in gone THEN Without(f, {c.surface}) ELSE Put(f, c.surface, c.claim)

LEMMA ApplyClaimHost ==
  ASSUME NEW u, IsHost(u), NEW c
  PROVE  LET v == ApplyClaim(u, c)
         IN IsHost(v) /\ v.scaled = u.scaled /\ v.gone = u.gone /\ v.claims = Updated(u.claims, u.gone, c)
<1> DEFINE v == ApplyClaim(u, c)
           d == Updated(u.claims, u.gone, c)
<1>1. IsMap(d)
  BY WithoutMap, PutMap DEF Updated
<1>2. v = [u EXCEPT !.claims = d]
  BY DEF ApplyClaim, Updated
<1> HIDE DEF v, d
<1>3. IsHost(v) /\ v.scaled = u.scaled /\ v.gone = u.gone /\ v.claims = d
  BY <1>1, <1>2 DEF IsHost
<1> QED
  BY <1>3 DEF v, d

LEMMA ClaimsHost ==
  ASSUME NEW u, IsHost(u), NEW q, IsSeq(q)
  PROVE  LET a == AfterClaims(u, q) IN IsHost(a) /\ a.scaled = u.scaled /\ a.gone = u.gone
<1>1. Len(q) \in Nat
  BY SeqFacts
<1>2. PICK f : ClaimsRun(f, u, q) /\ AfterClaims(u, q) = f[Len(q)]
  BY <1>1, ClaimsRuns
<1> DEFINE P == {n \in 0 .. Len(q) : IsHost(f[n]) /\ f[n].scaled = u.scaled /\ f[n].gone = u.gone}
<1>3. 0 \in P
  BY <1>1, <1>2 DEF ClaimsRun
<1>4. ASSUME NEW n \in 1 .. Len(q), n - 1 \in P
      PROVE  n \in P
  <2>1. f[n] = ApplyClaim(f[n - 1], q[n])
    BY <1>2 DEF ClaimsRun
  <2> QED
    BY <1>4, <2>1, ApplyClaimHost
<1> HIDE DEF P
<1>5. Inductive(Len(q), P)
  BY <1>1, <1>3, <1>4 DEF Inductive
<1>6. Len(q) \in P
  BY <1>5, Induct
<1> QED
  BY <1>2, <1>6 DEF P

\* Hosts that agree on the claims, and on the surfaces of a set, agree afterwards.
LEMMA ClaimsAlike ==
  ASSUME NEW u, IsHost(u), NEW v, IsHost(v), NEW q, IsSeq(q), v.claims = u.claims, v.gone = u.gone
  PROVE  AfterClaims(v, q).claims = AfterClaims(u, q).claims
<1>1. Len(q) \in Nat
  BY SeqFacts
<1>2. PICK f : ClaimsRun(f, u, q) /\ AfterClaims(u, q) = f[Len(q)]
  BY <1>1, ClaimsRuns
<1>3. PICK g : ClaimsRun(g, v, q) /\ AfterClaims(v, q) = g[Len(q)]
  BY <1>1, ClaimsRuns
<1> DEFINE P == {n \in 0 .. Len(q) : /\ IsHost(f[n]) /\ IsHost(g[n]) /\ g[n].gone = f[n].gone
                                     /\ g[n].claims = f[n].claims}
<1>4. 0 \in P
  BY <1>1, <1>2, <1>3 DEF ClaimsRun
<1>5. ASSUME NEW n \in 1 .. Len(q), n - 1 \in P
      PROVE  n \in P
  <2>1. f[n] = ApplyClaim(f[n - 1], q[n]) /\ g[n] = ApplyClaim(g[n - 1], q[n])
    BY <1>2, <1>3 DEF ClaimsRun
  <2>2. /\ IsHost(f[n]) /\ f[n].gone = f[n - 1].gone /\ f[n].claims = Updated(f[n - 1].claims, f[n - 1].gone, q[n])
        /\ IsHost(g[n]) /\ g[n].gone = g[n - 1].gone /\ g[n].claims = Updated(g[n - 1].claims, g[n - 1].gone, q[n])
    BY <1>5, <2>1, ApplyClaimHost
  <2> QED
    BY <1>5, <2>2
<1> HIDE DEF P
<1>6. Inductive(Len(q), P)
  BY <1>1, <1>4, <1>5 DEF Inductive
<1>7. Len(q) \in P
  BY <1>6, Induct
<1> QED
  BY <1>2, <1>3, <1>7 DEF P

ForgetCommutes(f, gone, s, c) ==
  Updated(Without(f, {s}), gone \union {s}, c) = Without(Updated(f, gone, c), {s})

LEMMA UpdatedForget ==
  ASSUME NEW f, IsMap(f), NEW gone, NEW s, NEW c
  PROVE  ForgetCommutes(f, gone, s, c)
<1> DEFINE a == Updated(Without(f, {s}), gone \union {s}, c)
           b == Without(Updated(f, gone, c), {s})
<1> SUFFICES a = b
  BY DEF ForgetCommutes
<1>1. IsMap(a) /\ IsMap(b)
  BY WithoutMap, PutMap DEF Updated
<1>2. CASE c.claim = "release" \/ c.surface \in gone
  <2>1. a = Without(Without(f, {s}), {c.surface}) /\ b = Without(Without(f, {c.surface}), {s})
    BY <1>2 DEF Updated
  <2> QED
    BY <2>1 DEF Without
<1>3. CASE ~(c.claim = "release" \/ c.surface \in gone) /\ c.surface = s
  <2>1. a = Without(Without(f, {s}), {s}) /\ b = Without(Put(f, s, c.claim), {s})
    BY <1>3 DEF Updated
  <2> QED
    BY <2>1 DEF Without, Put
<1>4. CASE ~(c.claim = "release" \/ c.surface \in gone) /\ c.surface # s
  <2>1. a = Put(Without(f, {s}), c.surface, c.claim) /\ b = Without(Put(f, c.surface, c.claim), {s})
    BY <1>4 DEF Updated
  <2>2. PICK x : x = c.surface
    OBVIOUS
  <2>3. Put(Without(f, {s}), x, c.claim) = Without(Put(f, x, c.claim), {s})
    BY <1>4, <2>2 DEF Without, Put
  <2> QED
    BY <2>1, <2>2, <2>3
<1> QED
  BY <1>2, <1>3, <1>4

\* v is u without the claim of the surface s.
ClaimedLess(u, v, s) ==
  IsHost(u) /\ IsHost(v) /\ v.gone = u.gone \union {s} /\ v.claims = Without(u.claims, {s})

LEMMA ApplyClaimForget ==
  ASSUME NEW u, NEW v, NEW s, ClaimedLess(u, v, s), NEW c
  PROVE  ClaimedLess(ApplyClaim(u, c), ApplyClaim(v, c), s)
<1> DEFINE a == ApplyClaim(u, c)
           b == ApplyClaim(v, c)
<1>1. /\ IsHost(a) /\ a.gone = u.gone /\ a.claims = Updated(u.claims, u.gone, c)
      /\ IsHost(b) /\ b.gone = v.gone /\ b.claims = Updated(v.claims, v.gone, c)
  BY ApplyClaimHost DEF ClaimedLess
<1>2. IsMap(u.claims)
  BY DEF ClaimedLess, IsHost
<1> HIDE DEF a, b
<1>5. ForgetCommutes(u.claims, u.gone, s, c)
  BY <1>2, UpdatedForget
<1>3. Updated(Without(u.claims, {s}), u.gone \union {s}, c) = Without(Updated(u.claims, u.gone, c), {s})
  BY <1>5 DEF ForgetCommutes
<1>4. ClaimedLess(a, b, s)
  BY <1>1, <1>3 DEF ClaimedLess
<1> QED
  BY <1>4 DEF a, b

LEMMA ClaimsForget ==
  ASSUME NEW u, IsHost(u), NEW s, NEW q, IsSeq(q)
  PROVE  AfterClaims(Forget(u, s), q).claims = Without(AfterClaims(u, q).claims, {s})
<1>1. Len(q) \in Nat
  BY SeqFacts
<1>2. PICK f : ClaimsRun(f, u, q) /\ AfterClaims(u, q) = f[Len(q)]
  BY <1>1, ClaimsRuns
<1>3. PICK v : v = Forget(u, s)
  OBVIOUS
<1>4. PICK g : ClaimsRun(g, v, q) /\ AfterClaims(v, q) = g[Len(q)]
  BY <1>1, ClaimsRuns
<1>5. IsHost(v) /\ v.gone = u.gone \union {s} /\ v.claims = Without(u.claims, {s})
  BY <1>3, ForgetHost
<1> DEFINE P == {n \in 0 .. Len(q) : ClaimedLess(f[n], g[n], s)}
<1>6. 0 \in P
  BY <1>1, <1>2, <1>4, <1>5 DEF ClaimsRun, ClaimedLess
<1>7. ASSUME NEW n \in 1 .. Len(q), n - 1 \in P
      PROVE  n \in P
  <2>1. f[n] = ApplyClaim(f[n - 1], q[n]) /\ g[n] = ApplyClaim(g[n - 1], q[n])
    BY <1>2, <1>4 DEF ClaimsRun
  <2> QED
    BY <1>7, <2>1, ApplyClaimForget
<1> HIDE DEF P
<1>8. Inductive(Len(q), P)
  BY <1>1, <1>6, <1>7 DEF Inductive
<1>9. Len(q) \in P
  BY <1>8, Induct
<1> QED
  BY <1>2, <1>3, <1>4, <1>9 DEF P, ClaimedLess

\* A sequence of the same claim for several surfaces.
Uniform(p, claim) == \A i \in 1 .. Len(p) : p[i].claim = claim
Named(p) == {p[i].surface : i \in 1 .. Len(p)}
Claimed(f, S, claim) ==
  IF claim = "release" THEN Without(f, S) ELSE [t \in DOMAIN f \union S |-> IF t \in S THEN claim ELSE f[t]]

NamedTo(p, n) == {p[i].surface : i \in 1 .. n}
NextClaimed(f, S, gone, c) ==
  Updated(Claimed(f, S, c.claim), gone, c) = Claimed(f, S \union {c.surface}, c.claim)

LEMMA UpdatedNext ==
  ASSUME NEW f, IsMap(f), NEW S, NEW gone, NEW c, c.claim = "release" \/ c.surface \notin gone
  PROVE  NextClaimed(f, S, gone, c)
<1> USE DEF NextClaimed
<1>1. PICK x, v : x = c.surface /\ v = c.claim
  OBVIOUS
<1>2. CASE v = "release"
  <2>1. Without(Without(f, S), {x}) = Without(f, S \union {x})
    BY DEF Without
  <2> QED
    BY <1>1, <1>2, <2>1 DEF Updated, Claimed
<1>3. CASE v # "release"
  <2> DEFINE g == [t \in DOMAIN f \union S |-> IF t \in S THEN v ELSE f[t]]
             h == [t \in DOMAIN f \union (S \union {x}) |-> IF t \in S \union {x} THEN v ELSE f[t]]
  <2>1. Put(g, x, v) = h
    BY DEF Put
  <2>2. Claimed(f, S, v) = g /\ Claimed(f, S \union {x}, v) = h
    BY <1>3 DEF Claimed
  <2>3. Updated(g, gone, c) = Put(g, x, v)
    BY <1>1, <1>3 DEF Updated
  <2> HIDE DEF g, h
  <2> QED
    BY <1>1, <2>1, <2>2, <2>3
<1> QED
  BY <1>2, <1>3

LEMMA ClaimsUniform ==
  ASSUME NEW u, IsHost(u), NEW p, IsSeq(p), NEW claim, Uniform(p, claim),
         claim = "release" \/ Named(p) \intersect u.gone = {}
  PROVE  AfterClaims(u, p).claims = Claimed(u.claims, Named(p), claim)
<1>1. Len(p) \in Nat
  BY SeqFacts
<1>2. PICK f : ClaimsRun(f, u, p) /\ AfterClaims(u, p) = f[Len(p)]
  BY <1>1, ClaimsRuns
<1>3. IsMap(u.claims)
  BY DEF IsHost
<1> DEFINE P == {n \in 0 .. Len(p) : IsHost(f[n]) /\ f[n].gone = u.gone /\ f[n].claims = Claimed(u.claims, NamedTo(p, n), claim)}
<1>4. 0 \in P
  <2>1. NamedTo(p, 0) = {}
    BY DEF NamedTo
  <2>2. Claimed(u.claims, {}, claim) = u.claims
    BY <1>3 DEF Claimed, Without, IsMap
  <2>3. f[0] = u
    BY <1>2 DEF ClaimsRun
  <2>4. f[0].claims = Claimed(u.claims, NamedTo(p, 0), claim)
    BY <2>1, <2>2, <2>3
  <2>5. IsHost(f[0]) /\ f[0].gone = u.gone
    BY <2>3
  <2>6. 0 \in 0 .. Len(p)
    BY <1>1
  <2> QED
    BY <2>4, <2>5, <2>6
<1>5. ASSUME NEW n \in 1 .. Len(p), n - 1 \in P
      PROVE  n \in P
  <2>1. f[n] = ApplyClaim(f[n - 1], p[n])
    BY <1>2 DEF ClaimsRun
  <2>2. p[n].claim = claim /\ (claim = "release" \/ p[n].surface \notin u.gone)
    BY DEF Uniform, Named
  <2>3. IsHost(f[n - 1]) /\ f[n - 1].gone = u.gone /\ f[n - 1].claims = Claimed(u.claims, NamedTo(p, n - 1), claim)
    BY <1>5
  <2>4. NamedTo(p, n) = NamedTo(p, n - 1) \union {p[n].surface}
    BY DEF NamedTo
  <2>5. IsHost(f[n]) /\ f[n].gone = f[n - 1].gone /\ f[n].claims = Updated(f[n - 1].claims, f[n - 1].gone, p[n])
    BY <2>1, <2>3, ApplyClaimHost
  <2>6. PICK m, c, S : m = u.claims /\ c = p[n] /\ S = NamedTo(p, n - 1)
    OBVIOUS
  <2>7. IsMap(m) /\ (c.claim = "release" \/ c.surface \notin u.gone)
    BY <1>3, <2>2, <2>6
  <2>10. NextClaimed(m, S, u.gone, c)
    BY <2>7, UpdatedNext
  <2>8. Updated(Claimed(m, S, c.claim), u.gone, c) = Claimed(m, S \union {c.surface}, c.claim)
    BY <2>10 DEF NextClaimed
  <2>9. f[n].claims = Claimed(u.claims, NamedTo(p, n), claim)
    BY <2>2, <2>3, <2>4, <2>5, <2>6, <2>8
  <2> QED
    BY <2>3, <2>5, <2>9
<1>6. Named(p) = NamedTo(p, Len(p))
  BY DEF Named, NamedTo
<1> HIDE DEF P
<1>7. Inductive(Len(p), P)
  BY <1>1, <1>4, <1>5 DEF Inductive
<1>8. Len(p) \in P
  BY <1>7, Induct
<1> QED
  BY <1>2, <1>6, <1>8 DEF P

-----------------------------------------------------------------------------
(* The relay: what its claims and its scale are once all is played.        *)

Fields ==
  {"admission", "failed", "revoked", "ready", "connected", "admitting", "mappings", "reserved", "cache",
   "claims", "updates", "ledger", "effects", "inflight", "nextCursor", "cursors", "nextSession", "sent"}
IsRelay(r) == IsMap(r) /\ DOMAIN r = Fields

IsCached(c) == c = [role |-> c.role, commit |-> c.commit, cursor |-> c.cursor, sentCursor |-> c.sentCursor]

CacheOk(f) == IsMap(f) /\ DOMAIN f \subseteq Surfaces /\ \A s \in DOMAIN f : IsCached(f[s])

LedgerOk(l) ==
  /\ l = [held |-> l.held, contacts |-> l.contacts, frames |-> l.frames, focus |-> l.focus]
  /\ IsFiniteSet(DOMAIN l.held) /\ IsFiniteSet(DOMAIN l.contacts) /\ IsFiniteSet(l.frames)

Shape(r) ==
  /\ IsRelay(r) /\ CacheOk(r.cache) /\ LedgerOk(r.ledger)
  /\ IsMap(r.mappings) /\ DOMAIN r.mappings \subseteq Surfaces
  /\ IsMap(r.claims) /\ \A s \in DOMAIN r.claims : r.claims[s] # "release"
  /\ IsSeq(r.effects) /\ IsSeq(r.updates)

\* The claims known to the host u, one for each of the surfaces S, and no scale
\* elsewhere.
Told(u, r, S) ==
  /\ IsHost(u) /\ Shape(r)
  /\ AfterClaims(u, r.updates).claims = r.claims
  /\ DOMAIN r.claims = S
  /\ AfterEffects(u, r.effects).scaled \subseteq S
  /\ Up(r) => (DOMAIN r.mappings \union DOMAIN r.cache) \intersect u.gone = {}

Settled(u, r) == Told(u, r, IF Up(r) THEN DOMAIN r.mappings ELSE {})

SameFlags(r, x) ==
  /\ x.admission = r.admission /\ x.failed = r.failed /\ x.revoked = r.revoked
  /\ x.ready = r.ready /\ x.admitting = r.admitting

SameRoles(f, g) ==
  DOMAIN g = DOMAIN f /\ \A s \in DOMAIN f : g[s].role = f[s].role /\ g[s].commit = f[s].commit
SameCache(r, x) == SameRoles(r.cache, x.cache)

\* A step that concerns cursors and messages only.
Quietly(r, x) ==
  /\ IsRelay(x) /\ SameFlags(r, x) /\ SameCache(r, x) /\ CacheOk(x.cache)
  /\ x.mappings = r.mappings /\ x.claims = r.claims
  /\ x.updates = r.updates /\ x.effects = r.effects /\ x.ledger = r.ledger

LEMMA QuietTrans ==
  ASSUME NEW r, NEW x, NEW y, Quietly(r, x), Quietly(x, y)
  PROVE  Quietly(r, y)
BY DEF Quietly, SameFlags, SameCache, SameRoles

LEMMA QuietShape ==
  ASSUME NEW r, NEW x, Shape(r), Quietly(r, x)
  PROVE  Shape(x)
BY DEF Quietly, Shape

LEMMA QuietTold ==
  ASSUME NEW u, NEW r, NEW S, Told(u, r, S), NEW x, Quietly(r, x)
  PROVE  Told(u, x, S)
<1>1. Shape(x)
  BY QuietShape DEF Told
<1> QED
  BY <1>1 DEF Told, Quietly, SameFlags, SameCache, SameRoles, Up

LEMMA QuietKeeps ==
  ASSUME NEW u, NEW r, Settled(u, r), NEW x, Quietly(r, x)
  PROVE  Settled(u, x)
<1>1. x.mappings = r.mappings /\ (Up(x) <=> Up(r))
  BY DEF Quietly, SameFlags, Up
<1>2. Told(u, x, IF Up(r) THEN DOMAIN r.mappings ELSE {})
  BY QuietTold DEF Settled
<1> QED
  BY <1>1, <1>2 DEF Settled

LEMMA SubmitQuiet ==
  ASSUME NEW r, Shape(r), NEW m
  PROVE  Quietly(r, Submit(r, m))
<1> DEFINE x == Submit(r, m)
<1>1. IsRelay(x)
  BY DEF Shape, IsRelay, Fields, IsMap, Submit
<1>2. SameFlags(r, x) /\ x.cache = r.cache
  BY DEF Shape, IsRelay, Fields, IsMap, Submit, SameFlags
<1>3. /\ x.mappings = r.mappings /\ x.claims = r.claims
      /\ x.updates = r.updates /\ x.effects = r.effects /\ x.ledger = r.ledger
  BY DEF Shape, IsRelay, Fields, IsMap, Submit
<1> HIDE DEF x
<1>4. Quietly(r, x)
  BY <1>1, <1>2, <1>3 DEF Quietly, SameCache, SameRoles, Shape
<1> QED
  BY <1>4 DEF x

\* A relay that differs in fields that matter to cursors and messages only.
LEMMA QuietFields ==
  ASSUME NEW r, Shape(r), NEW x, IsMap(x), DOMAIN x = DOMAIN r, CacheOk(x.cache), SameCache(r, x),
         \A k \in {"admission", "failed", "revoked", "ready", "admitting", "mappings",
                   "claims", "updates", "effects", "ledger"} : x[k] = r[k]
  PROVE  Quietly(r, x)
BY DEF Quietly, SameFlags, Shape, IsRelay

LEMMA CursorCache ==
  ASSUME NEW f, CacheOk(f), NEW s, NEW v, NEW g, g = [f EXCEPT ![s].sentCursor = v]
  PROVE  CacheOk(g) /\ SameRoles(f, g)
<1>1. IsMap(g) /\ DOMAIN g = DOMAIN f
  BY DEF CacheOk, IsMap
<1>2. ASSUME NEW t \in DOMAIN f
      PROVE  IsCached(g[t]) /\ g[t].role = f[t].role /\ g[t].commit = f[t].commit
  <2>1. IsCached(f[t])
    BY DEF CacheOk
  <2>2. g[t] = IF t = s THEN [f[t] EXCEPT !.sentCursor = v] ELSE f[t]
    BY DEF CacheOk, IsMap
  <2>3. PICK c : c = f[t]
    OBVIOUS
  <2>4. LET d == [c EXCEPT !.sentCursor = v] IN IsCached(d) /\ d.role = c.role /\ d.commit = c.commit
    BY <2>1, <2>3 DEF IsCached
  <2> QED
    BY <2>1, <2>2, <2>3, <2>4
<1> QED
  BY <1>1, <1>2 DEF CacheOk, SameRoles

LEMMA SendNextCursorQuiet ==
  ASSUME NEW r, Shape(r)
  PROVE  Quietly(r, SendNextCursor(r))
<1> DEFINE ready == {i \in DOMAIN r.cursors : Sendable(r, r.cursors[i])}
           first == Min(ready)
           s == r.cursors[first]
           update == [session |-> r.mappings[s], surface |-> s, seq |-> r.nextCursor]
           m == Message("cursor", r.mappings[s], s, [cursor |-> r.cache[s].cursor, seq |-> r.nextCursor])
           rest == SubSeq(r.cursors, first + 1, Len(r.cursors))
           a == [r EXCEPT !.cursors = <<>>]
           b == [r EXCEPT !.cursors = rest, !.cache[s].sentCursor = r.cache[s].cursor,
                          !.nextCursor = @ + 1, !.inflight = update]
<1>1. SendNextCursor(r) \in {r, a, Submit(b, m)}
  BY DEF SendNextCursor
<1> HIDE DEF ready, first, s, update, m, rest
<1>2. Quietly(r, r)
  BY DEF Quietly, SameFlags, SameCache, SameRoles, Shape
<1>3. Quietly(r, a)
  <2>1. IsMap(a) /\ DOMAIN a = DOMAIN r /\ a.cache = r.cache
    BY DEF Shape, IsRelay, IsMap, Fields
  <2>2. \A k \in {"admission", "failed", "revoked", "ready", "admitting", "mappings",
                  "claims", "updates", "effects", "ledger"} : a[k] = r[k]
    BY DEF Shape, IsRelay, IsMap, Fields
  <2> HIDE DEF a
  <2>3. CacheOk(a.cache) /\ SameCache(r, a)
    BY <2>1 DEF Shape, SameCache, SameRoles
  <2> QED
    BY <2>1, <2>2, <2>3, QuietFields
<1>4. Quietly(r, b)
  <2>7. PICK g : g = [r.cache EXCEPT ![s].sentCursor = r.cache[s].cursor]
    OBVIOUS
  <2>0. b = [r EXCEPT !.cursors = rest, !.cache = g, !.nextCursor = r.nextCursor + 1, !.inflight = update]
    BY <2>7
  <2> HIDE DEF b
  <2>5. IsMap(b) /\ DOMAIN b = DOMAIN r
    BY <2>0 DEF Shape, IsRelay, IsMap
  <2>6. b.cache = g
    BY <2>0 DEF Shape, IsRelay, Fields
  <2>1. IsMap(b) /\ DOMAIN b = DOMAIN r /\ b.cache = g
    BY <2>5, <2>6
  <2>2. \A k \in {"admission", "failed", "revoked", "ready", "admitting", "mappings",
                  "claims", "updates", "effects", "ledger"} : b[k] = r[k]
    BY <2>0 DEF Shape, IsRelay, IsMap, Fields
  <2>3. CacheOk(g) /\ SameRoles(r.cache, g)
    BY <2>7, CursorCache DEF Shape
  <2>4. CacheOk(b.cache) /\ SameCache(r, b)
    BY <2>1, <2>3 DEF SameCache, SameRoles
  <2> QED
    BY <2>1, <2>2, <2>4, QuietFields
<1> HIDE DEF a, b
<1>5. Quietly(r, Submit(b, m))
  <2>1. Quietly(b, Submit(b, m))
    BY <1>4, QuietShape, SubmitQuiet
  <2> QED
    BY <1>4, <2>1, QuietTrans
<1> QED
  BY <1>1, <1>2, <1>3, <1>5

\* Other cursors wait.
LEMMA CursorsQuiet ==
  ASSUME NEW r, Shape(r), NEW q
  PROVE  Quietly(r, [r EXCEPT !.cursors = q])
<1> DEFINE a == [r EXCEPT !.cursors = q]
<1>1. IsMap(a) /\ DOMAIN a = DOMAIN r /\ a.cache = r.cache
  BY DEF Shape, IsRelay, IsMap, Fields
<1>2. \A k \in {"admission", "failed", "revoked", "ready", "admitting", "mappings",
                "claims", "updates", "effects", "ledger"} : a[k] = r[k]
  BY DEF Shape, IsRelay, IsMap, Fields
<1> HIDE DEF a
<1>3. CacheOk(a.cache) /\ SameCache(r, a)
  BY <1>1 DEF Shape, SameCache, SameRoles
<1>4. Quietly(r, a)
  BY <1>1, <1>2, <1>3, QuietFields
<1> QED
  BY <1>4 DEF a

LEMMA QueueCursorQuiet ==
  ASSUME NEW r, Shape(r), NEW s
  PROVE  Quietly(r, QueueCursor(r, s))
<1>1. Quietly(r, r)
  BY DEF Quietly, SameFlags, SameCache, SameRoles, Shape
<1>2. PICK q : q = IF s \in ToSet(r.cursors) THEN r.cursors ELSE Append(r.cursors, s)
  OBVIOUS
<1>3. PICK x : x = [r EXCEPT !.cursors = q]
  OBVIOUS
<1>4. QueueCursor(r, s) \in {r, SendNextCursor(x)}
  BY <1>2, <1>3 DEF QueueCursor
<1>5. Quietly(r, x)
  BY <1>3, CursorsQuiet
<1>6. Quietly(x, SendNextCursor(x))
  BY <1>5, QuietShape, SendNextCursorQuiet
<1>7. Quietly(r, SendNextCursor(x))
  BY <1>5, <1>6, QuietTrans
<1> QED
  BY <1>1, <1>4, <1>7

LEMMA ForgetCursorQuiet ==
  ASSUME NEW r, Shape(r), NEW S
  PROVE  Quietly(r, ForgetCursor(r, S))
BY CursorsQuiet DEF ForgetCursor

-----------------------------------------------------------------------------
(* What an operation appends to the updates and the effects.               *)

\* x is r with the updates p, which say `claim', and the effects e after it.
Appends(u, r, x, p, e, claim) ==
  /\ IsSeq(p) /\ IsSeq(e) /\ Uniform(p, claim) /\ NoScale(e)
  /\ claim = "release" \/ Named(p) \intersect u.gone = {}
  /\ x.updates = r.updates \o p /\ x.effects = r.effects \o e
  /\ x.claims = Claimed(r.claims, Named(p), claim)

LEMMA AppendsAfter ==
  ASSUME NEW u, NEW r, NEW S, Told(u, r, S), NEW x, NEW p, NEW e, NEW claim, Appends(u, r, x, p, e, claim)
  PROVE  /\ AfterClaims(u, x.updates).claims = x.claims
         /\ AfterEffects(u, x.effects).scaled \subseteq S \ Resets(e)
<1>1. IsHost(u) /\ IsSeq(r.updates) /\ IsSeq(r.effects) /\ IsSeq(p) /\ IsSeq(e)
  BY DEF Told, Shape, Appends
<1>2. PICK a : a = AfterClaims(u, r.updates)
  OBVIOUS
<1>3. IsHost(a) /\ a.gone = u.gone /\ a.claims = r.claims
  BY <1>1, <1>2, ClaimsHost DEF Told
<1>4. AfterClaims(u, x.updates) = AfterClaims(a, p)
  BY <1>1, <1>2, ClaimsConcat DEF Appends
<1>5. AfterClaims(a, p).claims = Claimed(a.claims, Named(p), claim)
  BY <1>1, <1>3, ClaimsUniform DEF Appends
<1>6. AfterClaims(u, x.updates).claims = x.claims
  BY <1>3, <1>4, <1>5 DEF Appends
<1>7. PICK b : b = AfterEffects(u, r.effects)
  OBVIOUS
<1>8. IsHost(b) /\ b.scaled \subseteq S
  BY <1>1, <1>7, EffectsHost DEF Told
<1>9. AfterEffects(u, x.effects) = AfterEffects(b, e)
  BY <1>1, <1>7, EffectsConcat DEF Appends
<1>10. AfterEffects(b, e).scaled \subseteq b.scaled \ Resets(e)
  BY <1>1, <1>8, EffectsQuiet DEF Appends
<1> QED
  BY <1>6, <1>8, <1>9, <1>10

LEMMA ToldAppends ==
  ASSUME NEW u, NEW r, NEW S, Told(u, r, S), NEW x, Shape(x), NEW p, NEW e, NEW claim,
         Appends(u, r, x, p, e, claim), S \ Resets(e) \subseteq DOMAIN x.claims,
         Up(x) => (DOMAIN x.mappings \union DOMAIN x.cache) \intersect u.gone = {}
  PROVE  Told(u, x, DOMAIN x.claims)
BY AppendsAfter DEF Told

LEMMA ClaimList ==
  ASSUME NEW S, IsFiniteSet(S), NEW claim, NEW p, p = SetToSeq({Claim(s, claim) : s \in S})
  PROVE  IsSeq(p) /\ Uniform(p, claim) /\ Named(p) = S
<1> DEFINE T == {Claim(s, claim) : s \in S}
           f == [s \in S |-> Claim(s, claim)]
<1>1. IsFiniteSet(T)
  <2>1. IsFiniteSet({f[x] : x \in S})
    BY ImageFinite
  <2>2. {f[x] : x \in S} = T
    OBVIOUS
  <2> QED
    BY <2>1, <2>2
<1>2. IsSeq(p) /\ ToSet(p) = T
  <2> HIDE DEF T
  <2>1. p = SetToSeq(T)
    BY DEF T
  <2> QED
    BY <1>1, <2>1, Listed
<1>3. ToSet(p) = {p[i] : i \in 1 .. Len(p)}
  BY <1>2, SeqFacts
<1>4. \A i \in 1 .. Len(p) : \E s \in S : p[i] = Claim(s, claim)
  BY <1>2, <1>3
<1>5. \A s \in S : \E i \in 1 .. Len(p) : p[i] = Claim(s, claim)
  BY <1>2, <1>3
<1>6. \A s : Claim(s, claim).surface = s /\ Claim(s, claim).claim = claim
  BY DEF Claim
<1> HIDE DEF T, f
<1>7. ASSUME NEW i \in 1 .. Len(p)
      PROVE  p[i].claim = claim /\ p[i].surface \in S
  <2>1. PICK s \in S : p[i] = Claim(s, claim)
    BY <1>4
  <2> QED
    BY <1>6, <2>1
<1>8. ASSUME NEW s \in S
      PROVE  s \in Named(p)
  <2>1. PICK i \in 1 .. Len(p) : p[i] = Claim(s, claim)
    BY <1>5
  <2>2. p[i].surface = s
    BY <1>6, <2>1
  <2> QED
    BY <2>2 DEF Named
<1>9. Named(p) \subseteq S
  BY <1>7 DEF Named
<1> QED
  BY <1>2, <1>7, <1>8, <1>9 DEF Uniform

LEMMA NoScaleConcat ==
  ASSUME NEW p, NEW q, IsSeq(p), IsSeq(q), NoScale(p), NoScale(q)
  PROVE  IsSeq(p \o q) /\ NoScale(p \o q) /\ Resets(q) \subseteq Resets(p \o q)
<1>1. Len(p) \in Nat /\ Len(q) \in Nat
  BY SeqFacts
<1>2. PICK c : c = p \o q
  OBVIOUS
<1>3. /\ IsSeq(c) /\ Len(c) = Len(p) + Len(q)
      /\ \A i \in 1 .. Len(p) : c[i] = p[i]
      /\ \A i \in 1 .. Len(q) : c[Len(p) + i] = q[i]
  BY <1>2, ConcatFacts
<1>4. ASSUME NEW i \in 1 .. Len(c)
      PROVE  c[i].kind # "scale"
  <2>1. CASE i <= Len(p)
    BY <1>1, <1>3, <2>1 DEF NoScale
  <2>2. CASE ~(i <= Len(p))
    <3>1. i - Len(p) \in 1 .. Len(q) /\ i = Len(p) + (i - Len(p))
      BY <1>1, <1>3, <2>2
    <3>2. c[i] = q[i - Len(p)]
      BY <1>3, <3>1
    <3> QED
      BY <3>1, <3>2 DEF NoScale
  <2> QED
    BY <2>1, <2>2
<1>5. ASSUME NEW x \in Resets(q)
      PROVE  x \in Resets(c)
  <2>1. PICK i \in 1 .. Len(q) : q[i].kind = "unscale" /\ x = q[i].surface
    BY DEF Resets
  <2>2. Len(p) + i \in 1 .. Len(c) /\ c[Len(p) + i] = q[i]
    BY <1>1, <1>3
  <2> QED
    BY <2>1, <2>2 DEF Resets
<1> QED
  BY <1>2, <1>3, <1>4, <1>5 DEF NoScale

\* A list of a finite set of effects, none of which is a scale.
LEMMA EffectList ==
  ASSUME NEW T, IsFiniteSet(T), \A e \in T : e.kind # "scale", NEW q, q = SetToSeq(T)
  PROVE  IsSeq(q) /\ NoScale(q) /\ Resets(q) = {e.surface : e \in {d \in T : d.kind = "unscale"}}
<1>1. IsSeq(q) /\ ToSet(q) = T
  BY Listed
<1>2. T = {q[i] : i \in 1 .. Len(q)}
  BY <1>1, SeqFacts
<1>3. NoScale(q)
  BY <1>2 DEF NoScale
<1> DEFINE R == {e.surface : e \in {d \in T : d.kind = "unscale"}}
<1>4. ASSUME NEW x \in Resets(q)
      PROVE  x \in R
  <2>1. PICK i \in 1 .. Len(q) : q[i].kind = "unscale" /\ x = q[i].surface
    BY DEF Resets
  <2>2. q[i] \in T
    BY <1>2
  <2> QED
    BY <2>1, <2>2
<1>5. ASSUME NEW x \in R
      PROVE  x \in Resets(q)
  <2>1. PICK e \in T : e.kind = "unscale" /\ x = e.surface
    OBVIOUS
  <2>2. PICK i \in 1 .. Len(q) : q[i] = e
    BY <1>2
  <2> QED
    BY <2>1, <2>2 DEF Resets
<1> HIDE DEF R
<1>6. Resets(q) = R
  BY <1>4, <1>5
<1> QED
  BY <1>1, <1>3, <1>6 DEF R

LEMMA ReleaseKinds ==
  ASSUME NEW l, LedgerOk(l), NEW S
  PROVE  IsSeq(ReleaseEffects(l, S)) /\ \A i \in 1 .. Len(ReleaseEffects(l, S)) : ReleaseEffects(l, S)[i].kind \in {"input", "focus"}
<1> DEFINE touched == ({l.contacts[c] : c \in DOMAIN l.contacts} \union l.frames) \intersect S
           codes == {c \in DOMAIN l.held : l.held[c].surface \in S}
           A == {Input("cancel", None, s) : s \in touched}
           B == {Input("release", c, l.held[c].surface) : c \in codes}
           F == IF l.focus \in S THEN <<Focus(None)>> ELSE <<>>
<1>1. IsFiniteSet(A)
  <2>1. IsFiniteSet({l.contacts[c] : c \in DOMAIN l.contacts})
    BY ImageFinite DEF LedgerOk
  <2>2. IsFiniteSet({l.contacts[c] : c \in DOMAIN l.contacts} \union l.frames)
    BY <2>1, FS_Union DEF LedgerOk
  <2>3. IsFiniteSet(touched)
    BY <2>2, FS_Subset
  <2> HIDE DEF touched
  <2> DEFINE f == [s \in touched |-> Input("cancel", None, s)]
  <2>4. IsFiniteSet({f[s] : s \in touched})
    BY <2>3, ImageFinite
  <2>5. {f[s] : s \in touched} = A
    OBVIOUS
  <2> QED
    BY <2>4, <2>5
<1>2. IsFiniteSet(B)
  <2>1. IsFiniteSet(codes)
    BY FS_Subset DEF LedgerOk
  <2> HIDE DEF codes
  <2> DEFINE f == [c \in codes |-> Input("release", c, l.held[c].surface)]
  <2>2. IsFiniteSet({f[c] : c \in codes})
    BY <2>1, ImageFinite
  <2>3. {f[c] : c \in codes} = B
    OBVIOUS
  <2> QED
    BY <2>2, <2>3
<1> DEFINE E == A \union B \union {Focus(None)}
<1>3. \A e \in E : e.kind \in {"input", "focus"}
  BY DEF Input, Focus
<1>4. F \in Seq(E)
  OBVIOUS
<1>5. ReleaseEffects(l, S) = SetToSeq(A) \o SetToSeq(B) \o F
  BY DEF ReleaseEffects, ReleaseHeld
<1>6. A \subseteq E /\ B \subseteq E
  OBVIOUS
<1> HIDE DEF A, B, F, E
<1>7. SetToSeq(A) \in Seq(E) /\ SetToSeq(B) \in Seq(E)
  <2>1. SetToSeq(A) \in Seq(A) /\ SetToSeq(B) \in Seq(B)
    BY <1>1, <1>2, Listed
  <2> QED
    BY <1>6, <2>1
<1>8. PICK q : q = ReleaseEffects(l, S)
  OBVIOUS
<1>9. q \in Seq(E)
  BY <1>4, <1>5, <1>7, <1>8
<1>10. \A i \in 1 .. Len(q) : q[i] \in E
  BY <1>9
<1> QED
  BY <1>3, <1>8, <1>9, <1>10 DEF IsSeq

LEMMA ReleaseList ==
  ASSUME NEW l, LedgerOk(l), NEW S
  PROVE  IsSeq(ReleaseEffects(l, S)) /\ NoScale(ReleaseEffects(l, S))
BY ReleaseKinds DEF NoScale

LEMMA NilFacts ==
  /\ IsSeq(<<>>) /\ NoScale(<<>>) /\ Resets(<<>>) = {}
  /\ \A q : IsSeq(q) => q \o <<>> = q
<1>1. <<>> \in Seq({}) /\ Len(<<>>) = 0
  OBVIOUS
<1>2. \A q : IsSeq(q) => q \o <<>> = q
  BY ConcatEmptySeq DEF IsSeq
<1>3. IsSeq(<<>>)
  BY <1>1 DEF IsSeq
<1>4. NoScale(<<>>) /\ Resets(<<>>) = {}
  BY <1>1 DEF NoScale, Resets
<1> QED
  BY <1>2, <1>3, <1>4

-----------------------------------------------------------------------------
(* Presentation and mapping.                                               *)

LEMMA SetPresentationSettles ==
  ASSUME NEW u, NEW r, NEW S, Told(u, r, S), Up(r), NEW s \in DOMAIN r.mappings,
         S \union {s} = DOMAIN r.mappings, NEW claim, claim # "release", NEW x, x = SetPresentation(r, s, claim)
  PROVE  Settled(u, x) /\ SameFlags(r, x) /\ x.mappings = r.mappings /\ x.cache = r.cache
<1> DEFINE new == {t \in ({s} \union Popups(r, s)) \intersect DOMAIN r.mappings :
                     ~(t \in DOMAIN r.claims /\ r.claims[t] = claim)}
<1>0. Shape(r) /\ IsRelay(r)
  BY DEF Told, Shape
<1>1. CASE s \notin new
  <2>1. x = r
    BY <1>1 DEF SetPresentation
  <2>2. S = DOMAIN r.mappings
    BY <1>1 DEF Told
  <2> QED
    BY <2>1, <2>2 DEF Settled, SameFlags
<1>2. CASE s \in new
  <2>1. PICK p : p = SetToSeq({Claim(t, claim) : t \in new})
    OBVIOUS
  <2>2. IsFiniteSet(new)
    BY <1>0, LinkAssumption, FS_Subset DEF Shape
  <2>3. PICK f : f = [t \in DOMAIN r.claims \union new |-> IF t \in new THEN claim ELSE r.claims[t]]
    OBVIOUS
  <2>4. x = [r EXCEPT !.claims = f, !.updates = r.updates \o p]
    BY <1>2, <2>1, <2>3 DEF SetPresentation
  <2>5. new \subseteq DOMAIN r.mappings
    OBVIOUS
  <2>6. PICK N : N = new
    OBVIOUS
  <2>7. s \in N /\ N \subseteq DOMAIN r.mappings /\ IsFiniteSet(N)
    BY <1>2, <2>2, <2>5, <2>6
  <2>8. p = SetToSeq({Claim(t, claim) : t \in N})
    BY <2>1, <2>6
  <2>9. f = [t \in DOMAIN r.claims \union N |-> IF t \in N THEN claim ELSE r.claims[t]]
    BY <2>3, <2>6
  <2> HIDE DEF new
  <2>10. IsSeq(p) /\ Uniform(p, claim) /\ Named(p) = N
    BY <2>7, <2>8, ClaimList
  <2>11. IsRelay(x)
    BY <1>0, <2>4 DEF IsRelay, IsMap, Fields
  <2>12. /\ x.claims = f /\ x.updates = r.updates \o p
         /\ x.mappings = r.mappings /\ x.cache = r.cache /\ x.ledger = r.ledger /\ x.effects = r.effects
         /\ SameFlags(r, x)
    BY <1>0, <2>4 DEF IsRelay, IsMap, Fields, SameFlags
  <2>13. IsSeq(x.updates)
    BY <1>0, <2>10, <2>12, ConcatFacts DEF Shape
  <2>14. IsMap(x.claims) /\ \A t \in DOMAIN x.claims : x.claims[t] # "release"
    BY <1>0, <2>9, <2>12 DEF IsMap, Shape
  <2>15. Shape(x)
    BY <1>0, <2>11, <2>12, <2>13, <2>14 DEF Shape
  <2>16. x.claims = Claimed(r.claims, N, claim)
    BY <2>9, <2>12 DEF Claimed
  <2>17. DOMAIN x.claims = DOMAIN r.mappings
    BY <2>7, <2>9, <2>12 DEF Told
  <2>18. N \intersect u.gone = {} /\ (DOMAIN x.mappings \union DOMAIN x.cache) \intersect u.gone = {}
    BY <2>7, <2>12 DEF Told
  <2>19. x.effects = r.effects \o <<>>
    BY <1>0, <2>12, NilFacts DEF Shape
  <2>20. Appends(u, r, x, p, <<>>, claim)
    BY <2>10, <2>12, <2>16, <2>18, <2>19, NilFacts DEF Appends
  <2>21. Told(u, x, DOMAIN x.claims)
    BY <2>15, <2>17, <2>18, <2>20, ToldAppends
  <2>22. Up(x)
    BY <2>12 DEF SameFlags, Up
  <2> QED
    BY <2>12, <2>17, <2>21, <2>22 DEF Settled
<1> QED
  BY <1>1, <1>2

\* The surfaces T are mapped too.
Maps(r, x, T) ==
  SameFlags(r, x) /\ SameCache(r, x) /\ DOMAIN x.mappings = DOMAIN r.mappings \union T

LEMMA QuietMaps ==
  ASSUME NEW r, NEW x, NEW y, NEW T, Maps(r, x, T), Quietly(x, y)
  PROVE  Maps(r, y, T)
BY DEF Maps, Quietly, SameFlags, SameCache, SameRoles

LEMMA MapOneSettles ==
  ASSUME NEW u, NEW r, Settled(u, r), Up(r), NEW session, NEW s \in DOMAIN r.cache
  PROVE  LET x == MapOne(r, session, s) IN Settled(u, x) /\ Maps(r, x, {s})
<1> DEFINE c == r.cache[s]
           claim == IF c.role = "popup" /\ Owner[s] \in DOMAIN r.claims THEN r.claims[Owner[s]] ELSE "active"
           put == [r EXCEPT !.mappings = Put(@, s, session)]
           claimed == SetPresentation(put, s, claim)
           opened == Submit(Submit(claimed, Message("mapped", session, s, None)), Message("role", session, s, c.role))
           told == IF c.commit = None THEN opened ELSE Submit(opened, Message("commit", session, s, c.commit))
<1>1. MapOne(r, session, s) = QueueCursor(told, s)
  BY DEF MapOne
<1>2. Shape(r) /\ IsRelay(r) /\ Told(u, r, DOMAIN r.mappings)
  BY DEF Settled, Told, Shape
<1>3. claim # "release"
  BY <1>2 DEF Shape
<1>4. s \in Surfaces /\ s \notin u.gone
  BY <1>2 DEF Shape, CacheOk, Told
<1> HIDE DEF claim, c
<1>5. Told(u, put, DOMAIN r.mappings) /\ DOMAIN put.mappings = DOMAIN r.mappings \union {s}
      /\ SameFlags(r, put) /\ put.cache = r.cache
  <2>1. PICK m : m = Put(r.mappings, s, session)
    OBVIOUS
  <2>2. IsMap(m) /\ DOMAIN m = DOMAIN r.mappings \union {s}
    BY <2>1, PutMap
  <2>3. put = [r EXCEPT !.mappings = m]
    BY <2>1
  <2> HIDE DEF put
  <2>4. IsRelay(put)
    BY <1>2, <2>3 DEF IsRelay, IsMap, Fields
  <2>5. /\ put.mappings = m /\ put.cache = r.cache /\ put.ledger = r.ledger /\ put.claims = r.claims
        /\ put.effects = r.effects /\ put.updates = r.updates /\ SameFlags(r, put)
    BY <1>2, <2>3 DEF IsRelay, Fields, SameFlags
  <2>6. Shape(put)
    BY <1>2, <1>4, <2>2, <2>4, <2>5 DEF Shape
  <2>7. Up(put) => (DOMAIN put.mappings \union DOMAIN put.cache) \intersect u.gone = {}
    BY <1>2, <1>4, <2>2, <2>5 DEF Told
  <2>8. Told(u, put, DOMAIN r.mappings)
    BY <1>2, <2>5, <2>6, <2>7 DEF Told
  <2> QED
    BY <2>2, <2>5, <2>8
<1>6. Up(put)
  BY <1>5 DEF SameFlags, Up
<1> HIDE DEF put
<1>7. Settled(u, claimed) /\ SameFlags(put, claimed) /\ claimed.mappings = put.mappings /\ claimed.cache = put.cache
  BY <1>3, <1>5, <1>6, SetPresentationSettles
<1> HIDE DEF claimed
<1>8. Maps(r, claimed, {s})
  BY <1>5, <1>7 DEF Maps, SameFlags, SameCache, SameRoles
<1>9. \A y : Settled(u, y) => Shape(y)
  BY DEF Settled, Told
<1>10. \A y, m : Settled(u, y) /\ Maps(r, y, {s}) => Settled(u, Submit(y, m)) /\ Maps(r, Submit(y, m), {s})
  BY <1>9, SubmitQuiet, QuietKeeps, QuietMaps
<1>11. Settled(u, opened) /\ Maps(r, opened, {s})
  BY <1>7, <1>8, <1>10
<1> HIDE DEF opened
<1>12. Settled(u, told) /\ Maps(r, told, {s})
  BY <1>10, <1>11
<1> HIDE DEF told
<1>13. Quietly(told, QueueCursor(told, s))
  BY <1>9, <1>12, QueueCursorQuiet
<1>14. Settled(u, QueueCursor(told, s)) /\ Maps(r, QueueCursor(told, s), {s})
  BY <1>12, <1>13, QuietKeeps, QuietMaps
<1> QED
  BY <1>1, <1>14

MappingRun(f, r, session, q) == f[0] = r /\ \A n \in 1 .. Len(q) : f[n] = MapOne(f[n - 1], session, q[n])
MappingDef(f, N, r, session, q) == f = [n \in 0 .. N |-> IF n = 0 THEN r ELSE MapOne(f[n - 1], session, q[n])]

LEMMA MappingRunExists ==
  ASSUME NEW r, NEW session, NEW q, Len(q) \in Nat
  PROVE  \E f : MappingDef(f, Len(q), r, session, q)
<1> DEFINE P == {n \in 0 .. Len(q) : \E f : MappingDef(f, n, r, session, q)}
<1>1. 0 \in P
  <2>1. MappingDef([n \in 0 .. 0 |-> r], 0, r, session, q)
    BY DEF MappingDef
  <2> QED
    BY <2>1
<1>2. ASSUME NEW n \in 1 .. Len(q), n - 1 \in P
      PROVE  n \in P
  <2>1. PICK f : MappingDef(f, n - 1, r, session, q)
    BY <1>2
  <2>2. \A m \in 0 .. n - 1 : f[m] = IF m = 0 THEN r ELSE MapOne(f[m - 1], session, q[m])
    BY <2>1 DEF MappingDef
  <2> DEFINE g == [m \in 0 .. n |-> IF m = n THEN MapOne(f[n - 1], session, q[n]) ELSE f[m]]
  <2>3. g[n] = MapOne(f[n - 1], session, q[n]) /\ \A m \in 0 .. n - 1 : g[m] = f[m]
    OBVIOUS
  <2>4. g = [m \in 0 .. n |-> g[m]]
    OBVIOUS
  <2> HIDE DEF g
  <2>5. ASSUME NEW m \in 0 .. n
        PROVE  g[m] = IF m = 0 THEN r ELSE MapOne(g[m - 1], session, q[m])
    <3>1. CASE m = n
      BY <2>3, <3>1
    <3>2. CASE m = 0
      BY <2>2, <2>3, <3>2
    <3>3. CASE m # n /\ m # 0
      <4>1. m \in 0 .. n - 1 /\ m - 1 \in 0 .. n - 1
        BY <3>3
      <4> QED
        BY <2>2, <2>3, <3>3, <4>1
    <3> QED
      BY <3>1, <3>2, <3>3
  <2>6. MappingDef(g, n, r, session, q)
    BY <2>4, <2>5 DEF MappingDef
  <2> QED
    BY <2>6
<1> HIDE DEF P
<1>3. Inductive(Len(q), P)
  BY <1>1, <1>2 DEF Inductive
<1>4. Len(q) \in P
  BY <1>3, Induct
<1> QED
  BY <1>4 DEF P

LEMMA MappingRuns ==
  ASSUME NEW r, NEW session, NEW q, Len(q) \in Nat
  PROVE  \E f : MappingRun(f, r, session, q) /\ MapEach(r, session, q) = f[Len(q)]
<1> DEFINE f == CHOOSE g : MappingDef(g, Len(q), r, session, q)
<1>1. MapEach(r, session, q) = f[Len(q)]
  BY DEF MapEach, MappingDef
<1>2. MappingDef(f, Len(q), r, session, q)
  BY MappingRunExists
<1> HIDE DEF f
<1>3. \A n \in 0 .. Len(q) : f[n] = IF n = 0 THEN r ELSE MapOne(f[n - 1], session, q[n])
  BY <1>2 DEF MappingDef
<1>4. MappingRun(f, r, session, q)
  BY <1>3 DEF MappingRun
<1> QED
  BY <1>1, <1>4

Joined(c, q, p) ==
  /\ IsSeq(c) /\ Len(c) = Len(q) + Len(p)
  /\ \A i \in 1 .. Len(q) : c[i] = q[i]
  /\ \A i \in 1 .. Len(p) : c[Len(q) + i] = p[i]

LEMMA ConcatJoined ==
  ASSUME NEW q, NEW p, IsSeq(q), IsSeq(p)
  PROVE  Joined(q \o p, q, p)
BY ConcatFacts DEF Joined

LEMMA HeadedBy ==
  ASSUME NEW s, NEW T, NEW p, IsSeq(p), ToSet(p) = T, NEW a, IsSeq(a), Len(a) = 1, a[1] = s
  PROVE  IsSeq(a \o p) /\ ToSet(a \o p) = {s} \union T
<1>2. PICK q : q = a \o p
  OBVIOUS
<1>8. /\ IsSeq(q) /\ Len(q) = Len(a) + Len(p)
      /\ \A i \in 1 .. Len(a) : q[i] = a[i]
      /\ \A i \in 1 .. Len(p) : q[Len(a) + i] = p[i]
  <2>1. Joined(a \o p, a, p)
    BY ConcatJoined
  <2>2. Joined(q, a, p)
    BY <1>2, <2>1
  <2> QED
    BY <2>2 DEF Joined
<1>14. Len(p) \in Nat /\ ToSet(p) = {p[i] : i \in 1 .. Len(p)}
  BY SeqFacts
<1>15. ToSet(q) = {q[i] : i \in 1 .. Len(q)}
  BY <1>8, SeqFacts
<1>9. Len(p) \in Nat /\ ToSet(p) = {p[i] : i \in 1 .. Len(p)} /\ ToSet(q) = {q[i] : i \in 1 .. Len(q)}
  BY <1>14, <1>15
<1>1. Len(q) = 1 + Len(p) /\ q[1] = s /\ \A i \in 1 .. Len(p) : q[1 + i] = p[i]
  <2>1. 1 \in 1 .. Len(a)
    OBVIOUS
  <2>2. q[1] = a[1]
    BY <1>8, <2>1
  <2> QED
    BY <1>8, <2>2
<1>10. \A i \in 1 .. Len(q) : q[i] \in {s} \union T
  <2> TAKE i \in 1 .. Len(q)
  <2>1. CASE i = 1
    BY <1>1, <2>1
  <2>2. CASE i # 1
    <3>1. i - 1 \in 1 .. Len(p) /\ i = 1 + (i - 1)
      BY <1>1, <1>9, <2>2
    <3>2. q[i] = p[i - 1]
      BY <1>1, <3>1
    <3> QED
      BY <1>9, <3>1, <3>2
  <2> QED
    BY <2>1, <2>2
<1>11. s \in ToSet(q)
  <2>1. 1 \in 1 .. Len(q)
    BY <1>1, <1>9
  <2> QED
    BY <1>1, <1>9, <2>1
<1>12. ASSUME NEW t \in T
       PROVE  t \in ToSet(q)
  <2>1. PICK i \in 1 .. Len(p) : p[i] = t
    BY <1>9
  <2>2. 1 + i \in 1 .. Len(q) /\ q[1 + i] = t
    BY <1>1, <1>9, <2>1
  <2> QED
    BY <1>9, <2>2
<1>13. ToSet(q) = {s} \union T
  BY <1>9, <1>10, <1>11, <1>12
<1> QED
  BY <1>2, <1>8, <1>13

\* A list of s and then of the finite set T
LEMMA Headed ==
  ASSUME NEW s, NEW T, IsFiniteSet(T)
  PROVE  IsSeq(<<s>> \o SetToSeq(T)) /\ ToSet(<<s>> \o SetToSeq(T)) = {s} \union T
<1>1. PICK p : p = SetToSeq(T)
  OBVIOUS
<1>2. IsSeq(p) /\ ToSet(p) = T
  BY <1>1, Listed
<1>3. PICK a : a = <<s>>
  OBVIOUS
<1>4. a \in Seq({s}) /\ Len(a) = 1 /\ a[1] = s
  BY <1>3
<1>5. IsSeq(a)
  BY <1>4 DEF IsSeq
<1>6. IsSeq(a \o p) /\ ToSet(a \o p) = {s} \union T
  BY <1>2, <1>4, <1>5, HeadedBy
<1> QED
  BY <1>1, <1>3, <1>6

LEMMA QuietlySelf ==
  ASSUME NEW r, Shape(r)
  PROVE  Quietly(r, r)
BY DEF Quietly, SameFlags, SameCache, SameRoles, Shape

LEMMA MapsTrans ==
  ASSUME NEW r, NEW x, NEW y, NEW S, NEW T, Maps(r, x, S), Maps(x, y, T)
  PROVE  Maps(r, y, S \union T)
BY DEF Maps, SameFlags, SameCache, SameRoles

LEMMA MapEachSettles ==
  ASSUME NEW u, NEW r, Settled(u, r), Up(r), NEW session, NEW q, IsSeq(q), ToSet(q) \subseteq DOMAIN r.cache
  PROVE  LET x == MapEach(r, session, q) IN Settled(u, x) /\ Maps(r, x, ToSet(q))
<1>1. Len(q) \in Nat /\ ToSet(q) = {q[i] : i \in 1 .. Len(q)}
  BY SeqFacts
<1>2. PICK f : MappingRun(f, r, session, q) /\ MapEach(r, session, q) = f[Len(q)]
  BY <1>1, MappingRuns
<1> DEFINE To(n) == {q[i] : i \in 1 .. n}
           P == {n \in 0 .. Len(q) : Settled(u, f[n]) /\ Maps(r, f[n], To(n))}
<1>3. 0 \in P
  <2>1. To(0) = {} /\ f[0] = r
    BY <1>2 DEF MappingRun
  <2>2. Maps(r, r, {})
    BY DEF Maps, SameFlags, SameCache, SameRoles
  <2>3. Settled(u, f[0]) /\ Maps(r, f[0], To(0))
    BY <2>1, <2>2
  <2>4. 0 \in 0 .. Len(q)
    BY <1>1
  <2> HIDE DEF To
  <2> QED
    BY <2>3, <2>4
<1>4. ASSUME NEW n \in 1 .. Len(q), n - 1 \in P
      PROVE  n \in P
  <2>1. f[n] = MapOne(f[n - 1], session, q[n])
    BY <1>2 DEF MappingRun
  <2>2. PICK y : y = f[n - 1]
    OBVIOUS
  <2>3. To(n) = To(n - 1) \union {q[n]}
    OBVIOUS
  <2>4. q[n] \in DOMAIN r.cache
    BY <1>1
  <2> HIDE DEF To
  <2>5. Settled(u, y) /\ Maps(r, y, To(n - 1))
    BY <1>4, <2>2
  <2>6. Up(y) /\ q[n] \in DOMAIN y.cache
    BY <2>4, <2>5 DEF Maps, SameFlags, Up, SameCache, SameRoles
  <2>7. Settled(u, f[n]) /\ Maps(y, f[n], {q[n]})
    BY <2>1, <2>2, <2>5, <2>6, MapOneSettles
  <2>8. Maps(r, f[n], To(n))
    BY <2>3, <2>5, <2>7, MapsTrans
  <2> QED
    BY <2>7, <2>8
<1>5. ToSet(q) = To(Len(q))
  BY <1>1
<1> HIDE DEF P, To
<1>6. Inductive(Len(q), P)
  BY <1>1, <1>3, <1>4 DEF Inductive
<1>7. Len(q) \in P
  BY <1>6, Induct
<1> QED
  BY <1>2, <1>5, <1>7 DEF P

-----------------------------------------------------------------------------
(* Which windows are admitted.                                             *)

Fine(r, t) ==
  LET c == r.cache[t]
  IN c.commit = "mapped" /\ (c.role = "toplevel" \/ (c.role = "popup" /\ Owner[t] \in DOMAIN r.mappings))
       => t \in DOMAIN r.mappings
FineBut(r, X) == \A t \in DOMAIN r.cache \ X : Fine(r, t)

\* x comes from r with its claims told, and Y may still want admission where X did.
Moves(u, r, X, x, Y) ==
  /\ Settled(u, x) /\ SameFlags(r, x)
  /\ r.ready /\ r.admission = "all" /\ FineBut(r, X) => FineBut(x, Y)

LEMMA MovesTrans ==
  ASSUME NEW u, NEW r, NEW X, NEW x, NEW Y, Moves(u, r, X, x, Y), NEW y, NEW Z, Moves(u, x, Y, y, Z)
  PROVE  Moves(u, r, X, y, Z)
BY DEF Moves, SameFlags

LEMMA MovesQuietly ==
  ASSUME NEW u, NEW r, Settled(u, r), NEW x, Quietly(r, x), NEW X
  PROVE  Moves(u, r, X, x, X)
<1>1. Settled(u, x) /\ SameFlags(r, x)
  BY QuietKeeps DEF Quietly
<1>2. \A t \in DOMAIN r.cache : Fine(r, t) => Fine(x, t)
  BY DEF Quietly, SameCache, SameRoles, Fine
<1>3. DOMAIN x.cache = DOMAIN r.cache
  BY DEF Quietly, SameCache, SameRoles
<1> QED
  BY <1>1, <1>2, <1>3 DEF Moves, FineBut

\* A popup with content follows its root; popups own no popups.
LEMMA FollowersFine ==
  ASSUME NEW r, Shape(r), NEW s \in DOMAIN r.cache, NEW x, Maps(r, x, {s} \union Followers(r, s)), NEW X, FineBut(r, X)
  PROVE  FineBut(x, X \ {s})
<1> SUFFICES ASSUME NEW t \in DOMAIN x.cache \ (X \ {s}), x.cache[t].commit = "mapped",
                    x.cache[t].role = "toplevel" \/ (x.cache[t].role = "popup" /\ Owner[t] \in DOMAIN x.mappings)
             PROVE  t \in DOMAIN x.mappings
  BY DEF FineBut, Fine
<1>1. /\ t \in DOMAIN r.cache /\ r.cache[t].role = x.cache[t].role /\ r.cache[t].commit = "mapped"
      /\ DOMAIN x.mappings = DOMAIN r.mappings \union {s} \union Followers(r, s)
  BY DEF Maps, SameCache, SameRoles
<1>2. CASE t = s
  BY <1>1, <1>2
<1>3. CASE t # s /\ Owner[t] = s /\ x.cache[t].role = "popup"
  BY <1>1, <1>3 DEF Followers, Popups
<1>4. CASE t # s /\ ~(Owner[t] = s /\ x.cache[t].role = "popup")
  <2>1. Fine(r, t)
    BY <1>1, <1>4 DEF FineBut
  <2>2. CASE x.cache[t].role = "toplevel"
    BY <1>1, <2>1, <2>2 DEF Fine
  <2>3. CASE x.cache[t].role = "popup" /\ Owner[t] \in DOMAIN r.mappings
    BY <1>1, <2>1, <2>3 DEF Fine
  <2>4. CASE x.cache[t].role = "popup" /\ Owner[t] \in Followers(r, s)
    <3>1. Owner[Owner[t]] = s /\ Owner[t] \in DOMAIN r.cache
      BY <2>4 DEF Followers, Popups
    <3>2. t \in Surfaces /\ s \in Surfaces /\ Owner[t] \in Surfaces
      BY <1>1, <3>1 DEF Shape, CacheOk
    <3> QED
      BY <3>1, <3>2, LinkAssumption
  <2> QED
    BY <1>1, <1>4, <2>2, <2>3, <2>4
<1> QED
  BY <1>2, <1>3, <1>4

LEMMA FollowersListed ==
  ASSUME NEW r, Shape(r), NEW s \in DOMAIN r.cache, NEW q, q = <<s>> \o SetToSeq(Followers(r, s))
  PROVE  IsSeq(q) /\ ToSet(q) = {s} \union Followers(r, s) /\ ToSet(q) \subseteq DOMAIN r.cache
<1>1. Followers(r, s) \subseteq DOMAIN r.cache
  BY DEF Followers, Popups
<1>2. IsFiniteSet(Followers(r, s))
  BY <1>1, LinkAssumption, FS_Subset DEF Shape, CacheOk
<1>3. IsSeq(q) /\ ToSet(q) = {s} \union Followers(r, s)
  BY <1>2, Headed
<1> QED
  BY <1>1, <1>3

LEMMA MapMoves ==
  ASSUME NEW u, NEW r, Settled(u, r), Up(r), NEW session, NEW s, NEW X
  PROVE  Moves(u, r, X, Map(r, session, s), X \ {s})
<1>1. Shape(r) /\ IsRelay(r)
  BY DEF Settled, Told, Shape
<1> DEFINE role == Cached(r, s).role
           v == IF s \in DOMAIN r.reserved THEN r.reserved ELSE Put(r.reserved, s, session)
           a == [r EXCEPT !.reserved = v]
           wanted == role = "toplevel" \/ (role = "popup" /\ Owner[s] \in DOMAIN r.mappings)
           q == <<s>> \o SetToSeq(Followers(r, s))
<1>2. CASE s \notin DOMAIN r.mappings /\ r.ready /\ wanted
  <2>1. s \in DOMAIN r.cache
    BY <1>2 DEF Cached, NoCache, None
  <2>2. Map(r, session, s) = MapEach(r, session, q)
    BY <1>2 DEF Map, None
  <2>3. IsSeq(q) /\ ToSet(q) = {s} \union Followers(r, s) /\ ToSet(q) \subseteq DOMAIN r.cache
    BY <1>1, <2>1, FollowersListed
  <2> HIDE DEF q
  <2>4. PICK x : x = MapEach(r, session, q)
    OBVIOUS
  <2>5. Settled(u, x) /\ Maps(r, x, {s} \union Followers(r, s))
    BY <2>3, <2>4, MapEachSettles
  <2>6. FineBut(r, X) => FineBut(x, X \ {s})
    BY <1>1, <2>1, <2>5, FollowersFine
  <2> QED
    BY <2>2, <2>4, <2>5, <2>6 DEF Moves, Maps
<1>3. CASE ~(s \notin DOMAIN r.mappings /\ r.ready /\ wanted)
  <2>1. r.ready => Fine(r, s) \/ s \notin DOMAIN r.cache
    BY <1>3 DEF Fine, Cached
  <2>2. r.ready /\ FineBut(r, X) => FineBut(r, X \ {s})
    BY <2>1 DEF FineBut
  <2>3. Moves(u, r, X, r, X \ {s})
    BY <2>2 DEF Moves, SameFlags
  <2>4. Map(r, session, s) \in {r, a}
    BY <1>3 DEF Map
  <2> HIDE DEF v
  <2>5. Quietly(r, a)
    <3>1. IsRelay(a)
      BY <1>1 DEF IsRelay, IsMap, Fields
    <3>2. /\ SameFlags(r, a) /\ a.cache = r.cache /\ a.mappings = r.mappings /\ a.claims = r.claims
          /\ a.updates = r.updates /\ a.effects = r.effects /\ a.ledger = r.ledger
      BY <1>1 DEF IsRelay, Fields, SameFlags
    <3> HIDE DEF a
    <3> QED
      BY <1>1, <3>1, <3>2 DEF Quietly, SameCache, SameRoles, Shape
  <2>6. Moves(u, r, X \ {s}, a, X \ {s})
    BY <2>5, MovesQuietly
  <2> HIDE DEF a
  <2>7. Moves(u, r, X, a, X \ {s})
    BY <2>3, <2>6, MovesTrans
  <2> QED
    BY <2>3, <2>4, <2>7
<1> QED
  BY <1>2, <1>3

AdmissionRun(f, r, q) == f[0] = r /\ \A n \in 1 .. Len(q) : f[n] = Admit(f[n - 1], q[n])
AdmissionDef(f, N, r, q) == f = [n \in 0 .. N |-> IF n = 0 THEN r ELSE Admit(f[n - 1], q[n])]

LEMMA AdmissionRunExists ==
  ASSUME NEW r, NEW q, Len(q) \in Nat
  PROVE  \E f : AdmissionDef(f, Len(q), r, q)
<1> DEFINE P == {n \in 0 .. Len(q) : \E f : AdmissionDef(f, n, r, q)}
<1>1. 0 \in P
  <2>1. AdmissionDef([n \in 0 .. 0 |-> r], 0, r, q)
    BY DEF AdmissionDef
  <2> QED
    BY <2>1
<1>2. ASSUME NEW n \in 1 .. Len(q), n - 1 \in P
      PROVE  n \in P
  <2>1. PICK f : AdmissionDef(f, n - 1, r, q)
    BY <1>2
  <2>2. \A m \in 0 .. n - 1 : f[m] = IF m = 0 THEN r ELSE Admit(f[m - 1], q[m])
    BY <2>1 DEF AdmissionDef
  <2> DEFINE g == [m \in 0 .. n |-> IF m = n THEN Admit(f[n - 1], q[n]) ELSE f[m]]
  <2>3. g[n] = Admit(f[n - 1], q[n]) /\ \A m \in 0 .. n - 1 : g[m] = f[m]
    OBVIOUS
  <2>4. g = [m \in 0 .. n |-> g[m]]
    OBVIOUS
  <2> HIDE DEF g
  <2>5. ASSUME NEW m \in 0 .. n
        PROVE  g[m] = IF m = 0 THEN r ELSE Admit(g[m - 1], q[m])
    <3>1. CASE m = n
      BY <2>3, <3>1
    <3>2. CASE m = 0
      BY <2>2, <2>3, <3>2
    <3>3. CASE m # n /\ m # 0
      <4>1. m \in 0 .. n - 1 /\ m - 1 \in 0 .. n - 1
        BY <3>3
      <4> QED
        BY <2>2, <2>3, <3>3, <4>1
    <3> QED
      BY <3>1, <3>2, <3>3
  <2>6. AdmissionDef(g, n, r, q)
    BY <2>4, <2>5 DEF AdmissionDef
  <2> QED
    BY <2>6
<1> HIDE DEF P
<1>3. Inductive(Len(q), P)
  BY <1>1, <1>2 DEF Inductive
<1>4. Len(q) \in P
  BY <1>3, Induct
<1> QED
  BY <1>4 DEF P

LEMMA AdmissionRuns ==
  ASSUME NEW r, NEW q, Len(q) \in Nat
  PROVE  \E f : AdmissionRun(f, r, q) /\ AdmitEach(r, q) = f[Len(q)]
<1> DEFINE f == CHOOSE g : AdmissionDef(g, Len(q), r, q)
<1>1. AdmitEach(r, q) = f[Len(q)]
  BY DEF AdmitEach, AdmissionDef
<1>2. AdmissionDef(f, Len(q), r, q)
  BY AdmissionRunExists
<1> HIDE DEF f
<1>3. \A n \in 0 .. Len(q) : f[n] = IF n = 0 THEN r ELSE Admit(f[n - 1], q[n])
  BY <1>2 DEF AdmissionDef
<1>4. AdmissionRun(f, r, q)
  BY <1>3 DEF AdmissionRun
<1> QED
  BY <1>1, <1>4

LEMMA AdmitMoves ==
  ASSUME NEW u, NEW r, Settled(u, r), Up(r), NEW s, NEW X
  PROVE  Moves(u, r, X, Admit(r, s), X \ {s})
<1>1. Shape(r) /\ IsRelay(r)
  BY DEF Settled, Told, Shape
<1> DEFINE c == Cached(r, s)
           b == [r EXCEPT !.nextSession = @ + 1]
<1>2. CASE r.admission = "all" /\ r.ready /\ s \notin DOMAIN r.mappings /\ c.commit = "mapped"
           /\ (c.role = "toplevel" \/ (c.role = "popup" /\ Owner[s] \in DOMAIN r.mappings))
  <2>1. Quietly(r, b)
    <3>1. IsRelay(b)
      BY <1>1 DEF IsRelay, IsMap, Fields
    <3>2. /\ SameFlags(r, b) /\ b.cache = r.cache /\ b.mappings = r.mappings /\ b.claims = r.claims
          /\ b.updates = r.updates /\ b.effects = r.effects /\ b.ledger = r.ledger
      BY <1>1 DEF IsRelay, Fields, SameFlags
    <3> HIDE DEF b
    <3> QED
      BY <1>1, <3>1, <3>2 DEF Quietly, SameCache, SameRoles, Shape
  <2>2. Admit(r, s) \in {Map(b, r.nextSession, s), Map(r, r.mappings[Owner[s]], s)}
    BY <1>2 DEF Admit
  <2> HIDE DEF b
  <2>3. Settled(u, b) /\ Up(b)
    BY <2>1, QuietKeeps DEF Quietly, SameFlags, Up
  <2>4. Moves(u, r, X, b, X)
    BY <2>1, MovesQuietly
  <2>5. Moves(u, b, X, Map(b, r.nextSession, s), X \ {s})
    BY <2>3, MapMoves
  <2>6. Moves(u, r, X, Map(b, r.nextSession, s), X \ {s})
    BY <2>4, <2>5, MovesTrans
  <2>7. Moves(u, r, X, Map(r, r.mappings[Owner[s]], s), X \ {s})
    BY MapMoves
  <2> QED
    BY <2>2, <2>6, <2>7
<1>3. CASE ~(r.admission = "all" /\ r.ready /\ s \notin DOMAIN r.mappings /\ c.commit = "mapped"
           /\ (c.role = "toplevel" \/ (c.role = "popup" /\ Owner[s] \in DOMAIN r.mappings)))
  <2>1. Admit(r, s) = r
    BY <1>3 DEF Admit
  <2>2. r.ready /\ r.admission = "all" => Fine(r, s) \/ s \notin DOMAIN r.cache
    BY <1>3 DEF Fine, Cached
  <2>3. r.ready /\ r.admission = "all" /\ FineBut(r, X) => FineBut(r, X \ {s})
    BY <2>2 DEF FineBut
  <2>4. Moves(u, r, X, r, X \ {s})
    BY <2>3 DEF Moves, SameFlags
  <2> QED
    BY <2>1, <2>4
<1> QED
  BY <1>2, <1>3

LEMMA AdmitEachMoves ==
  ASSUME NEW u, NEW r, Settled(u, r), Up(r), NEW q, IsSeq(q), NEW X
  PROVE  Moves(u, r, X, AdmitEach(r, q), X \ ToSet(q))
<1>1. Len(q) \in Nat /\ ToSet(q) = {q[i] : i \in 1 .. Len(q)}
  BY SeqFacts
<1>2. PICK f : AdmissionRun(f, r, q) /\ AdmitEach(r, q) = f[Len(q)]
  BY <1>1, AdmissionRuns
<1> DEFINE To(n) == {q[i] : i \in 1 .. n}
           P == {n \in 0 .. Len(q) : Moves(u, r, X, f[n], X \ To(n))}
<1>3. 0 \in P
  <2>1. To(0) = {} /\ f[0] = r
    BY <1>2 DEF AdmissionRun
  <2>2. X \ To(0) = X
    BY <2>1
  <2>3. Moves(u, r, X, r, X)
    BY DEF Moves, SameFlags
  <2>4. 0 \in 0 .. Len(q)
    BY <1>1
  <2> HIDE DEF To
  <2>5. Moves(u, r, X, f[0], X \ To(0))
    BY <2>1, <2>2, <2>3
  <2> QED
    BY <2>4, <2>5
<1>4. ASSUME NEW n \in 1 .. Len(q), n - 1 \in P
      PROVE  n \in P
  <2>1. f[n] = Admit(f[n - 1], q[n])
    BY <1>2 DEF AdmissionRun
  <2>2. PICK y : y = f[n - 1]
    OBVIOUS
  <2>3. X \ To(n) = (X \ To(n - 1)) \ {q[n]}
    OBVIOUS
  <2> HIDE DEF To
  <2>4. Moves(u, r, X, y, X \ To(n - 1))
    BY <1>4, <2>2
  <2>5. Settled(u, y) /\ Up(y)
    BY <2>4 DEF Moves, SameFlags, Up
  <2>6. Moves(u, y, X \ To(n - 1), Admit(y, q[n]), (X \ To(n - 1)) \ {q[n]})
    BY <2>5, AdmitMoves
  <2>8. PICK Y, Z, z : Y = X \ To(n - 1) /\ Z = Y \ {q[n]} /\ z = Admit(y, q[n])
    OBVIOUS
  <2>9. Moves(u, r, X, y, Y) /\ Moves(u, y, Y, z, Z)
    BY <2>4, <2>6, <2>8
  <2>10. Moves(u, r, X, z, Z)
    BY <2>9, MovesTrans
  <2>7. Moves(u, r, X, f[n], X \ To(n))
    BY <2>1, <2>2, <2>3, <2>8, <2>10
  <2> QED
    BY <2>7
<1>5. ToSet(q) = To(Len(q))
  BY <1>1
<1> HIDE DEF P, To
<1>6. Inductive(Len(q), P)
  BY <1>1, <1>3, <1>4 DEF Inductive
<1>7. Len(q) \in P
  BY <1>6, Induct
<1> QED
  BY <1>2, <1>5, <1>7 DEF P

-----------------------------------------------------------------------------
(* The cache.                                                              *)

\* A change of the cache.
LEMMA CacheMoves ==
  ASSUME NEW u, NEW r, Settled(u, r), NEW g, CacheOk(g), Up(r) => DOMAIN g \intersect u.gone = {},
         NEW x, x = [r EXCEPT !.cache = g], NEW X, NEW Y,
         \A t \in DOMAIN g \ Y : t \in DOMAIN r.cache \ X /\ g[t].commit = r.cache[t].commit /\ g[t].role = r.cache[t].role
  PROVE  Moves(u, r, X, x, Y)
<1>1. Shape(r) /\ IsRelay(r)
  BY DEF Settled, Told, Shape
<1>2. IsRelay(x)
  BY <1>1 DEF IsRelay, IsMap, Fields
<1>3. /\ SameFlags(r, x) /\ x.cache = g /\ x.mappings = r.mappings /\ x.claims = r.claims
      /\ x.updates = r.updates /\ x.effects = r.effects /\ x.ledger = r.ledger
  BY <1>1 DEF IsRelay, Fields, SameFlags
<1>4. PICK y : y = x
  OBVIOUS
<1>5. Shape(y)
  BY <1>1, <1>2, <1>3, <1>4 DEF Shape
<1>6. Up(y) <=> Up(r)
  BY <1>3, <1>4 DEF SameFlags, Up
<1>7. Settled(u, y)
  BY <1>3, <1>4, <1>5, <1>6 DEF Settled, Told
<1>8. FineBut(r, X) => FineBut(y, Y)
  BY <1>3, <1>4 DEF FineBut, Fine
<1>9. Moves(u, r, X, y, Y)
  BY <1>3, <1>4, <1>7, <1>8 DEF Moves
<1> QED
  BY <1>4, <1>9

LEMMA CachedKind ==
  ASSUME NEW r, Shape(r), NEW s
  PROVE  IsCached(Cached(r, s))
<1>1. IsCached(NoCache)
  BY DEF IsCached, NoCache
<1>2. s \in DOMAIN r.cache => IsCached(r.cache[s])
  BY DEF Shape, CacheOk
<1> QED
  BY <1>1, <1>2 DEF Cached

LEMMA CachePut ==
  ASSUME NEW u, NEW r, Settled(u, r), NEW s \in Surfaces, s \notin u.gone, NEW c, IsCached(c)
  PROVE  Moves(u, r, {}, Cache(r, s, c), {s})
<1>1. PICK g : g = Put(r.cache, s, c)
  OBVIOUS
<1>2. IsMap(g) /\ DOMAIN g = DOMAIN r.cache \union {s} /\ g[s] = c /\ \A y \in DOMAIN r.cache \ {s} : g[y] = r.cache[y]
  <2>1. PICK f : f = r.cache
    OBVIOUS
  <2>2. g = Put(f, s, c)
    BY <1>1, <2>1
  <2>3. IsMap(g) /\ DOMAIN g = DOMAIN f \union {s} /\ g[s] = c /\ \A y \in DOMAIN f \ {s} : g[y] = f[y]
    BY <2>2 DEF Put, IsMap
  <2> QED
    BY <2>1, <2>3
<1>3. Shape(r) /\ CacheOk(r.cache)
  BY DEF Settled, Told, Shape
<1>4. CacheOk(g)
  BY <1>2, <1>3 DEF CacheOk
<1>5. Up(r) => DOMAIN g \intersect u.gone = {}
  BY <1>2 DEF Settled, Told
<1>6. \A t \in DOMAIN g \ {s} : t \in DOMAIN r.cache \ {} /\ g[t].commit = r.cache[t].commit /\ g[t].role = r.cache[t].role
  BY <1>2
<1>7. PICK x : x = [r EXCEPT !.cache = g]
  OBVIOUS
<1>8. Cache(r, s, c) = x
  BY <1>1, <1>7 DEF Cache
<1>9. Moves(u, r, {}, x, {s})
  BY <1>4, <1>5, <1>6, <1>7, CacheMoves
<1> QED
  BY <1>8, <1>9

-----------------------------------------------------------------------------
(* Withdrawal.                                                             *)

LEMMA Associates ==
  ASSUME NEW p, NEW q, NEW w, IsSeq(p), IsSeq(q), IsSeq(w)
  PROVE  (p \o q) \o w = p \o (q \o w)
<1>1. PICK E, F, G : p \in Seq(E) /\ q \in Seq(F) /\ w \in Seq(G)
  BY DEF IsSeq
<1>2. PICK H : H = E \union F \union G
  OBVIOUS
<1>3. p \in Seq(H) /\ q \in Seq(H) /\ w \in Seq(H)
  BY <1>1, <1>2
<1> QED
  BY <1>3, ConcatAssociative

LEMMA Unscales ==
  ASSUME NEW q, IsSeq(q), NEW e, e = [i \in DOMAIN q |-> Effect("unscale", q[i])]
  PROVE  IsSeq(e) /\ NoScale(e) /\ Resets(e) = ToSet(q)
<1>1. Len(q) \in Nat /\ DOMAIN q = 1 .. Len(q) /\ ToSet(q) = {q[i] : i \in 1 .. Len(q)}
  BY SeqFacts
<1>2. PICK n : n = Len(q)
  OBVIOUS
<1>3. e = [i \in 1 .. n |-> Effect("unscale", q[i])] /\ n \in Nat
  BY <1>1, <1>2
<1>4. PICK E : E = {Effect("unscale", q[i]) : i \in 1 .. n}
  OBVIOUS
<1>5. e \in [1 .. n -> E]
  BY <1>3, <1>4
<1>6. e \in Seq(E) /\ Len(e) = n
  BY <1>3, <1>5
<1>7. \A i \in 1 .. n : e[i].kind = "unscale" /\ e[i].surface = q[i]
  BY <1>3 DEF Effect
<1>8. NoScale(e)
  BY <1>6, <1>7 DEF NoScale
<1>9. Resets(e) = {q[i] : i \in 1 .. n}
  <2>1. ASSUME NEW x \in Resets(e)
        PROVE  x \in {q[i] : i \in 1 .. n}
    <3>1. PICK i \in 1 .. Len(e) : x = e[i].surface
      BY DEF Resets
    <3> QED
      BY <1>6, <1>7, <3>1
  <2>2. ASSUME NEW i \in 1 .. n
        PROVE  q[i] \in Resets(e)
    <3>1. i \in 1 .. Len(e) /\ e[i].kind = "unscale" /\ e[i].surface = q[i]
      BY <1>6, <1>7
    <3> QED
      BY <3>1 DEF Resets
  <2> QED
    BY <2>1, <2>2
<1> QED
  BY <1>1, <1>2, <1>6, <1>8, <1>9 DEF IsSeq

LEMMA RetainedOk ==
  ASSUME NEW l, LedgerOk(l), NEW S
  PROVE  LedgerOk(Retained(l, S))
<1> DEFINE h == Without(l.held, {c \in DOMAIN l.held : l.held[c].surface \in S})
           k == Without(l.contacts, {c \in DOMAIN l.contacts : l.contacts[c] \in S})
           f == IF l.focus \in S THEN None ELSE l.focus
<1>1. DOMAIN h \subseteq DOMAIN l.held /\ DOMAIN k \subseteq DOMAIN l.contacts
  BY DEF Without
<1>2. IsFiniteSet(DOMAIN h) /\ IsFiniteSet(DOMAIN k) /\ IsFiniteSet(l.frames \ S)
  BY <1>1, FS_Subset DEF LedgerOk
<1>3. Retained(l, S) = [held |-> h, contacts |-> k, frames |-> l.frames \ S, focus |-> f]
  BY DEF Retained
<1> HIDE DEF h, k, f
<1> QED
  BY <1>2, <1>3 DEF LedgerOk

\* x is r without the surfaces S.
Withdraws(r, x, S) ==
  SameFlags(r, x) /\ SameCache(r, x) /\ DOMAIN x.mappings = DOMAIN r.mappings \ S

LEMMA SentCursors ==
  ASSUME NEW f, CacheOk(f), NEW S, NEW g, g = [s \in DOMAIN f |-> IF s \in S THEN [f[s] EXCEPT !.sentCursor = None] ELSE f[s]]
  PROVE  CacheOk(g) /\ SameRoles(f, g)
<1>1. IsMap(g) /\ DOMAIN g = DOMAIN f
  BY DEF IsMap
<1>2. ASSUME NEW t \in DOMAIN f
      PROVE  IsCached(g[t]) /\ g[t].role = f[t].role /\ g[t].commit = f[t].commit
  <2>1. PICK c : c = f[t]
    OBVIOUS
  <2>2. IsCached(c)
    BY <2>1 DEF CacheOk
  <2>3. LET d == [c EXCEPT !.sentCursor = None] IN IsCached(d) /\ d.role = c.role /\ d.commit = c.commit
    BY <2>2 DEF IsCached
  <2>4. g[t] = IF t \in S THEN [c EXCEPT !.sentCursor = None] ELSE c
    BY <2>1
  <2> QED
    BY <2>1, <2>2, <2>3, <2>4
<1> QED
  BY <1>1, <1>2 DEF CacheOk, SameRoles

\* The messages of a withdrawal
Farewell(r, q) == [i \in DOMAIN q |-> Message("withdraw", r.mappings[q[i]], q[i], None)]

LEMMA WithdrawnParts ==
  ASSUME NEW r, Shape(r), NEW q, IsSeq(q), IsFiniteSet(ToSet(q)), NEW x, x = Withdrawn(r, q)
  PROVE  /\ Shape(x) /\ Withdraws(r, x, ToSet(q)) /\ DOMAIN x.claims = DOMAIN r.claims \ ToSet(q)
         /\ x.sent = r.sent \o Farewell(r, q) /\ x.mappings = Without(r.mappings, ToSet(q))
         /\ x.cursors = Dropping(r.cursors, ToSet(q)) /\ x.inflight = r.inflight /\ x.nextCursor = r.nextCursor
         /\ \E p, b : ToSet(q) \subseteq Resets(b) /\ \A u : Appends(u, r, x, p, b, "release")
<1>1. IsRelay(r)
  BY DEF Shape
<1>2. PICK S : S = ToSet(q)
  OBVIOUS
<1>3. PICK p, R, e : /\ p = SetToSeq({Claim(s, "release") : s \in S \intersect DOMAIN r.claims})
                     /\ R = ReleaseEffects(r.ledger, S)
                     /\ e = [i \in DOMAIN q |-> Effect("unscale", q[i])]
  OBVIOUS
<1>4. PICK m, k, g, l : /\ m = Without(r.mappings, S) /\ k = Without(r.claims, S) /\ l = Retained(r.ledger, S)
                        /\ g = [s \in DOMAIN r.cache |-> IF s \in S THEN [r.cache[s] EXCEPT !.sentCursor = None] ELSE r.cache[s]]
  OBVIOUS
<1>5. PICK w, z, y : /\ w = Dropping(r.cursors, S) /\ z = Without(r.reserved, S)
                     /\ y = r.sent \o [i \in DOMAIN q |-> Message("withdraw", r.mappings[q[i]], q[i], None)]
  OBVIOUS
<1>6. x = [r EXCEPT !.mappings = m, !.claims = k, !.updates = r.updates \o p, !.cursors = w, !.reserved = z,
                    !.cache = g, !.ledger = l, !.effects = (r.effects \o R) \o e, !.sent = y]
  <2>1. PICK r1 : r1 = [r EXCEPT !.mappings = m]
    OBVIOUS
  <2>2. PICK r2 : r2 = [r1 EXCEPT !.claims = k, !.updates = r.updates \o p]
    OBVIOUS
  <2>3. PICK r3 : r3 = [r2 EXCEPT !.cursors = w]
    OBVIOUS
  <2>4. r1.claims = r.claims /\ r1.updates = r.updates
    BY <1>1, <2>1 DEF IsRelay, Fields
  <2>5. ReleasePresentation(r1, S) = r2
    BY <1>3, <1>4, <2>2, <2>4 DEF ReleasePresentation
  <2>6. r2.cursors = r.cursors
    BY <1>1, <2>1, <2>2 DEF IsRelay, Fields
  <2>7. ForgetCursor(r2, S) = r3
    BY <1>5, <2>3, <2>6 DEF ForgetCursor
  <2>8. r3.reserved = r.reserved /\ r3.cache = r.cache /\ r3.ledger = r.ledger /\ r3.effects = r.effects /\ r3.sent = r.sent
    BY <1>1, <2>1, <2>2, <2>3 DEF IsRelay, Fields
  <2>9. x = [ForgetCursor(ReleasePresentation([r EXCEPT !.mappings = Without(@, S)], S), S) EXCEPT
       !.reserved = Without(@, S),
       !.cache = [s \in DOMAIN @ |-> IF s \in S THEN [@[s] EXCEPT !.sentCursor = None] ELSE @[s]],
       !.ledger = Retained(@, S),
       !.effects = @ \o ReleaseEffects(r.ledger, S) \o [i \in DOMAIN q |-> Effect("unscale", q[i])],
       !.sent = @ \o [i \in DOMAIN q |-> Message("withdraw", r.mappings[q[i]], q[i], None)]]
    BY <1>2 DEF Withdrawn
  <2>10. ForgetCursor(ReleasePresentation([r EXCEPT !.mappings = Without(@, S)], S), S) = r3
    BY <1>4, <2>1, <2>5, <2>7
  <2>11. x = [r3 EXCEPT !.reserved = z, !.cache = g, !.ledger = l, !.effects = (r.effects \o R) \o e, !.sent = y]
    BY <1>3, <1>4, <1>5, <2>8, <2>9, <2>10
  <2> QED
    BY <2>1, <2>2, <2>3, <2>11
<1>7. IsSeq(p) /\ Uniform(p, "release") /\ Named(p) = S \intersect DOMAIN r.claims
  <2>1. PICK N : N = S \intersect DOMAIN r.claims
    OBVIOUS
  <2>2. IsFiniteSet(N)
    BY <1>2, <2>1, FS_Subset
  <2>3. p = SetToSeq({Claim(s, "release") : s \in N})
    BY <1>3, <2>1
  <2>4. IsSeq(p) /\ Uniform(p, "release") /\ Named(p) = N
    BY <2>2, <2>3, ClaimList
  <2> QED
    BY <2>1, <2>4
<1>8. IsSeq(R) /\ NoScale(R) /\ IsSeq(e) /\ NoScale(e) /\ Resets(e) = S
  BY <1>1, <1>2, <1>3, ReleaseList, Unscales DEF Shape
<1>9. IsSeq(R \o e) /\ NoScale(R \o e) /\ S \subseteq Resets(R \o e) /\ (r.effects \o R) \o e = r.effects \o (R \o e)
  <2>1. IsSeq(R \o e) /\ NoScale(R \o e) /\ Resets(e) \subseteq Resets(R \o e)
    BY <1>8, NoScaleConcat
  <2>2. PICK d : d = r.effects
    OBVIOUS
  <2>3. IsSeq(d)
    BY <1>1, <2>2 DEF Shape
  <2>4. (d \o R) \o e = d \o (R \o e)
    BY <1>8, <2>3, Associates
  <2> QED
    BY <1>8, <2>1, <2>2, <2>4
<1>10. PICK b : b = R \o e
  OBVIOUS
<1>11. x = [r EXCEPT !.mappings = m, !.claims = k, !.updates = r.updates \o p, !.cursors = w, !.reserved = z,
                     !.cache = g, !.ledger = l, !.effects = r.effects \o b, !.sent = y]
  BY <1>6, <1>9, <1>10
<1>12. IsMap(m) /\ DOMAIN m = DOMAIN r.mappings \ S /\ IsMap(k) /\ DOMAIN k = DOMAIN r.claims \ S
       /\ \A s \in DOMAIN k : k[s] = r.claims[s]
  BY <1>4 DEF Without, IsMap
<1>13. CacheOk(g) /\ SameRoles(r.cache, g) /\ LedgerOk(l)
  BY <1>1, <1>4, SentCursors, RetainedOk DEF Shape
<1>14. k = Claimed(r.claims, S \intersect DOMAIN r.claims, "release")
  BY <1>4 DEF Claimed, Without
<1>15. IsSeq(r.updates \o p) /\ IsSeq(r.effects \o b)
  BY <1>1, <1>7, <1>9, <1>10, ConcatFacts DEF Shape
<1>16. IsRelay(x)
  BY <1>1, <1>11 DEF IsRelay, IsMap, Fields
<1>17. /\ x.mappings = m /\ x.claims = k /\ x.updates = r.updates \o p /\ x.cache = g /\ x.ledger = l
       /\ x.effects = r.effects \o b /\ SameFlags(r, x)
  BY <1>1, <1>11 DEF IsRelay, Fields, SameFlags
<1>18. Shape(x)
  BY <1>12, <1>13, <1>15, <1>16, <1>17 DEF Shape
<1>19. Withdraws(r, x, S)
  BY <1>12, <1>13, <1>17 DEF Withdraws, SameCache
<1>20. x.sent = y /\ x.cursors = w /\ x.inflight = r.inflight /\ x.nextCursor = r.nextCursor
  BY <1>1, <1>11 DEF IsRelay, Fields
<1>21. ASSUME NEW u
       PROVE  Appends(u, r, x, p, b, "release")
  BY <1>7, <1>9, <1>10, <1>14, <1>17 DEF Appends
<1>22. S \subseteq Resets(b) /\ DOMAIN x.claims = DOMAIN r.claims \ S
  BY <1>9, <1>10, <1>12, <1>17
<1>23. y = r.sent \o Farewell(r, q)
  BY <1>5 DEF Farewell
<1> QED
  BY <1>2, <1>4, <1>5, <1>17, <1>18, <1>19, <1>20, <1>21, <1>22, <1>23

LEMMA WithdrawnSettles ==
  ASSUME NEW u, NEW r, Settled(u, r), NEW q, IsSeq(q), IsFiniteSet(ToSet(q)), NEW x, x = Withdrawn(r, q)
  PROVE  Settled(u, x) /\ Withdraws(r, x, ToSet(q))
<1>1. Shape(r)
  BY DEF Settled, Told
<1>2. PICK S : S = ToSet(q)
  OBVIOUS
<1>3. Shape(x) /\ Withdraws(r, x, S) /\ DOMAIN x.claims = DOMAIN r.claims \ S
  BY <1>1, <1>2, WithdrawnParts
<1>4. PICK p, b : S \subseteq Resets(b) /\ \A v : Appends(v, r, x, p, b, "release")
  BY <1>1, <1>2, WithdrawnParts
<1>5. PICK D : D = IF Up(r) THEN DOMAIN r.mappings ELSE {}
  OBVIOUS
<1>6. Told(u, r, D) /\ DOMAIN r.claims = D
  BY <1>5 DEF Settled, Told
<1>7. Up(x) <=> Up(r)
  BY <1>3 DEF Withdraws, SameFlags, Up
<1>8. Up(x) => (DOMAIN x.mappings \union DOMAIN x.cache) \intersect u.gone = {}
  BY <1>3, <1>6, <1>7 DEF Told, Withdraws, SameCache, SameRoles
<1>9. D \ Resets(b) \subseteq DOMAIN x.claims
  BY <1>3, <1>4, <1>6
<1>10. Told(u, x, DOMAIN x.claims)
  BY <1>3, <1>4, <1>6, <1>8, <1>9, ToldAppends
<1>11. DOMAIN x.claims = IF Up(x) THEN DOMAIN x.mappings ELSE {}
  BY <1>3, <1>5, <1>6, <1>7 DEF Withdraws
<1> QED
  BY <1>2, <1>3, <1>10, <1>11 DEF Settled

\* A change of the reservations only.
LEMMA ReservedQuiet ==
  ASSUME NEW r, Shape(r), NEW v
  PROVE  Quietly(r, [r EXCEPT !.reserved = v])
<1> DEFINE a == [r EXCEPT !.reserved = v]
<1>1. IsMap(a) /\ DOMAIN a = DOMAIN r /\ a.cache = r.cache
  BY DEF Shape, IsRelay, IsMap, Fields
<1>2. \A k \in {"admission", "failed", "revoked", "ready", "admitting", "mappings",
                "claims", "updates", "effects", "ledger"} : a[k] = r[k]
  BY DEF Shape, IsRelay, IsMap, Fields
<1> HIDE DEF a
<1>3. CacheOk(a.cache) /\ SameCache(r, a)
  BY <1>1 DEF Shape, SameCache, SameRoles
<1>4. Quietly(r, a)
  BY <1>1, <1>2, <1>3, QuietFields
<1> QED
  BY <1>4 DEF a

\* x is r, where s and its popups may be mapped no more.
Unmaps(r, x, s) ==
  /\ SameFlags(r, x) /\ SameCache(r, x)
  /\ DOMAIN x.mappings \subseteq DOMAIN r.mappings
  /\ DOMAIN r.mappings \ ({s} \union Popups(r, s)) \subseteq DOMAIN x.mappings

LEMMA QuietUnmaps ==
  ASSUME NEW r, NEW x, Quietly(r, x), NEW s, NEW y, Unmaps(x, y, s)
  PROVE  Unmaps(r, y, s)
<1>1. Popups(x, s) = Popups(r, s)
  BY DEF Quietly, SameCache, SameRoles, Popups
<1> QED
  BY <1>1 DEF Unmaps, Quietly, SameFlags, SameCache, SameRoles

LEMMA UnmapSettles ==
  ASSUME NEW u, NEW r, Settled(u, r), NEW s
  PROVE  LET x == Unmap(r, s) IN Settled(u, x) /\ Unmaps(r, x, s)
<1>1. Shape(r) /\ IsRelay(r)
  BY DEF Settled, Told, Shape
<1>2. PICK v : v = [r EXCEPT !.reserved = Without(r.reserved, {s})]
  OBVIOUS
<1>3. Quietly(r, v)
  BY <1>1, <1>2, ReservedQuiet
<1>4. Settled(u, v)
  BY <1>3, QuietKeeps
<1>5. CASE s \notin DOMAIN r.mappings
  <2>1. Unmap(r, s) = v
    BY <1>2, <1>5 DEF Unmap
  <2>2. Unmaps(v, v, s)
    BY DEF Unmaps, SameFlags, SameCache, SameRoles
  <2> QED
    BY <1>3, <1>4, <2>1, <2>2, QuietUnmaps
<1>6. CASE s \in DOMAIN r.mappings
  <2>1. PICK T : T = Popups(r, s) \intersect DOMAIN r.mappings
    OBVIOUS
  <2>2. IsFiniteSet(T)
    BY <1>1, <2>1, LinkAssumption, FS_Subset DEF Shape
  <2>3. PICK q : q = <<s>> \o SetToSeq(T)
    OBVIOUS
  <2>4. IsSeq(q) /\ ToSet(q) = {s} \union T
    BY <2>2, <2>3, Headed
  <2>5. IsFiniteSet(ToSet(q))
    BY <2>2, <2>4, FS_AddElement
  <2>6. PICK x : x = Withdrawn(v, q)
    OBVIOUS
  <2>7. Unmap(r, s) = x
    BY <1>2, <1>6, <2>1, <2>3, <2>6 DEF Unmap
  <2>8. Settled(u, x) /\ Withdraws(v, x, ToSet(q))
    BY <1>4, <2>4, <2>5, <2>6, WithdrawnSettles
  <2>9. Popups(v, s) = Popups(r, s) /\ DOMAIN v.mappings = DOMAIN r.mappings
    BY <1>3 DEF Quietly, SameCache, SameRoles, Popups
  <2>10. Unmaps(v, x, s)
    BY <2>1, <2>4, <2>8, <2>9 DEF Withdraws, Unmaps
  <2> QED
    BY <1>3, <2>7, <2>8, <2>10, QuietUnmaps
<1> QED
  BY <1>5, <1>6

-----------------------------------------------------------------------------
(* The events of the clients, while the relay is up.                       *)

\* Up to here, and admitted where r was.
Keeps(u, r, x) == Moves(u, r, {}, x, {})

LEMMA RoleMoves ==
  ASSUME NEW u, NEW r, Settled(u, r), Up(r), NEW s \in Surfaces, s \notin u.gone, NEW role
  PROVE  Keeps(u, r, ObserveRole(r, s, role))
<1>1. Shape(r) /\ IsRelay(r)
  BY DEF Settled, Told, Shape
<1>2. PICK c : c = [Cached(r, s) EXCEPT !.role = role]
  OBVIOUS
<1>3. IsCached(c)
  <2>1. PICK b : b = Cached(r, s)
    OBVIOUS
  <2>2. IsCached(b)
    BY <1>1, <2>1, CachedKind
  <2> QED
    BY <1>2, <2>1, <2>2 DEF IsCached
<1>4. PICK known : known = Cache(r, s, c)
  OBVIOUS
<1>5. Moves(u, r, {}, known, {s})
  BY <1>3, <1>4, CachePut
<1>6. Settled(u, known) /\ Up(known) /\ SameFlags(r, known) /\ Shape(known) /\ IsRelay(known)
  BY <1>5 DEF Moves, SameFlags, Up, Settled, Told, Shape
<1>7. PICK away : away = Unmap(known, s)
  OBVIOUS
<1>8. PICK g : g = [t \in DOMAIN away.cache |->
                      IF t \in {s} \union Popups(away, s) THEN [away.cache[t] EXCEPT !.commit = None] ELSE away.cache[t]]
  OBVIOUS
<1>9. PICK blank : blank = [away EXCEPT !.cache = g]
  OBVIOUS
<1>10. PICK free : free = [known EXCEPT !.reserved = Without(known.reserved, {s})]
  OBVIOUS
<1>11. PICK x : x = ObserveRole(r, s, role)
  OBVIOUS
<1>12. \/ x = blank \/ x = Map(free, known.reserved[s], s)
       \/ x = Map(known, known.mappings[Owner[s]], s) \/ x = Admit(known, s)
       \/ s \in DOMAIN known.mappings /\ x = Submit(known, Message("role", known.mappings[s], s, role))
  <2>1. known = Cache(r, s, [Cached(r, s) EXCEPT !.role = role])
    BY <1>2, <1>4
  <2> QED
    BY <1>7, <1>8, <1>9, <1>10, <1>11, <2>1 DEF ObserveRole
<1>13. Moves(u, known, {s}, blank, {})
  <2>1. Settled(u, away) /\ Unmaps(known, away, s)
    BY <1>6, <1>7, UnmapSettles
  <2>2. PICK Q : Q = {s} \union Popups(away, s)
    OBVIOUS
  <2>3. Q = {s} \union Popups(known, s)
    BY <2>1, <2>2 DEF Unmaps, SameCache, SameRoles, Popups
  <2>4. FineBut(known, {s}) => FineBut(away, Q)
    BY <2>1, <2>3 DEF FineBut, Fine, Unmaps, SameCache, SameRoles
  <2>5. Moves(u, known, {s}, away, Q)
    BY <2>1, <2>4 DEF Moves, Unmaps
  <2>6. CacheOk(away.cache) /\ IsRelay(away) /\ (Up(away) => DOMAIN away.cache \intersect u.gone = {})
    BY <2>1 DEF Settled, Told, Shape
  <2>7. g = [t \in DOMAIN away.cache |-> IF t \in Q THEN [away.cache[t] EXCEPT !.commit = None] ELSE away.cache[t]]
    BY <1>8, <2>2
  <2>8. IsMap(g) /\ DOMAIN g = DOMAIN away.cache
    BY <2>7 DEF IsMap
  <2>9. ASSUME NEW t \in DOMAIN g
        PROVE  /\ IsCached(g[t]) /\ g[t].role = away.cache[t].role
               /\ t \in Q => g[t].commit = None
               /\ t \notin Q => g[t].commit = away.cache[t].commit
    <3>1. PICK d : d = away.cache[t]
      OBVIOUS
    <3>2. IsCached(d)
      BY <2>6, <2>8, <3>1 DEF CacheOk
    <3>3. LET b == [d EXCEPT !.commit = None] IN IsCached(b) /\ b.role = d.role /\ b.commit = None
      BY <3>2 DEF IsCached
    <3>4. g[t] = IF t \in Q THEN [d EXCEPT !.commit = None] ELSE d
      BY <2>7, <2>8, <3>1
    <3> QED
      BY <3>1, <3>2, <3>3, <3>4
  <2>10. CacheOk(g)
    BY <2>6, <2>8, <2>9 DEF CacheOk
  <2>11. \A t \in DOMAIN g \ Q : t \in DOMAIN away.cache \ Q /\ g[t].commit = away.cache[t].commit /\ g[t].role = away.cache[t].role
    BY <2>8, <2>9
  <2>12. Moves(u, away, Q, blank, Q)
    BY <1>9, <2>1, <2>6, <2>8, <2>10, <2>11, CacheMoves
  <2>13. blank.cache = g
    BY <1>9, <2>6 DEF IsRelay, Fields
  <2>14. FineBut(blank, Q) => FineBut(blank, {})
    BY <2>9, <2>13 DEF FineBut, Fine, None
  <2>15. Moves(u, away, Q, blank, {})
    BY <2>12, <2>14 DEF Moves
  <2> QED
    BY <2>5, <2>15, MovesTrans
<1>14. \A session : Moves(u, known, {s}, Map(known, session, s), {})
  <2>1. \A session : Moves(u, known, {s}, Map(known, session, s), {s} \ {s})
    BY <1>6, MapMoves
  <2>2. {s} \ {s} = {}
    OBVIOUS
  <2> QED
    BY <2>1, <2>2
<1>15. \A session : Moves(u, known, {s}, Map(free, session, s), {})
  <2>1. Quietly(known, free)
    BY <1>6, <1>10, ReservedQuiet
  <2>2. Settled(u, free) /\ Up(free) /\ Moves(u, known, {s}, free, {s})
    BY <1>6, <2>1, QuietKeeps, MovesQuietly DEF Quietly, SameFlags, Up
  <2>3. \A session : Moves(u, free, {s}, Map(free, session, s), {s} \ {s})
    BY <2>2, MapMoves
  <2>4. {s} \ {s} = {}
    OBVIOUS
  <2> QED
    BY <2>2, <2>3, <2>4, MovesTrans
<1>16. Moves(u, known, {s}, Admit(known, s), {})
  <2>1. Moves(u, known, {s}, Admit(known, s), {s} \ {s})
    BY <1>6, AdmitMoves
  <2>2. {s} \ {s} = {}
    OBVIOUS
  <2> QED
    BY <2>1, <2>2
<1>17. ASSUME s \in DOMAIN known.mappings, NEW m
       PROVE  Moves(u, known, {s}, Submit(known, m), {})
  <2>1. Moves(u, known, {s}, Submit(known, m), {s})
    BY <1>6, SubmitQuiet, MovesQuietly
  <2>2. Quietly(known, Submit(known, m))
    BY <1>6, SubmitQuiet
  <2>3. FineBut(Submit(known, m), {s}) => FineBut(Submit(known, m), {})
    BY <1>17, <2>2 DEF FineBut, Fine, Quietly
  <2> QED
    BY <2>1, <2>3 DEF Moves
<1>18. Moves(u, known, {s}, x, {})
  BY <1>12, <1>13, <1>14, <1>15, <1>16, <1>17
<1>19. Moves(u, r, {}, x, {})
  BY <1>5, <1>18, MovesTrans
<1> QED
  BY <1>11, <1>19 DEF Keeps

\* The cursor of a surface is another one.
LEMMA CursorGone ==
  ASSUME NEW f, CacheOk(f), NEW s, NEW g, g = [f EXCEPT ![s].cursor = None, ![s].sentCursor = None]
  PROVE  CacheOk(g) /\ SameRoles(f, g)
<1>1. IsMap(g) /\ DOMAIN g = DOMAIN f
  BY DEF CacheOk, IsMap
<1>2. ASSUME NEW t \in DOMAIN f
      PROVE  IsCached(g[t]) /\ g[t].role = f[t].role /\ g[t].commit = f[t].commit
  <2>1. PICK c : c = f[t]
    OBVIOUS
  <2>2. IsCached(c)
    BY <2>1 DEF CacheOk
  <2>5. PICK d : d = [c EXCEPT !.cursor = None, !.sentCursor = None]
    OBVIOUS
  <2>6. PICK a, b, k, l : c = [role |-> a, commit |-> b, cursor |-> k, sentCursor |-> l]
    BY <2>2 DEF IsCached
  <2>7. d = [role |-> a, commit |-> b, cursor |-> None, sentCursor |-> None]
    BY <2>5, <2>6
  <2>3. IsCached(d) /\ d.role = c.role /\ d.commit = c.commit
    BY <2>6, <2>7 DEF IsCached
  <2>4. g[t] = IF t = s THEN [c EXCEPT !.cursor = None, !.sentCursor = None] ELSE c
    BY <2>1 DEF CacheOk, IsMap
  <2> QED
    BY <2>1, <2>2, <2>3, <2>4, <2>5
<1> QED
  BY <1>1, <1>2 DEF CacheOk, SameRoles

\* Erasing both cursors of a surface writes the cache and nothing else.
LEMMA CursorErased ==
  ASSUME NEW r, IsRelay(r), NEW s
  PROVE  [r EXCEPT !.cache[s].cursor = None, !.cache[s].sentCursor = None]
         = [r EXCEPT !.cache = [r.cache EXCEPT ![s].cursor = None, ![s].sentCursor = None]]
<1>1. PICK f : f = [r.cache EXCEPT ![s].cursor = None]
  OBVIOUS
<1>2. PICK m : m = [r EXCEPT !.cache = f]
  OBVIOUS
<1>3. PICK g : g = [f EXCEPT ![s].sentCursor = None]
  OBVIOUS
<1>4. "cache" \in DOMAIN r /\ IsMap(r)
  BY DEF IsRelay, Fields, IsMap
<1>5. m.cache = f
  BY <1>2, <1>4
<1>6. [m EXCEPT !.cache = g] = [r EXCEPT !.cache = g]
  BY <1>2, <1>4
<1>7. [r EXCEPT !.cache[s].cursor = None, !.cache[s].sentCursor = None] = [m EXCEPT !.cache[s].sentCursor = None]
  BY ONLY <1>1, <1>2
<1>8. [m EXCEPT !.cache[s].sentCursor = None] = [m EXCEPT !.cache = g]
  BY ONLY <1>3, <1>5
<1>9. [r.cache EXCEPT ![s].cursor = None, ![s].sentCursor = None] = g
  BY ONLY <1>1, <1>3
<1> QED
  BY ONLY <1>6, <1>7, <1>8, <1>9

LEMMA CommitMoves ==
  ASSUME NEW u, NEW r, Settled(u, r), Up(r), NEW s \in Surfaces, s \notin u.gone, NEW commit
  PROVE  Keeps(u, r, ObserveCommit(r, s, commit))
<1>1. Shape(r) /\ IsRelay(r)
  BY DEF Settled, Told, Shape
<1>2. PICK c : c = [Cached(r, s) EXCEPT !.commit = commit]
  OBVIOUS
<1>3. IsCached(c)
  <2>1. PICK b : b = Cached(r, s)
    OBVIOUS
  <2>2. IsCached(b)
    BY <1>1, <2>1, CachedKind
  <2> QED
    BY <1>2, <2>1, <2>2 DEF IsCached
<1>4. PICK known : known = Cache(r, s, c)
  OBVIOUS
<1>5. Moves(u, r, {}, known, {s})
  BY <1>3, <1>4, CachePut
<1>6. Settled(u, known) /\ Shape(known) /\ IsRelay(known) /\ known.mappings = r.mappings
  <2>1. Settled(u, known) /\ Shape(known) /\ IsRelay(known)
    BY <1>5 DEF Moves, Settled, Told, Shape
  <2> QED
    BY <1>1, <1>4, <2>1 DEF Cache, IsRelay, Fields
<1>7. PICK hidden : hidden = [known EXCEPT !.cache[s].cursor = None, !.cache[s].sentCursor = None]
  OBVIOUS
<1>8. PICK kept : kept = IF commit = "mapped" THEN known ELSE ForgetCursor(hidden, {s})
  OBVIOUS
<1>9. Quietly(known, hidden)
  <2>1. PICK f, g : f = known.cache /\ g = [f EXCEPT ![s].cursor = None, ![s].sentCursor = None]
    OBVIOUS
  <2>2. hidden = [known EXCEPT !.cache = g]
    BY <1>6, <1>7, <2>1, CursorErased
  <2>3. CacheOk(g) /\ SameRoles(f, g)
    BY <1>6, <2>1, CursorGone DEF Shape
  <2>4. IsMap(hidden) /\ DOMAIN hidden = DOMAIN known /\ hidden.cache = g
    BY <1>6, <2>2 DEF IsRelay, IsMap, Fields
  <2>5. \A k \in {"admission", "failed", "revoked", "ready", "admitting", "mappings",
                  "claims", "updates", "effects", "ledger"} : hidden[k] = known[k]
    BY <1>6, <2>2 DEF IsRelay, IsMap, Fields
  <2>6. CacheOk(hidden.cache) /\ SameCache(known, hidden)
    BY <2>1, <2>3, <2>4 DEF SameCache
  <2> QED
    BY <1>6, <2>4, <2>5, <2>6, QuietFields
<1>10. Quietly(known, kept)
  <2>1. Quietly(known, known)
    BY <1>6, QuietlySelf
  <2>2. Quietly(hidden, ForgetCursor(hidden, {s}))
    BY <1>6, <1>9, QuietShape, ForgetCursorQuiet
  <2>3. Quietly(known, ForgetCursor(hidden, {s}))
    BY <1>9, <2>2, QuietTrans
  <2> QED
    BY <1>8, <2>1, <2>3
<1>11. Moves(u, r, {}, kept, {s})
  <2>1. Moves(u, known, {s}, kept, {s})
    BY <1>6, <1>10, MovesQuietly
  <2> QED
    BY <1>5, <2>1, MovesTrans
<1>12. Settled(u, kept) /\ Up(kept) /\ Shape(kept) /\ kept.mappings = r.mappings
  BY <1>6, <1>10, <1>11 DEF Moves, SameFlags, Up, Settled, Told, Quietly
<1>13. PICK x, m : x = ObserveCommit(r, s, commit) /\ m = Message("commit", r.mappings[s], s, commit)
  OBVIOUS
<1>14. x = r \/ (s \in DOMAIN r.mappings /\ x = Submit(kept, m)) \/ x = Admit(kept, s)
  <2>1. known = Cache(r, s, [Cached(r, s) EXCEPT !.commit = commit])
    BY <1>2, <1>4
  <2> QED
    BY <1>7, <1>8, <1>13, <2>1 DEF ObserveCommit
<1>15. Moves(u, r, {}, r, {})
  BY DEF Moves, SameFlags
<1>16. Moves(u, r, {}, Admit(kept, s), {})
  <2>1. Moves(u, kept, {s}, Admit(kept, s), {s} \ {s})
    BY <1>12, AdmitMoves
  <2>2. {s} \ {s} = {}
    OBVIOUS
  <2> QED
    BY <1>11, <2>1, <2>2, MovesTrans
<1>17. ASSUME s \in DOMAIN r.mappings
       PROVE  Moves(u, r, {}, Submit(kept, m), {})
  <2>1. Moves(u, kept, {s}, Submit(kept, m), {s})
    BY <1>12, SubmitQuiet, MovesQuietly
  <2>2. Quietly(kept, Submit(kept, m))
    BY <1>12, SubmitQuiet
  <2>3. FineBut(Submit(kept, m), {s}) => FineBut(Submit(kept, m), {})
    BY <1>12, <1>17, <2>2 DEF FineBut, Fine, Quietly
  <2>4. Moves(u, kept, {s}, Submit(kept, m), {})
    BY <2>1, <2>3 DEF Moves
  <2> QED
    BY <1>11, <2>4, MovesTrans
<1> QED
  BY <1>13, <1>14, <1>15, <1>16, <1>17 DEF Keeps

LEMMA CursorMoves ==
  ASSUME NEW u, NEW r, Settled(u, r), Up(r), NEW s \in Surfaces, s \notin u.gone, NEW cursor
  PROVE  Keeps(u, r, ObserveCursor(r, s, cursor))
<1>1. Shape(r) /\ IsRelay(r)
  BY DEF Settled, Told, Shape
<1>2. PICK c : c = [Cached(r, s) EXCEPT !.cursor = cursor]
  OBVIOUS
<1>3. IsCached(c) /\ c.role = Cached(r, s).role /\ c.commit = Cached(r, s).commit
  <2>1. PICK b : b = Cached(r, s)
    OBVIOUS
  <2>2. IsCached(b)
    BY <1>1, <2>1, CachedKind
  <2> QED
    BY <1>2, <2>1, <2>2 DEF IsCached
<1>4. PICK known : known = Cache(r, s, c)
  OBVIOUS
<1>5. Moves(u, r, {}, known, {s})
  BY <1>3, <1>4, CachePut
<1>6. known.mappings = r.mappings /\ known.cache = Put(r.cache, s, c)
  BY <1>1, <1>4 DEF Cache, IsRelay, Fields
<1>7. known.cache[s] = c
  BY <1>6 DEF Put
<1>8. s \in DOMAIN r.cache => (Fine(r, s) => Fine(known, s))
  BY <1>3, <1>6, <1>7 DEF Fine, Cached
<1>9. s \notin DOMAIN r.cache => Fine(known, s)
  BY <1>3, <1>7 DEF Fine, Cached, NoCache, None
<1>10. FineBut(r, {}) /\ FineBut(known, {s}) => FineBut(known, {})
  BY <1>8, <1>9 DEF FineBut
<1>11. Moves(u, r, {}, known, {})
  BY <1>5, <1>10 DEF Moves
<1>12. Settled(u, known) /\ Shape(known)
  BY <1>5 DEF Moves, Settled, Told
<1>13. Moves(u, known, {}, QueueCursor(known, s), {})
  BY <1>12, QueueCursorQuiet, MovesQuietly
<1>14. Moves(u, r, {}, QueueCursor(known, s), {})
  BY <1>11, <1>13, MovesTrans
<1>15. Moves(u, r, {}, r, {})
  BY DEF Moves, SameFlags
<1>16. ObserveCursor(r, s, cursor) \in {r, QueueCursor(known, s)}
  BY <1>2, <1>4 DEF ObserveCursor
<1> QED
  BY <1>14, <1>15, <1>16 DEF Keeps

\* The host forgets a surface that the relay has forgotten.
LEMMA ForgetSettles ==
  ASSUME NEW u, IsHost(u), NEW x, Shape(x), NEW s, AfterClaims(u, x.updates).claims = x.claims, s \notin DOMAIN x.claims,
         DOMAIN x.claims = (IF Up(x) THEN DOMAIN x.mappings ELSE {}),
         AfterEffects(u, x.effects).scaled \ {s} \subseteq DOMAIN x.claims,
         Up(x) => (DOMAIN x.mappings \union DOMAIN x.cache) \intersect (u.gone \union {s}) = {}
  PROVE  Settled(Forget(u, s), x)
<1>1. IsSeq(x.updates) /\ IsSeq(x.effects) /\ IsMap(x.claims)
  BY DEF Shape
<1>2. AfterClaims(Forget(u, s), x.updates).claims = Without(x.claims, {s})
  <2>1. PICK q : q = x.updates
    OBVIOUS
  <2>2. AfterClaims(Forget(u, s), q).claims = Without(AfterClaims(u, q).claims, {s})
    BY <1>1, <2>1, ClaimsForget
  <2> QED
    BY <2>1, <2>2
<1>3. Without(x.claims, {s}) = x.claims
  BY <1>1 DEF Without, IsMap
<1>4. AfterEffects(Forget(u, s), x.effects).scaled \subseteq AfterEffects(u, x.effects).scaled \ {s}
  BY <1>1, EffectsForget
<1>5. IsHost(Forget(u, s)) /\ Forget(u, s).gone = u.gone \union {s}
  BY ForgetHost
<1> QED
  BY <1>2, <1>3, <1>4, <1>5 DEF Settled, Told

\* The steps of ObserveDestroyed
Orphaned(r, s) ==
  Withdrawn([r EXCEPT !.reserved = Without(@, {s} \union Popups(r, s))],
            SetToSeq(Popups(r, s) \intersect DOMAIN r.mappings))
Ended(a, s) == [a EXCEPT !.effects = @ \o ReleaseEffects(a.ledger, {s}), !.ledger = Retained(@, {s})]
Announced(b, s) ==
  IF s \in DOMAIN b.mappings
    THEN Submit([b EXCEPT !.mappings = Without(@, {s})], Message("destroyed", b.mappings[s], s, None))
    ELSE b
Erased(d, s) == ForgetCursor([d EXCEPT !.cache = Without(@, {s})], {s})

LEMMA DestroyedMoves ==
  ASSUME NEW u, NEW r, Settled(u, r), Up(r), NEW s
  PROVE  LET x == ObserveDestroyed(r, s)
         IN Settled(Forget(u, s), x) /\ SameFlags(r, x) /\ (FineBut(r, {}) => FineBut(x, {}))
<1>1. Shape(r) /\ IsRelay(r)
  BY DEF Settled, Told, Shape
<1>2. PICK v : v = [r EXCEPT !.reserved = Without(r.reserved, {s} \union Popups(r, s))]
  OBVIOUS
<1>3. Quietly(r, v)
  BY <1>1, <1>2, ReservedQuiet
<1>4. Settled(u, v)
  BY <1>3, QuietKeeps
<1>5. PICK T : T = Popups(r, s) \intersect DOMAIN r.mappings
  OBVIOUS
<1>6. PICK q : q = SetToSeq(T)
  OBVIOUS
<1>7. IsFiniteSet(T) /\ IsSeq(q) /\ ToSet(q) = T
  <2>1. IsFiniteSet(T)
    BY <1>1, <1>5, LinkAssumption, FS_Subset DEF Shape
  <2> QED
    BY <1>6, <2>1, Listed
<1>8. PICK o : o = Withdrawn(v, q)
  OBVIOUS
<1>9. Settled(u, o) /\ Withdraws(v, o, T)
  BY <1>4, <1>7, <1>8, WithdrawnSettles
<1>10. Shape(o) /\ IsRelay(o)
  BY <1>9 DEF Settled, Told, Shape
<1>11. /\ SameFlags(r, o) /\ SameCache(r, o) /\ DOMAIN o.mappings = DOMAIN r.mappings \ T /\ Up(o)
  BY <1>3, <1>9 DEF Quietly, Withdraws, SameFlags, SameCache, SameRoles, Up
<1>12. PICK p, R, k, l : /\ p = SetToSeq({Claim(t, "release") : t \in {s} \intersect DOMAIN o.claims})
                         /\ R = ReleaseEffects(o.ledger, {s}) /\ k = Without(o.claims, {s}) /\ l = Retained(o.ledger, {s})
  OBVIOUS
<1>13. PICK m, g, w, y : /\ m = (IF s \in DOMAIN o.mappings THEN Without(o.mappings, {s}) ELSE o.mappings)
                         /\ g = Without(o.cache, {s}) /\ w = Dropping(o.cursors, {s})
                         /\ y = (IF s \in DOMAIN o.mappings
                                   THEN Append(o.sent, Message("destroyed", o.mappings[s], s, None)) ELSE o.sent)
  OBVIOUS
<1>14. PICK x : x = [o EXCEPT !.claims = k, !.updates = o.updates \o p, !.effects = o.effects \o R, !.ledger = l,
                              !.mappings = m, !.sent = y, !.cache = g, !.cursors = w]
  OBVIOUS
<1>15. ObserveDestroyed(r, s) = x
  <2>1. PICK released : released = [o EXCEPT !.claims = k, !.updates = o.updates \o p]
    OBVIOUS
  <2>2. ReleasePresentation(o, {s}) = released
    BY <1>12, <2>1 DEF ReleasePresentation
  <2>3. released.ledger = o.ledger /\ released.effects = o.effects
    BY <1>10, <2>1 DEF IsRelay, Fields
  <2>4. PICK settled : settled = [released EXCEPT !.effects = o.effects \o R, !.ledger = l]
    OBVIOUS
  <2>5. settled = [released EXCEPT !.effects = @ \o ReleaseEffects(released.ledger, {s}), !.ledger = Retained(@, {s})]
    BY <1>12, <2>3, <2>4
  <2>6. settled.mappings = o.mappings /\ settled.sent = o.sent /\ settled.cache = o.cache /\ settled.cursors = o.cursors
    BY <1>10, <2>1, <2>4 DEF IsRelay, Fields
  <2>7. PICK told : told = IF s \in DOMAIN settled.mappings
                             THEN Submit([settled EXCEPT !.mappings = Without(@, {s})],
                                         Message("destroyed", settled.mappings[s], s, None))
                             ELSE settled
    OBVIOUS
  <2>8. IsRelay(settled)
    <3>1. IsRelay(released)
      BY <1>10, <2>1 DEF IsRelay, IsMap, Fields
    <3> QED
      BY <2>4, <3>1 DEF IsRelay, IsMap, Fields
  <2>9. told = [settled EXCEPT !.mappings = m, !.sent = y]
    <3>1. CASE s \in DOMAIN o.mappings
      <4>1. PICK z : z = [settled EXCEPT !.mappings = m]
        OBVIOUS
      <4>2. told = Submit(z, Message("destroyed", o.mappings[s], s, None))
        BY <1>13, <2>6, <2>7, <3>1, <4>1
      <4>3. z.sent = o.sent
        BY <2>6, <2>8, <4>1 DEF IsRelay, Fields
      <4>4. told = [z EXCEPT !.sent = y]
        BY <1>13, <3>1, <4>2, <4>3 DEF Submit
      <4> QED
        BY <4>1, <4>4
    <3>2. CASE s \notin DOMAIN o.mappings
      <4>1. told = settled /\ m = settled.mappings /\ y = settled.sent
        BY <1>13, <2>6, <2>7, <3>2
      <4> QED
        BY <2>8, <4>1 DEF IsRelay, IsMap, Fields
    <3> QED
      BY <3>1, <3>2
  <2>10. told.cache = o.cache /\ told.cursors = o.cursors
    BY <2>6, <2>8, <2>9 DEF IsRelay, Fields
  <2>11. PICK c : c = [told EXCEPT !.cache = g]
    OBVIOUS
  <2>12. [told EXCEPT !.cache = Without(@, {s})] = c
    BY <1>13, <2>10, <2>11
  <2>13. c.cursors = o.cursors
    BY <2>8, <2>9, <2>10, <2>11 DEF IsRelay, Fields
  <2>14. ForgetCursor(c, {s}) = [c EXCEPT !.cursors = w]
    BY <1>13, <2>13 DEF ForgetCursor
  <2>15. ObserveDestroyed(r, s) = ForgetCursor(c, {s})
    <3>1. o = Withdrawn([r EXCEPT !.reserved = Without(@, {s} \union Popups(r, s))],
                        SetToSeq(Popups(r, s) \intersect DOMAIN r.mappings))
      BY <1>2, <1>5, <1>6, <1>8
    <3>2. ObserveDestroyed(r, s) = Erased(Announced(Ended(ReleasePresentation(Orphaned(r, s), {s}), s), s), s)
      BY DEF ObserveDestroyed, Erased, Announced, Ended, Orphaned
    <3>3. Orphaned(r, s) = o
      BY <3>1 DEF Orphaned
    <3>4. Ended(released, s) = settled
      BY <2>5 DEF Ended
    <3>5. Announced(settled, s) = told
      BY <2>7 DEF Announced
    <3>6. Erased(told, s) = ForgetCursor(c, {s})
      BY <2>12 DEF Erased
    <3> QED
      BY <2>2, <3>2, <3>3, <3>4, <3>5, <3>6
  <2> QED
    BY <1>14, <2>1, <2>4, <2>9, <2>11, <2>14, <2>15
<1>16. IsRelay(x)
  BY <1>10, <1>14 DEF IsRelay, IsMap, Fields
<1>17. /\ x.claims = k /\ x.updates = o.updates \o p /\ x.effects = o.effects \o R /\ x.ledger = l
       /\ x.mappings = m /\ x.cache = g /\ SameFlags(o, x)
  BY <1>10, <1>14 DEF IsRelay, Fields, SameFlags
<1>18. IsSeq(p) /\ Uniform(p, "release") /\ Named(p) = {s} \intersect DOMAIN o.claims
  <2>1. PICK N : N = {s} \intersect DOMAIN o.claims
    OBVIOUS
  <2>2. IsFiniteSet({s})
    BY FS_Singleton
  <2>3. IsFiniteSet(N)
    BY <2>1, <2>2, FS_Subset
  <2>4. p = SetToSeq({Claim(t, "release") : t \in N})
    BY <1>12, <2>1
  <2>5. IsSeq(p) /\ Uniform(p, "release") /\ Named(p) = N
    BY <2>3, <2>4, ClaimList
  <2> QED
    BY <2>1, <2>5
<1>19. IsSeq(R) /\ NoScale(R)
  BY <1>10, <1>12, ReleaseList DEF Shape
<1>20. IsMap(k) /\ DOMAIN k = DOMAIN o.claims \ {s} /\ \A t \in DOMAIN k : k[t] = o.claims[t]
  BY <1>12 DEF Without, IsMap
<1>21. IsMap(g) /\ DOMAIN g = DOMAIN o.cache \ {s} /\ \A t \in DOMAIN g : g[t] = o.cache[t]
  BY <1>13 DEF Without, IsMap
<1>22. IsMap(m) /\ DOMAIN m = DOMAIN o.mappings \ {s}
  <2>1. CASE s \in DOMAIN o.mappings
    BY <1>13, <2>1 DEF Without, IsMap
  <2>2. CASE s \notin DOMAIN o.mappings
    BY <1>10, <1>13, <2>2 DEF Shape
  <2> QED
    BY <2>1, <2>2
<1>23. k = Claimed(o.claims, {s} \intersect DOMAIN o.claims, "release")
  BY <1>12 DEF Claimed, Without
<1>24. IsSeq(o.updates \o p) /\ IsSeq(o.effects \o R)
  BY <1>10, <1>18, <1>19, ConcatFacts DEF Shape
<1>25. CacheOk(g) /\ LedgerOk(l)
  BY <1>10, <1>12, <1>21, RetainedOk DEF Shape, CacheOk
<1>26. Shape(x)
  BY <1>10, <1>16, <1>17, <1>20, <1>22, <1>24, <1>25 DEF Shape
<1>27. Appends(u, o, x, p, R, "release")
  BY <1>17, <1>18, <1>19, <1>23 DEF Appends
<1>28. Told(u, o, DOMAIN o.mappings) /\ DOMAIN o.claims = DOMAIN o.mappings
  BY <1>9, <1>11 DEF Settled, Told
<1>29. /\ AfterClaims(u, x.updates).claims = x.claims
       /\ AfterEffects(u, x.effects).scaled \subseteq DOMAIN o.mappings \ Resets(R)
  BY <1>27, <1>28, AppendsAfter
<1>30. Up(x) /\ SameFlags(r, x)
  BY <1>11, <1>17 DEF SameFlags, Up
<1>31. /\ s \notin DOMAIN x.claims /\ DOMAIN x.claims = DOMAIN x.mappings
       /\ AfterEffects(u, x.effects).scaled \ {s} \subseteq DOMAIN x.claims
  BY <1>17, <1>20, <1>22, <1>28, <1>29
<1>32. (DOMAIN x.mappings \union DOMAIN x.cache) \intersect (u.gone \union {s}) = {}
  BY <1>11, <1>17, <1>21, <1>22, <1>28 DEF Told
<1>33. Settled(Forget(u, s), x)
  <2>1. IsHost(u)
    BY DEF Settled, Told
  <2> QED
    BY <2>1, <1>26, <1>29, <1>30, <1>31, <1>32, ForgetSettles
<1>34. FineBut(r, {}) => FineBut(x, {})
  <2> SUFFICES ASSUME FineBut(r, {}), NEW t \in DOMAIN x.cache, x.cache[t].commit = "mapped",
                      x.cache[t].role = "toplevel" \/ (x.cache[t].role = "popup" /\ Owner[t] \in DOMAIN x.mappings)
               PROVE  t \in DOMAIN x.mappings
    BY DEF FineBut, Fine
  <2>1. t \in DOMAIN r.cache /\ r.cache[t].role = x.cache[t].role /\ r.cache[t].commit = "mapped" /\ t # s
    BY <1>11, <1>17, <1>21 DEF SameCache, SameRoles
  <2>2. DOMAIN x.mappings = (DOMAIN r.mappings \ T) \ {s}
    BY <1>11, <1>17, <1>22
  <2>3. t \in DOMAIN r.mappings
    BY <2>1, <2>2 DEF FineBut, Fine
  <2>4. t \notin T
    BY <1>5, <2>1, <2>2 DEF Popups
  <2> QED
    BY <2>1, <2>2, <2>3, <2>4
<1> QED
  BY <1>15, <1>30, <1>33, <1>34

-----------------------------------------------------------------------------
(* Failure.                                                                *)

LEMMA FailRelay ==
  ASSUME NEW r, IsRelay(r), NEW why, why # None, NEW x, x = Fail(r, why)
  PROVE  /\ IsRelay(x) /\ ~Up(x) /\ x.revoked = r.revoked /\ x.admission = r.admission
         /\ x.ready = r.ready /\ x.admitting = r.admitting
<1>1. CASE ~Up(r)
  BY <1>1 DEF Fail
<1>2. CASE Up(r)
  <2>1. PICK p, e, l : /\ p = r.updates \o SetToSeq({Claim(s, "release") : s \in DOMAIN r.claims})
                       /\ e = r.effects \o ReleaseEffects(r.ledger, Surfaces) \o <<Effect("disconnected", None)>>
                                \o SetToSeq({Effect("unscale", s) : s \in DOMAIN r.mappings})
                       /\ l = Retained(r.ledger, Surfaces)
    OBVIOUS
  <2>2. x = [r EXCEPT !.failed = why, !.updates = p, !.claims = Empty, !.inflight = Empty, !.cursors = <<>>,
                      !.reserved = Empty, !.effects = e, !.ledger = l, !.cache = Empty]
    BY <1>2, <2>1 DEF Fail
  <2>3. IsRelay(x)
    BY <2>2 DEF IsRelay, IsMap, Fields
  <2>4. /\ x.failed = why /\ x.revoked = r.revoked /\ x.admission = r.admission
        /\ x.ready = r.ready /\ x.admitting = r.admitting
    BY <2>2 DEF IsRelay, Fields
  <2> QED
    BY <2>3, <2>4 DEF Up
<1> QED
  BY <1>1, <1>2

LEMMA FailParts ==
  ASSUME NEW r, Shape(r), DOMAIN r.claims \subseteq DOMAIN r.mappings, Up(r), NEW why, why # None, NEW x, x = Fail(r, why)
  PROVE  /\ Shape(x) /\ x.failed = why /\ x.claims = Empty /\ x.cache = Empty
         /\ x.sent = r.sent /\ x.mappings = r.mappings /\ x.nextCursor = r.nextCursor /\ x.inflight = Empty /\ x.cursors = <<>>
         /\ \E p, b : DOMAIN r.mappings \subseteq Resets(b) /\ \A u : Appends(u, r, x, p, b, "release")
<1>1. IsRelay(r)
  BY DEF Shape
<1>2. PICK M, C : M = DOMAIN r.mappings /\ C = DOMAIN r.claims
  OBVIOUS
<1>3. IsFiniteSet(M) /\ IsFiniteSet(C)
  BY <1>2, LinkAssumption, FS_Subset DEF Shape
<1>4. PICK p, R, d, e, l : /\ p = SetToSeq({Claim(s, "release") : s \in C}) /\ R = ReleaseEffects(r.ledger, Surfaces)
                           /\ d = <<Effect("disconnected", None)>>
                           /\ e = SetToSeq({Effect("unscale", s) : s \in M}) /\ l = Retained(r.ledger, Surfaces)
  OBVIOUS
<1>5. x = [r EXCEPT !.failed = why, !.updates = r.updates \o p, !.claims = Empty, !.inflight = Empty, !.cursors = <<>>,
                    !.reserved = Empty, !.effects = ((r.effects \o R) \o d) \o e, !.ledger = l, !.cache = Empty]
  BY <1>2, <1>4 DEF Fail
<1>6. IsSeq(p) /\ Uniform(p, "release") /\ Named(p) = C
  BY <1>3, <1>4, ClaimList
<1>7. IsSeq(R) /\ NoScale(R)
  BY <1>1, <1>4, ReleaseList DEF Shape
<1>8. IsSeq(d) /\ NoScale(d)
  <2>1. d \in Seq({Effect("disconnected", None)}) /\ Len(d) = 1 /\ d[1] = Effect("disconnected", None)
    BY <1>4
  <2>2. IsSeq(d)
    BY <2>1 DEF IsSeq
  <2>3. Effect("disconnected", None).kind # "scale"
    BY DEF Effect
  <2>4. \A i \in 1 .. Len(d) : d[i] = Effect("disconnected", None)
    BY <2>1
  <2> QED
    BY <2>2, <2>3, <2>4 DEF NoScale
<1>9. IsSeq(e) /\ NoScale(e) /\ Resets(e) = M
  <2>1. PICK T : T = {Effect("unscale", s) : s \in M}
    OBVIOUS
  <2>2. IsFiniteSet(T)
    <3> DEFINE f == [s \in M |-> Effect("unscale", s)]
    <3>1. IsFiniteSet({f[s] : s \in M})
      BY <1>3, ImageFinite
    <3>2. {f[s] : s \in M} = T
      BY <2>1
    <3> QED
      BY <3>1, <3>2
  <2>3. \A s : Effect("unscale", s).kind = "unscale" /\ Effect("unscale", s).surface = s
    BY DEF Effect
  <2>4. \A a \in T : a.kind = "unscale" /\ a.surface \in M
    BY <2>1, <2>3
  <2>5. e = SetToSeq(T)
    BY <1>4, <2>1
  <2>6. IsSeq(e) /\ NoScale(e) /\ Resets(e) = {a.surface : a \in {b \in T : b.kind = "unscale"}}
    BY <2>2, <2>4, <2>5, EffectList
  <2>7. {a.surface : a \in {b \in T : b.kind = "unscale"}} = M
    <3>1. ASSUME NEW s \in M PROVE s \in {a.surface : a \in {b \in T : b.kind = "unscale"}}
      <4>1. Effect("unscale", s) \in T
        BY <2>1
      <4> QED
        BY <2>3, <4>1
    <3> QED
      BY <2>4, <3>1
  <2> QED
    BY <2>6, <2>7
<1>10. PICK a : a = R \o d
  OBVIOUS
<1>11. IsSeq(a) /\ NoScale(a)
  BY <1>7, <1>8, <1>10, NoScaleConcat
<1>12. PICK b : b = a \o e
  OBVIOUS
<1>13. IsSeq(b) /\ NoScale(b) /\ M \subseteq Resets(b)
  BY <1>9, <1>11, <1>12, NoScaleConcat
<1>14. ((r.effects \o R) \o d) \o e = r.effects \o b
  <2>1. PICK c : c = r.effects
    OBVIOUS
  <2>2. IsSeq(c)
    BY <1>1, <2>1 DEF Shape
  <2>3. (c \o R) \o d = c \o a
    BY <1>7, <1>8, <1>10, <2>2, Associates
  <2>4. (c \o a) \o e = c \o b
    BY <1>9, <1>11, <1>12, <2>2, Associates
  <2> QED
    BY <2>1, <2>3, <2>4
<1>15. IsRelay(x)
  BY <1>1, FailRelay
<1>16. /\ x.claims = Empty /\ x.updates = r.updates \o p /\ x.effects = r.effects \o b /\ x.ledger = l
       /\ x.mappings = r.mappings /\ x.cache = Empty
  BY <1>1, <1>5, <1>14 DEF IsRelay, Fields
<1>17. IsMap(Empty) /\ DOMAIN Empty = {} /\ CacheOk(Empty)
  BY DEF IsMap, Empty, CacheOk
<1>18. LedgerOk(l)
  BY <1>1, <1>4, RetainedOk DEF Shape
<1>19. IsSeq(r.updates \o p) /\ IsSeq(r.effects \o b)
  BY <1>1, <1>6, <1>13, ConcatFacts DEF Shape
<1>20. Shape(x)
  BY <1>15, <1>16, <1>17, <1>18, <1>19 DEF Shape
<1>21. Empty = Claimed(r.claims, C, "release")
  BY <1>2 DEF Claimed, Without, Empty
<1>22. ASSUME NEW u
       PROVE  Appends(u, r, x, p, b, "release")
  BY <1>6, <1>13, <1>16, <1>21 DEF Appends
<1>23. x.failed = why /\ x.sent = r.sent /\ x.nextCursor = r.nextCursor /\ x.inflight = Empty /\ x.cursors = <<>>
  BY <1>1, <1>5 DEF IsRelay, Fields
<1> QED
  BY <1>2, <1>13, <1>16, <1>20, <1>22, <1>23

LEMMA FailSettles ==
  ASSUME NEW u, NEW r, Settled(u, r), Up(r), NEW why, why # None, NEW x, x = Fail(r, why)
  PROVE  Settled(u, x)
<1>1. Shape(r) /\ Told(u, r, DOMAIN r.mappings) /\ DOMAIN r.claims = DOMAIN r.mappings
  BY DEF Settled, Told, Shape
<1>2. Shape(x) /\ x.failed = why /\ x.claims = Empty
  BY <1>1, FailParts
<1>3. PICK p, b : DOMAIN r.mappings \subseteq Resets(b) /\ \A v : Appends(v, r, x, p, b, "release")
  BY <1>1, FailParts
<1>4. ~Up(x) /\ DOMAIN x.claims = {}
  BY <1>2 DEF Up, Empty
<1>5. Told(u, x, DOMAIN x.claims)
  BY <1>1, <1>2, <1>3, <1>4, ToldAppends
<1> QED
  BY <1>4, <1>5 DEF Settled

-----------------------------------------------------------------------------
(* The messages of the viewer.                                             *)

LEMMA EffectsOne ==
  ASSUME NEW u, NEW q, IsSeq(q), NEW e
  PROVE  IsSeq(Append(q, e)) /\ AfterEffects(u, Append(q, e)) = Apply(AfterEffects(u, q), e)
<1>1. PICK E : q \in Seq(E)
  BY DEF IsSeq
<1>2. PICK F : F = E \union {e}
  OBVIOUS
<1>3. q \in Seq(F) /\ e \in F
  BY <1>1, <1>2
<1>4. PICK a : a = <<e>>
  OBVIOUS
<1>5. a \in Seq(F) /\ Len(a) = 1 /\ a[1] = e
  BY <1>3, <1>4
<1>6. Append(q, e) = q \o a /\ Append(q, e) \in Seq(F)
  BY <1>3, <1>4, AppendIsConcat, AppendProperties
<1>7. IsSeq(a) /\ IsSeq(Append(q, e))
  BY <1>5, <1>6 DEF IsSeq
<1>8. AfterEffects(u, q \o a) = AfterEffects(AfterEffects(u, q), a)
  BY <1>7, EffectsConcat
<1>9. PICK v : v = AfterEffects(u, q)
  OBVIOUS
<1>10. PICK f : EffectsRun(f, v, a) /\ AfterEffects(v, a) = f[Len(a)]
  <2>1. Len(a) \in Nat
    BY <1>5
  <2> QED
    BY <2>1, EffectsRuns
<1>11. f[1] = Apply(f[0], a[1]) /\ f[0] = v
  BY <1>5, <1>10 DEF EffectsRun
<1> QED
  BY <1>5, <1>6, <1>7, <1>8, <1>9, <1>10, <1>11

\* One effect, and what the relay notes of it
LEMMA EffectMoves ==
  ASSUME NEW u, NEW r, Settled(u, r), Up(r), NEW e, e.kind = "scale" => e.surface \in DOMAIN r.mappings,
         NEW x, IsRelay(x), SameFlags(r, x), LedgerOk(x.ledger), x.effects = Append(r.effects, e),
         \A k \in {"mappings", "cache", "claims", "updates"} : x[k] = r[k]
  PROVE  Keeps(u, r, x)
<1>1. Shape(r) /\ IsHost(u) /\ Told(u, r, DOMAIN r.mappings)
  BY DEF Settled, Told
<1>2. PICK q : q = r.effects
  OBVIOUS
<1>3. IsSeq(q) /\ AfterEffects(u, q).scaled \subseteq DOMAIN r.mappings
  BY <1>1, <1>2 DEF Told, Shape
<1>4. IsSeq(Append(q, e)) /\ AfterEffects(u, Append(q, e)) = Apply(AfterEffects(u, q), e)
  BY <1>3, EffectsOne
<1>5. PICK v : v = AfterEffects(u, q)
  OBVIOUS
<1>6. IsHost(v)
  BY <1>1, <1>3, <1>5, EffectsHost
<1>7. Apply(v, e).scaled \subseteq DOMAIN r.mappings
  BY <1>3, <1>5, <1>6, ApplyScale
<1>8. AfterEffects(u, x.effects).scaled \subseteq DOMAIN r.mappings /\ IsSeq(x.effects)
  BY <1>2, <1>4, <1>5, <1>7
<1>9. x.mappings = r.mappings /\ x.cache = r.cache /\ x.claims = r.claims /\ x.updates = r.updates
  OBVIOUS
<1>10. Shape(x)
  BY <1>1, <1>8, <1>9 DEF Shape
<1>11. Up(x)
  BY DEF SameFlags, Up
<1>12. Settled(u, x)
  BY <1>1, <1>8, <1>9, <1>10, <1>11 DEF Settled, Told
<1>13. FineBut(r, {}) => FineBut(x, {})
  BY <1>9 DEF FineBut, Fine
<1> QED
  BY <1>12, <1>13 DEF Keeps, Moves

LEMMA LedgerKind ==
  ASSUME NEW a, NEW b, NEW d, NEW g, IsFiniteSet(DOMAIN a), IsFiniteSet(DOMAIN b), IsFiniteSet(d)
  PROVE  LedgerOk([held |-> a, contacts |-> b, frames |-> d, focus |-> g])
BY DEF LedgerOk

LEMMA ObserveOk ==
  ASSUME NEW l, LedgerOk(l), NEW e
  PROVE  LedgerOk(Observe(l, e))
<1>1. PICK h, c, f, o : l = [held |-> h, contacts |-> c, frames |-> f, focus |-> o]
  BY DEF LedgerOk
<1>2. IsFiniteSet(DOMAIN h) /\ IsFiniteSet(DOMAIN c) /\ IsFiniteSet(f)
  BY <1>1 DEF LedgerOk
<1>3. PICK h1, h2, c1, c2, c3 :
         /\ h1 = Put(h, e.code, [surface |-> e.surface, repeats |-> TRUE]) /\ h2 = Without(h, {e.code})
         /\ c1 = Put(c, e.code, e.surface) /\ c2 = Without(c, {e.code})
         /\ c3 = Without(c, {d \in DOMAIN c : c[d] = e.surface})
  OBVIOUS
<1>4. /\ DOMAIN h1 = DOMAIN h \union {e.code} /\ DOMAIN h2 \subseteq DOMAIN h
      /\ DOMAIN c1 = DOMAIN c \union {e.code} /\ DOMAIN c2 \subseteq DOMAIN c /\ DOMAIN c3 \subseteq DOMAIN c
  BY <1>3 DEF Put, Without
<1>5. IsFiniteSet(DOMAIN h1) /\ IsFiniteSet(DOMAIN c1) /\ IsFiniteSet(f \union {e.surface})
  <2>1. PICK A, B, k : A = DOMAIN h /\ B = DOMAIN c /\ k = e.code
    OBVIOUS
  <2>2. IsFiniteSet(A \union {k}) /\ IsFiniteSet(B \union {k})
    BY <1>2, <2>1, FS_AddElement
  <2>3. IsFiniteSet(f \union {e.surface})
    BY <1>2, FS_AddElement
  <2> QED
    BY <1>4, <2>1, <2>2, <2>3
<1>6. IsFiniteSet(DOMAIN h2) /\ IsFiniteSet(DOMAIN c2) /\ IsFiniteSet(DOMAIN c3) /\ IsFiniteSet(f \ {e.surface})
  BY <1>2, <1>4, FS_Subset
<1>7. Observe(l, e) \in {[held |-> h1, contacts |-> c, frames |-> f, focus |-> o],
                         [held |-> h2, contacts |-> c, frames |-> f, focus |-> o],
                         [held |-> h, contacts |-> c1, frames |-> f \union {e.surface}, focus |-> o],
                         [held |-> h, contacts |-> c2, frames |-> f \union {e.surface}, focus |-> o],
                         [held |-> h, contacts |-> c, frames |-> f \ {e.surface}, focus |-> o],
                         [held |-> h, contacts |-> c3, frames |-> f \ {e.surface}, focus |-> o], l}
  BY <1>1, <1>3 DEF Observe
<1>8. PICK f1, f2 : f1 = f \union {e.surface} /\ f2 = f \ {e.surface}
  OBVIOUS
<1>9. IsFiniteSet(f1) /\ IsFiniteSet(f2)
  BY <1>5, <1>6, <1>8
<1>10. /\ LedgerOk([held |-> h1, contacts |-> c, frames |-> f, focus |-> o])
       /\ LedgerOk([held |-> h2, contacts |-> c, frames |-> f, focus |-> o])
  BY <1>2, <1>5, <1>6, LedgerKind
<1>11. /\ LedgerOk([held |-> h, contacts |-> c1, frames |-> f1, focus |-> o])
       /\ LedgerOk([held |-> h, contacts |-> c2, frames |-> f1, focus |-> o])
  BY <1>2, <1>5, <1>6, <1>9, LedgerKind
<1>12. /\ LedgerOk([held |-> h, contacts |-> c, frames |-> f2, focus |-> o])
       /\ LedgerOk([held |-> h, contacts |-> c3, frames |-> f2, focus |-> o])
  BY <1>2, <1>6, <1>9, LedgerKind
<1>13. PICK x : x = Observe(l, e)
  OBVIOUS
<1>14. \/ x = [held |-> h1, contacts |-> c, frames |-> f, focus |-> o]
       \/ x = [held |-> h2, contacts |-> c, frames |-> f, focus |-> o]
       \/ x = [held |-> h, contacts |-> c1, frames |-> f1, focus |-> o]
       \/ x = [held |-> h, contacts |-> c2, frames |-> f1, focus |-> o]
       \/ x = [held |-> h, contacts |-> c, frames |-> f2, focus |-> o]
       \/ x = [held |-> h, contacts |-> c3, frames |-> f2, focus |-> o]
       \/ x = l
  BY <1>7, <1>8, <1>13
<1>15. LedgerOk(x)
  BY <1>10, <1>11, <1>12, <1>14, Zenon
<1> QED
  BY <1>13, <1>15

LEMMA FocusedOk ==
  ASSUME NEW l, LedgerOk(l), NEW s
  PROVE  LedgerOk(Focused(l, s))
<1>1. PICK h, c, f, o : l = [held |-> h, contacts |-> c, frames |-> f, focus |-> o]
  BY DEF LedgerOk
<1>2. IsFiniteSet(DOMAIN h) /\ IsFiniteSet(DOMAIN c) /\ IsFiniteSet(f)
  BY <1>1 DEF LedgerOk
<1>3. PICK k : k = IF o = s THEN h ELSE [x \in DOMAIN h |-> [h[x] EXCEPT !.repeats = FALSE]]
  OBVIOUS
<1>4. DOMAIN k = DOMAIN h
  BY <1>3
<1>5. Focused(l, s) = [held |-> k, contacts |-> c, frames |-> f, focus |-> s]
  <2>1. l.held = h /\ l.focus = o
    BY <1>1
  <2>2. Focused(l, s) = [l EXCEPT !.focus = s, !.held = k]
    BY <1>3, <2>1 DEF Focused
  <2> QED
    BY <1>1, <2>2
<1> QED
  BY <1>2, <1>4, <1>5, LedgerKind

LEMMA KeepsSelf ==
  ASSUME NEW u, NEW r, Settled(u, r)
  PROVE  Keeps(u, r, r)
BY DEF Keeps, Moves, SameFlags

\* x is r after what a message of a mapped surface asked for.
LEMMA RoutedMoves ==
  ASSUME NEW u, NEW r, Settled(u, r), Up(r), NEW m, m.kind # "focus" => m.surface \in DOMAIN r.mappings
  PROVE  Keeps(u, r, AcceptRouted(r, m))
<1>1. Shape(r) /\ IsRelay(r) /\ Told(u, r, DOMAIN r.mappings) /\ LedgerOk(r.ledger)
  BY DEF Settled, Told, Shape
<1>2. CASE m.kind = "input"
  <2>1. PICK e : e = m.value
    OBVIOUS
  <2>2. PICK d : d = Input(e.op, e.code, e.surface)
    OBVIOUS
  <2>3. PICK l : l = Observe(r.ledger, e)
    OBVIOUS
  <2>4. PICK x : x = [r EXCEPT !.ledger = l, !.effects = Append(r.effects, d)]
    OBVIOUS
  <2>5. AcceptRouted(r, m) \in {r, x}
    BY <1>2, <2>1, <2>2, <2>3, <2>4 DEF AcceptRouted
  <2>6. d.kind # "scale"
    BY <2>2 DEF Input
  <2>7. LedgerOk(l)
    BY <1>1, <2>3, ObserveOk
  <2>8. IsRelay(x)
    BY <1>1, <2>4 DEF IsRelay, IsMap, Fields
  <2>9. /\ SameFlags(r, x) /\ x.ledger = l /\ x.effects = Append(r.effects, d)
        /\ \A k \in {"mappings", "cache", "claims", "updates"} : x[k] = r[k]
    BY <1>1, <2>4 DEF IsRelay, Fields, SameFlags
  <2>10. Keeps(u, r, x)
    BY <2>6, <2>7, <2>8, <2>9, EffectMoves
  <2> QED
    BY <2>5, <2>10, KeepsSelf
<1>3. CASE m.kind = "focus"
  <2>1. PICK d, l : d = Focus(m.surface) /\ l = Focused(r.ledger, m.surface)
    OBVIOUS
  <2>2. PICK x : x = [r EXCEPT !.ledger = l, !.effects = Append(r.effects, d)]
    OBVIOUS
  <2>3. AcceptRouted(r, m) = x
    BY <1>3, <2>1, <2>2 DEF AcceptRouted
  <2>4. d.kind # "scale" /\ LedgerOk(l)
    BY <1>1, <2>1, FocusedOk DEF Focus
  <2>5. IsRelay(x)
    BY <1>1, <2>2 DEF IsRelay, IsMap, Fields
  <2>6. /\ SameFlags(r, x) /\ x.ledger = l /\ x.effects = Append(r.effects, d)
        /\ \A k \in {"mappings", "cache", "claims", "updates"} : x[k] = r[k]
    BY <1>1, <2>2 DEF IsRelay, Fields, SameFlags
  <2>7. Keeps(u, r, x)
    BY <2>4, <2>5, <2>6, EffectMoves
  <2> QED
    BY <2>3, <2>7
<1>4. CASE m.kind = "claim"
  <2>1. PICK x, s : x = SetPresentation(r, m.surface, Requested(m.value)) /\ s = m.surface
    OBVIOUS
  <2>2. AcceptRouted(r, m) = x
    BY <1>4, <2>1 DEF AcceptRouted
  <2>3. PICK c : c = Requested(m.value)
    OBVIOUS
  <2>4. c # "release" /\ s \in DOMAIN r.mappings /\ DOMAIN r.mappings \union {s} = DOMAIN r.mappings
    BY <1>4, <2>1, <2>3 DEF Requested
  <2>5. Settled(u, x) /\ SameFlags(r, x) /\ x.mappings = r.mappings /\ x.cache = r.cache
    BY <1>1, <2>1, <2>3, <2>4, SetPresentationSettles
  <2>6. FineBut(r, {}) => FineBut(x, {})
    BY <2>5 DEF FineBut, Fine
  <2> QED
    BY <2>2, <2>5, <2>6 DEF Keeps, Moves
<1>5. CASE m.kind \notin {"input", "focus", "claim"}
  <2>1. PICK d : d = Effect("scale", m.surface)
    OBVIOUS
  <2>2. PICK x : x = [r EXCEPT !.effects = Append(r.effects, d)]
    OBVIOUS
  <2>3. AcceptRouted(r, m) = x
    BY <1>5, <2>1, <2>2 DEF AcceptRouted
  <2>4. d.surface \in DOMAIN r.mappings
    BY <1>5, <2>1 DEF Effect
  <2>5. IsRelay(x)
    BY <1>1, <2>2 DEF IsRelay, IsMap, Fields
  <2>6. /\ SameFlags(r, x) /\ x.ledger = r.ledger /\ x.effects = Append(r.effects, d)
        /\ \A k \in {"mappings", "cache", "claims", "updates"} : x[k] = r[k]
    BY <1>1, <2>2 DEF IsRelay, Fields, SameFlags
  <2>7. Keeps(u, r, x)
    BY <1>1, <2>4, <2>5, <2>6, EffectMoves
  <2> QED
    BY <2>3, <2>7
<1> QED
  BY <1>2, <1>3, <1>4, <1>5

\* The relay keeps its promises, or fails.
Or(u, r, x) == Keeps(u, r, x) \/ \E why : why # None /\ x = Fail(r, why)

LEMMA AcceptMoves ==
  ASSUME NEW u, NEW r, Settled(u, r), Up(r), NEW m
  PROVE  Or(u, r, Accept(r, m))
<1>1. Shape(r) /\ IsRelay(r)
  BY DEF Settled, Told, Shape
<1>2. Keeps(u, r, r)
  BY KeepsSelf
<1>3. PICK v : v = [r EXCEPT !.inflight = Empty]
  OBVIOUS
<1>4. Quietly(r, v)
  <2>1. IsMap(v) /\ DOMAIN v = DOMAIN r /\ v.cache = r.cache
    BY <1>1, <1>3 DEF IsRelay, IsMap, Fields
  <2>2. \A k \in {"admission", "failed", "revoked", "ready", "admitting", "mappings",
                  "claims", "updates", "effects", "ledger"} : v[k] = r[k]
    BY <1>1, <1>3 DEF IsRelay, IsMap, Fields
  <2>3. CacheOk(v.cache) /\ SameCache(r, v)
    BY <1>1, <2>1 DEF Shape, SameCache, SameRoles
  <2> QED
    BY <1>1, <2>1, <2>2, <2>3, QuietFields
<1>5. Keeps(u, r, SendNextCursor(v))
  <2>1. Quietly(v, SendNextCursor(v))
    BY <1>1, <1>4, QuietShape, SendNextCursorQuiet
  <2>2. Quietly(r, SendNextCursor(v))
    BY <1>4, <2>1, QuietTrans
  <2> QED
    BY <2>2, MovesQuietly DEF Keeps
<1>6. CASE m.kind = "ack"
  <2>1. AcceptCursor(r, m) \in {r, SendNextCursor(v), Fail(r, "acknowledgement precedes transmission"),
                                Fail(r, "acknowledgement mismatch")}
    BY <1>3 DEF AcceptCursor
  <2>2. Accept(r, m) = AcceptCursor(r, m)
    BY <1>6 DEF Accept
  <2>3. "acknowledgement precedes transmission" # None /\ "acknowledgement mismatch" # None
    BY DEF None
  <2> QED
    BY <1>2, <1>5, <2>1, <2>2, <2>3 DEF Or
<1>7. CASE m.kind # "ack"
  <2>1. Accept(r, m) \in {r, Fail(r, "crossed")} \/ (Target(r, m) \in DOMAIN r.mappings /\ Accept(r, m) = AcceptRouted(r, m))
    BY <1>7 DEF Accept
  <2>2. "crossed" # None
    BY DEF None
  <2>3. ASSUME Target(r, m) \in DOMAIN r.mappings
        PROVE  Keeps(u, r, AcceptRouted(r, m))
    <3>1. m.kind # "focus" => m.surface \in DOMAIN r.mappings
      BY <2>3 DEF Target
    <3> QED
      BY <3>1, RoutedMoves
  <2> QED
    BY <1>2, <2>1, <2>2, <2>3 DEF Or
<1> QED
  BY <1>6, <1>7

-----------------------------------------------------------------------------
(* The inductive invariant.                                                *)

\* A relay whose claims and scale the host will know once it has drained, unless
\* its access is revoked, and which has admitted every window that wants it.
Sound(u, r) ==
  /\ IsRelay(r)
  /\ r.admitting => r.admission = "all" /\ r.ready
  /\ Up(r) /\ r.admitting => FineBut(r, {})
  /\ ~r.revoked => Settled(u, r)

RelayInv == Sound(upstream, src)

LEMMA KeepsSound ==
  ASSUME NEW u, NEW r, Sound(u, r), NEW x, Keeps(u, r, x)
  PROVE  Sound(u, x)
<1>1. Settled(u, x) /\ SameFlags(r, x) /\ (r.ready /\ r.admission = "all" /\ FineBut(r, {}) => FineBut(x, {}))
  BY DEF Keeps, Moves
<1>2. IsRelay(x)
  BY <1>1 DEF Settled, Told, Shape
<1> QED
  BY <1>1, <1>2 DEF Sound, SameFlags, Up

LEMMA FailSound ==
  ASSUME NEW u, NEW r, Sound(u, r), NEW why, why # None
  PROVE  Sound(u, Fail(r, why))
<1>1. PICK x : x = Fail(r, why)
  OBVIOUS
<1>2. IsRelay(x) /\ ~Up(x) /\ x.revoked = r.revoked /\ x.admission = r.admission /\ x.ready = r.ready /\ x.admitting = r.admitting
  BY <1>1, FailRelay DEF Sound
<1>3. ~r.revoked => Settled(u, x)
  <2>1. CASE Up(r)
    BY <1>1, <2>1, FailSettles DEF Sound
  <2>2. CASE ~Up(r)
    BY <1>1, <2>2 DEF Sound, Fail
  <2> QED
    BY <2>1, <2>2
<1> QED
  BY <1>1, <1>2, <1>3 DEF Sound

\* What a relay has submitted, and the counter of sessions, do not matter.
Alike(r, x) ==
  /\ IsMap(x) /\ DOMAIN x = DOMAIN r
  /\ \A k \in {"admission", "failed", "revoked", "ready", "admitting", "mappings", "cache",
               "claims", "updates", "effects", "ledger"} : x[k] = r[k]

LEMMA AlikeSound ==
  ASSUME NEW u, NEW r, Sound(u, r), NEW x, Alike(r, x)
  PROVE  Sound(u, x)
<1>1. /\ IsRelay(x) /\ SameFlags(r, x) /\ x.mappings = r.mappings /\ x.cache = r.cache /\ x.claims = r.claims
      /\ x.updates = r.updates /\ x.effects = r.effects /\ x.ledger = r.ledger
  BY DEF Sound, IsRelay, Alike, SameFlags
<1>2. Settled(u, r) => Settled(u, x)
  <2>1. Shape(r) => Shape(x)
    BY <1>1 DEF Shape
  <2> QED
    BY <1>1, <2>1 DEF Settled, Told, SameFlags, Up
<1>3. FineBut(r, {}) => FineBut(x, {})
  BY <1>1 DEF FineBut, Fine
<1> QED
  BY <1>1, <1>2, <1>3 DEF Sound, SameFlags, Up

LEMMA SentAlike ==
  ASSUME NEW r, IsRelay(r), NEW v
  PROVE  Alike(r, [r EXCEPT !.sent = v]) /\ Alike(r, [r EXCEPT !.nextSession = v])
<1>1. PICK x, y : x = [r EXCEPT !.sent = v] /\ y = [r EXCEPT !.nextSession = v]
  OBVIOUS
<1>2. IsMap(x) /\ DOMAIN x = DOMAIN r /\ IsMap(y) /\ DOMAIN y = DOMAIN r
  BY <1>1 DEF IsRelay, IsMap
<1>3. \A k \in {"admission", "failed", "revoked", "ready", "admitting", "mappings", "cache",
                "claims", "updates", "effects", "ledger"} : x[k] = r[k] /\ y[k] = r[k]
  BY <1>1 DEF IsRelay, IsMap, Fields
<1> QED
  BY <1>1, <1>2, <1>3 DEF Alike

\* A relay that is down does not hear of a destroyed surface.
LEMMA DownForgets ==
  ASSUME NEW u, NEW r, Sound(u, r), ~Up(r), NEW s
  PROVE  Sound(Forget(u, s), r)
<1>1. ASSUME Settled(u, r) PROVE Settled(Forget(u, s), r)
  <2>1. IsHost(u) /\ Shape(r) /\ AfterClaims(u, r.updates).claims = r.claims /\ DOMAIN r.claims = {}
        /\ AfterEffects(u, r.effects).scaled \subseteq {}
    BY <1>1 DEF Settled, Told
  <2> QED
    BY <2>1, ForgetSettles
<1> QED
  BY <1>1 DEF Sound

LEMMA CheckSound ==
  ASSUME NEW u, NEW r, Sound(u, r)
  PROVE  /\ Sound(u, CheckAccess(r))
         /\ Up(CheckAccess(r)) => CheckAccess(r) = r /\ ~r.revoked
<1>1. CASE Up(r) /\ r.revoked
  <2>1. PICK v : v = [r EXCEPT !.effects = <<>>, !.updates = <<>>]
    OBVIOUS
  <2>2. IsRelay(v) /\ v.revoked = r.revoked /\ v.admission = r.admission /\ v.ready = r.ready /\ v.admitting = r.admitting
    BY <2>1 DEF Sound, IsRelay, IsMap, Fields
  <2>3. PICK x : x = Fail(v, "revoked")
    OBVIOUS
  <2>4. "revoked" # None
    BY DEF None
  <2>5. IsRelay(x) /\ ~Up(x) /\ x.revoked = v.revoked /\ x.admission = v.admission /\ x.ready = v.ready /\ x.admitting = v.admitting
    BY <2>2, <2>3, <2>4, FailRelay
  <2>6. CheckAccess(r) = x
    BY <1>1, <2>1, <2>3 DEF CheckAccess
  <2>7. Sound(u, x)
    BY <1>1, <2>2, <2>5 DEF Sound
  <2> QED
    BY <2>5, <2>6, <2>7
<1>2. CASE ~(Up(r) /\ r.revoked)
  BY <1>2 DEF CheckAccess
<1> QED
  BY <1>1, <1>2

LEMMA ConnectSound ==
  ASSUME NEW u, NEW r, Sound(u, r), Up(r), ~r.revoked
  PROVE  LET x == Connect(r) IN Sound(u, x) /\ Up(x) /\ ~x.revoked
<1>1. Settled(u, r) /\ Shape(r) /\ IsRelay(r)
  BY DEF Sound, Settled, Told
<1>2. PICK e, b : e = Effect("connected", None) /\ b = [r EXCEPT !.connected = TRUE, !.effects = Append(r.effects, e)]
  OBVIOUS
<1>3. PICK told : told = IF r.ready /\ ~r.connected THEN b ELSE r
  OBVIOUS
<1>4. Keeps(u, r, b) /\ b.cache = r.cache
  <2>1. e.kind # "scale"
    BY <1>2 DEF Effect
  <2>2. IsRelay(b)
    BY <1>1, <1>2 DEF IsRelay, IsMap, Fields
  <2>3. /\ SameFlags(r, b) /\ b.ledger = r.ledger /\ b.effects = Append(r.effects, e)
        /\ \A k \in {"mappings", "cache", "claims", "updates"} : b[k] = r[k]
    BY <1>1, <1>2 DEF IsRelay, Fields, SameFlags
  <2>4. LedgerOk(b.ledger)
    BY <1>1, <2>3 DEF Shape
  <2> QED
    BY <1>1, <2>1, <2>2, <2>3, <2>4, EffectMoves
<1>5. Keeps(u, r, told) /\ told.cache = r.cache
  BY <1>1, <1>3, <1>4, KeepsSelf
<1>6. Sound(u, told) /\ SameFlags(r, told) /\ Up(told) /\ ~told.revoked /\ Settled(u, told) /\ IsRelay(told) /\ Shape(told)
  BY <1>5, KeepsSound DEF Keeps, Moves, SameFlags, Up, Sound, Settled, Told
<1>7. PICK a, q : a = [told EXCEPT !.admitting = TRUE] /\ q = SetToSeq(DOMAIN r.cache)
  OBVIOUS
<1>8. CASE r.ready /\ ~r.admitting /\ r.admission = "all"
  <2>1. PICK x : x = AdmitEach(a, q)
    OBVIOUS
  <2>2. Connect(r) = x
    BY <1>2, <1>3, <1>7, <1>8, <2>1 DEF Connect
  <2>3. IsRelay(a)
    BY <1>6, <1>7 DEF IsRelay, IsMap, Fields
  <2>4. /\ a.admitting = TRUE /\ a.ready = told.ready /\ a.admission = told.admission /\ a.failed = told.failed
        /\ a.revoked = told.revoked /\ a.mappings = told.mappings /\ a.cache = told.cache /\ a.claims = told.claims
        /\ a.updates = told.updates /\ a.effects = told.effects /\ a.ledger = told.ledger
    BY <1>6, <1>7 DEF IsRelay, Fields
  <2>5. Shape(a)
    BY <1>6, <2>3, <2>4 DEF Shape
  <2>6. Settled(u, a) /\ Up(a)
    BY <1>6, <2>4, <2>5 DEF Settled, Told, Up
  <2>7. IsSeq(q) /\ ToSet(q) = DOMAIN a.cache
    <3>1. IsFiniteSet(DOMAIN r.cache)
      BY <1>1, LinkAssumption, FS_Subset DEF Shape, CacheOk
    <3> QED
      BY <1>5, <1>7, <2>4, <3>1, Listed
  <2>8. PICK X : X = DOMAIN a.cache
    OBVIOUS
  <2>9. Moves(u, a, X, x, X \ ToSet(q))
    BY <2>1, <2>6, <2>7, AdmitEachMoves
  <2>10. FineBut(a, X) /\ X \ ToSet(q) = {}
    BY <2>7, <2>8 DEF FineBut
  <2>11. Settled(u, x) /\ SameFlags(a, x) /\ FineBut(x, {})
    BY <1>6, <1>8, <2>4, <2>9, <2>10 DEF Moves, SameFlags
  <2>12. IsRelay(x)
    BY <2>11 DEF Settled, Told, Shape
  <2>13. x.admission = "all" /\ x.ready /\ Up(x) /\ ~x.revoked
    BY <1>6, <1>8, <2>4, <2>6, <2>11 DEF SameFlags, Up
  <2>14. Sound(u, x)
    BY <2>11, <2>12, <2>13 DEF Sound
  <2> QED
    BY <2>2, <2>13, <2>14
<1>9. CASE ~(r.ready /\ ~r.admitting /\ r.admission = "all")
  <2>1. Connect(r) = told
    BY <1>2, <1>3, <1>9 DEF Connect
  <2> QED
    BY <1>6, <2>1
<1> QED
  BY <1>8, <1>9

LEMMA UnmapRelay ==
  ASSUME NEW r, IsRelay(r), NEW s
  PROVE  IsRelay(Unmap(r, s)) /\ SameFlags(r, Unmap(r, s))
<1>1. PICK v : v = [r EXCEPT !.reserved = Without(r.reserved, {s})]
  OBVIOUS
<1>2. IsRelay(v) /\ SameFlags(r, v)
  BY <1>1 DEF IsRelay, IsMap, Fields, SameFlags
<1>3. PICK q : q = <<s>> \o SetToSeq(Popups(r, s) \intersect DOMAIN r.mappings)
  OBVIOUS
<1>4. Unmap(r, s) \in {v, Withdrawn(v, q)}
  BY <1>1, <1>3 DEF Unmap
<1>5. PICK a : a = [v EXCEPT !.mappings = Without(@, ToSet(q))]
  OBVIOUS
<1>6. IsRelay(a) /\ SameFlags(v, a)
  BY <1>2, <1>5 DEF IsRelay, IsMap, Fields, SameFlags
<1>7. PICK b : b = ReleasePresentation(a, ToSet(q))
  OBVIOUS
<1>8. IsRelay(b) /\ SameFlags(a, b)
  BY <1>6, <1>7 DEF IsRelay, IsMap, Fields, SameFlags, ReleasePresentation
<1>9. PICK c : c = ForgetCursor(b, ToSet(q))
  OBVIOUS
<1>10. IsRelay(c) /\ SameFlags(b, c)
  <2>1. PICK w : c = [b EXCEPT !.cursors = w]
    BY <1>9 DEF ForgetCursor
  <2> QED
    BY <1>8, <2>1 DEF IsRelay, IsMap, Fields, SameFlags
<1>11. PICK x : x = Withdrawn(v, q)
  OBVIOUS
<1>12. IsRelay(x) /\ SameFlags(c, x)
  <2>1. PICK g1, g2, g3, g4, g5 :
          x = [c EXCEPT !.reserved = g1, !.cache = g2, !.ledger = g3, !.effects = g4, !.sent = g5]
    BY <1>5, <1>7, <1>9, <1>11 DEF Withdrawn
  <2> QED
    BY <1>10, <2>1 DEF IsRelay, IsMap, Fields, SameFlags
<1>13. SameFlags(r, x)
  BY <1>2, <1>6, <1>8, <1>10, <1>12 DEF SameFlags
<1> QED
  BY <1>2, <1>4, <1>11, <1>12, <1>13

LEMMA DrainedParts ==
  ASSUME NEW u, NEW r, NEW S, Told(u, r, S)
  PROVE  LET v == Drained(u, r) IN IsHost(v) /\ v.claims = r.claims /\ v.scaled \subseteq S /\ v.gone = u.gone
<1>1. IsHost(u) /\ IsSeq(r.effects) /\ IsSeq(r.updates)
  BY DEF Told, Shape
<1>2. PICK a, p : a = AfterEffects(u, r.effects) /\ p = r.updates
  OBVIOUS
<1>3. IsHost(a) /\ a.claims = u.claims /\ a.gone = u.gone /\ a.scaled \subseteq S
  BY <1>1, <1>2, EffectsHost DEF Told
<1>4. PICK v : v = AfterClaims(a, p)
  OBVIOUS
<1>5. IsHost(v) /\ v.scaled = a.scaled /\ v.gone = a.gone
  BY <1>1, <1>2, <1>3, <1>4, ClaimsHost
<1>6. v.claims = AfterClaims(u, p).claims
  BY <1>1, <1>2, <1>3, <1>4, ClaimsAlike
<1>7. Drained(u, r) = v
  BY <1>2, <1>4 DEF Drained
<1> QED
  BY <1>2, <1>3, <1>5, <1>6, <1>7 DEF Told

LEMMA DrainSound ==
  ASSUME NEW u, NEW r, Sound(u, r)
  PROVE  Sound(Drained(u, r), [r EXCEPT !.effects = <<>>, !.updates = <<>>])
<1>1. PICK x, v : x = [r EXCEPT !.effects = <<>>, !.updates = <<>>] /\ v = Drained(u, r)
  OBVIOUS
<1>2. IsRelay(x)
  BY <1>1 DEF Sound, IsRelay, IsMap, Fields
<1>3. /\ SameFlags(r, x) /\ x.mappings = r.mappings /\ x.cache = r.cache /\ x.claims = r.claims /\ x.ledger = r.ledger
      /\ x.effects = <<>> /\ x.updates = <<>>
  BY <1>1 DEF Sound, IsRelay, Fields, SameFlags
<1>4. ASSUME Settled(u, r) PROVE Settled(v, x)
  <2>1. PICK S : S = IF Up(r) THEN DOMAIN r.mappings ELSE {}
    OBVIOUS
  <2>2. Told(u, r, S)
    BY <1>4, <2>1 DEF Settled
  <2>3. IsHost(v) /\ v.claims = r.claims /\ v.scaled \subseteq S /\ v.gone = u.gone
    BY <1>1, <2>2, DrainedParts
  <2>4. AfterClaims(v, x.updates) = v /\ AfterEffects(v, x.effects) = v
    BY <1>3, ClaimsNothing, EffectsNothing
  <2>5. Shape(x)
    BY <1>2, <1>3, <2>2, NilFacts DEF Told, Shape
  <2>6. Told(v, x, S)
    BY <1>3, <2>2, <2>3, <2>4, <2>5 DEF Told, SameFlags, Up
  <2> QED
    BY <1>3, <2>1, <2>6 DEF Settled, SameFlags, Up
<1>5. FineBut(r, {}) => FineBut(x, {})
  BY <1>3 DEF FineBut, Fine
<1>6. Sound(v, x)
  BY <1>2, <1>3, <1>4, <1>5 DEF Sound, SameFlags, Up
<1> QED
  BY <1>1, <1>6

-----------------------------------------------------------------------------
(* The steps.                                                              *)

LEMMA InitSound == Init => RelayInv
<1> SUFFICES ASSUME Init PROVE Sound(upstream, src)
  BY DEF RelayInv
<1>1. PICK e \in Environments : SourceRelayInit(e.admission, e.ready, e.inventory)
  BY DEF Init
<1>2. e.inventory \subseteq Surfaces
  BY <1>1, LinkAssumption
<1>3. PICK g : g = [s \in e.inventory |-> [Known(s) EXCEPT !.commit = "mapped"]]
  OBVIOUS
<1>4. src = [admission |-> e.admission, failed |-> None, revoked |-> FALSE, ready |-> e.ready, connected |-> FALSE,
             admitting |-> FALSE, mappings |-> Empty, reserved |-> Empty, cache |-> g, claims |-> Empty, updates |-> <<>>,
             ledger |-> NoInput, effects |-> <<>>, inflight |-> Empty, nextCursor |-> 1, cursors |-> <<>>, nextSession |-> 1,
             sent |-> <<>>]
  BY <1>1, <1>3 DEF SourceRelayInit
<1>5. upstream = [seat |-> NoSeat, claims |-> Empty, scaled |-> {}, gone |-> {}]
  BY <1>1 DEF SourceRelayInit
<1>6. IsRelay(src)
  BY <1>4 DEF IsRelay, IsMap, Fields
<1>7. IsMap(Empty) /\ DOMAIN Empty = {}
  BY DEF IsMap, Empty
<1>8. IsHost(upstream) /\ upstream.claims = Empty /\ upstream.scaled = {} /\ upstream.gone = {}
  BY <1>5, <1>7 DEF IsHost
<1>9. CacheOk(g)
  <2>1. ASSUME NEW s \in e.inventory PROVE IsCached(g[s])
    BY <1>3, <2>1 DEF IsCached, Known, NoCache
  <2>2. IsMap(g) /\ DOMAIN g = e.inventory
    BY <1>3 DEF IsMap
  <2> QED
    BY <1>2, <2>1, <2>2 DEF CacheOk
<1>10. LedgerOk(NoInput)
  <2>1. IsFiniteSet(DOMAIN Empty) /\ IsFiniteSet({})
    BY <1>7, FS_EmptySet
  <2> QED
    BY <2>1, LedgerKind DEF NoInput
<1>11. /\ src.cache = g /\ src.ledger = NoInput /\ src.mappings = Empty /\ src.claims = Empty /\ src.effects = <<>>
       /\ src.updates = <<>> /\ src.admitting = FALSE /\ src.failed = None /\ src.revoked = FALSE
  BY <1>4
<1>12. Shape(src)
  BY <1>6, <1>7, <1>9, <1>10, <1>11, NilFacts DEF Shape
<1>13. AfterClaims(upstream, src.updates) = upstream /\ AfterEffects(upstream, src.effects) = upstream
  BY <1>11, ClaimsNothing, EffectsNothing
<1>14. Settled(upstream, src)
  BY <1>7, <1>8, <1>11, <1>12, <1>13 DEF Settled, Told, Up
<1> QED
  BY <1>6, <1>11, <1>14 DEF Sound

LEMMA BecomeSound ==
  ASSUME NEW v, NEW x, Sound(v, x), Become(x)
  PROVE  Sound(v, src')
<1>1. src' = [x EXCEPT !.sent = <<>>]
  BY DEF Become
<1>2. Alike(x, [x EXCEPT !.sent = <<>>])
  BY SentAlike DEF Sound
<1> QED
  BY <1>1, <1>2, AlikeSound

\* An event of a client that leaves the host alone
LEMMA EventSound ==
  ASSUME RelayInv, NEW x, LET c == CheckAccess(src) IN x = c \/ (Up(c) /\ Keeps(upstream, c, x)), Become(x), upstream' = upstream
  PROVE  RelayInv'
<1>1. Sound(upstream, CheckAccess(src))
  BY CheckSound DEF RelayInv
<1>2. Sound(upstream, x)
  BY <1>1, KeepsSound
<1>3. Sound(upstream, src')
  BY <1>2, BecomeSound
<1> QED
  BY <1>3 DEF RelayInv

LEMMA CheckedUp ==
  ASSUME RelayInv, Up(CheckAccess(src))
  PROVE  CheckAccess(src) = src /\ ~src.revoked /\ Settled(upstream, src) /\ Up(src)
BY CheckSound DEF RelayInv, Sound

LEMMA ClientSound ==
  ASSUME RelayInv, NEW s \in Surfaces, ClientRole(s) \/ ClientCommit(s) \/ ClientCursor(s)
  PROVE  RelayInv'
<1>1. PICK c : c = CheckAccess(src)
  OBVIOUS
<1>2. CASE ClientRole(s)
  <2>1. PICK role : /\ Become(IF Up(c) THEN ObserveRole(c, s, role) ELSE c)
                   /\ s \notin upstream.gone /\ upstream' = upstream
    BY <1>1, <1>2 DEF ClientRole, Client, Checked
  <2>2. PICK x : x = IF Up(c) THEN ObserveRole(c, s, role) ELSE c
    OBVIOUS
  <2>3. Become(x) /\ s \notin upstream.gone
    BY <2>1, <2>2
  <2>4. Up(c) => Keeps(upstream, c, ObserveRole(c, s, role))
    BY <1>1, <2>3, CheckedUp, RoleMoves
  <2> QED
    BY <1>1, <2>1, <2>2, <2>3, <2>4, EventSound
<1>3. CASE ClientCommit(s)
  <2>1. PICK commit : /\ Become(IF Up(c) THEN ObserveCommit(c, s, commit) ELSE c)
                   /\ s \notin upstream.gone /\ upstream' = upstream
    BY <1>1, <1>3 DEF ClientCommit, Client, Checked
  <2>2. PICK x : x = IF Up(c) THEN ObserveCommit(c, s, commit) ELSE c
    OBVIOUS
  <2>3. Become(x) /\ s \notin upstream.gone
    BY <2>1, <2>2
  <2>4. Up(c) => Keeps(upstream, c, ObserveCommit(c, s, commit))
    BY <1>1, <2>3, CheckedUp, CommitMoves
  <2> QED
    BY <1>1, <2>1, <2>2, <2>3, <2>4, EventSound
<1>4. CASE ClientCursor(s)
  <2>1. PICK cursor : /\ Become(IF Up(c) THEN ObserveCursor(c, s, cursor) ELSE c)
                   /\ s \notin upstream.gone /\ upstream' = upstream
    BY <1>1, <1>4 DEF ClientCursor, Client, Checked
  <2>2. PICK x : x = IF Up(c) THEN ObserveCursor(c, s, cursor) ELSE c
    OBVIOUS
  <2>3. Become(x) /\ s \notin upstream.gone
    BY <2>1, <2>2
  <2>4. Up(c) => Keeps(upstream, c, ObserveCursor(c, s, cursor))
    BY <1>1, <2>3, CheckedUp, CursorMoves
  <2> QED
    BY <1>1, <2>1, <2>2, <2>3, <2>4, EventSound
<1> QED
  BY <1>2, <1>3, <1>4

LEMMA DestroyedSound ==
  ASSUME RelayInv, NEW s \in Surfaces, ClientDestroyed(s)
  PROVE  RelayInv'
<1>1. PICK c : c = CheckAccess(src)
  OBVIOUS
<1>2. PICK x : x = IF Up(c) THEN ObserveDestroyed(c, s) ELSE c
  OBVIOUS
<1>3. Become(x) /\ upstream' = Forget(upstream, s)
  BY <1>1, <1>2 DEF ClientDestroyed, Client, Checked
<1>4. Sound(Forget(upstream, s), x)
  <2>1. CASE Up(c)
    <3>1. c = src /\ Settled(upstream, src) /\ Up(src) /\ ~src.revoked /\ x = ObserveDestroyed(src, s)
      BY <1>1, <1>2, <2>1, CheckedUp
    <3>2. Settled(Forget(upstream, s), x) /\ SameFlags(src, x) /\ (FineBut(src, {}) => FineBut(x, {}))
      BY <3>1, DestroyedMoves
    <3>3. IsRelay(x)
      BY <3>2 DEF Settled, Told, Shape
    <3> QED
      BY <3>1, <3>2, <3>3 DEF Sound, RelayInv, SameFlags, Up
  <2>2. CASE ~Up(c)
    <3>1. Sound(upstream, c)
      BY <1>1, CheckSound DEF RelayInv
    <3> QED
      BY <1>2, <2>2, <3>1, DownForgets
  <2> QED
    BY <2>1, <2>2
<1>5. Sound(Forget(upstream, s), src')
  BY <1>3, <1>4, BecomeSound
<1> QED
  BY <1>3, <1>5 DEF RelayInv

LEMMA CommandSound ==
  ASSUME RelayInv, NEW s \in Surfaces, CommandMap(s) \/ CommandUnmap(s)
  PROVE  RelayInv'
<1>1. CASE CommandMap(s)
  <2>1. PICK b : b = [src EXCEPT !.nextSession = @ + 1]
    OBVIOUS
  <2>2. Sound(upstream, b)
    BY <2>1, SentAlike, AlikeSound DEF RelayInv, Sound
  <2>3. PICK c : c = CheckAccess(b)
    OBVIOUS
  <2>4. Sound(upstream, c) /\ (Up(c) => c = b /\ ~b.revoked)
    BY <2>2, <2>3, CheckSound
  <2>5. PICK x : x = IF Up(c) THEN Map(c, src.nextSession, s) ELSE c
    OBVIOUS
  <2>6. Become(x) /\ upstream' = upstream
    BY <1>1, <2>1, <2>3, <2>5 DEF CommandMap, Checked
  <2>7. Sound(upstream, x)
    <3>1. CASE Up(c)
      <4>1. Settled(upstream, c)
        BY <2>2, <2>4, <3>1 DEF Sound
      <4>2. Moves(upstream, c, {}, Map(c, src.nextSession, s), {} \ {s})
        BY <3>1, <4>1, MapMoves
      <4>3. {} \ {s} = {}
        OBVIOUS
      <4>4. Keeps(upstream, c, x)
        BY <2>5, <3>1, <4>2, <4>3 DEF Keeps
      <4> QED
        BY <2>4, <4>4, KeepsSound
    <3>2. CASE ~Up(c)
      BY <2>4, <2>5, <3>2
    <3> QED
      BY <3>1, <3>2
  <2>8. Sound(upstream, src')
    BY <2>6, <2>7, BecomeSound
  <2> QED
    BY <2>6, <2>8 DEF RelayInv
<1>2. CASE CommandUnmap(s)
  <2>1. Become(Unmap(src, s)) /\ upstream' = upstream /\ src.admission = "manual"
    BY <1>2 DEF CommandUnmap
  <2>2. PICK x : x = Unmap(src, s)
    OBVIOUS
  <2>3. IsRelay(x) /\ SameFlags(src, x)
    BY <2>2, UnmapRelay DEF RelayInv, Sound
  <2>4. ~src.revoked => Settled(upstream, x)
    BY <2>2, UnmapSettles DEF RelayInv, Sound
  <2>5. ~x.admitting
    BY <2>1, <2>3 DEF RelayInv, Sound, SameFlags
  <2>6. Sound(upstream, x)
    BY <2>3, <2>4, <2>5 DEF Sound, SameFlags
  <2>7. Sound(upstream, src')
    BY <2>1, <2>2, <2>6, BecomeSound
  <2> QED
    BY <2>1, <2>7 DEF RelayInv
<1> QED
  BY <1>1, <1>2

LEMMA PollSound ==
  ASSUME RelayInv, SourcePoll
  PROVE  RelayInv'
<1>1. PICK c : c = CheckAccess(src)
  OBVIOUS
<1>2. PICK d : d = Connect(c)
  OBVIOUS
<1>3. PICK x : x = IF Up(c) THEN IF up = <<>> THEN d ELSE Accept(d, Head(up)) ELSE c
  OBVIOUS
<1>4. Become(x) /\ upstream' = upstream
  BY <1>1, <1>2, <1>3 DEF SourcePoll, Checked
<1>5. Sound(upstream, c)
  BY <1>1, CheckSound DEF RelayInv
<1>6. CASE Up(c)
  <2>1. Sound(upstream, d) /\ Up(d) /\ ~d.revoked
    BY <1>1, <1>2, <1>5, <1>6, CheckedUp, ConnectSound
  <2>2. Or(upstream, d, Accept(d, Head(up)))
    BY <2>1, AcceptMoves DEF Sound
  <2>3. Sound(upstream, Accept(d, Head(up)))
    BY <2>1, <2>2, KeepsSound, FailSound DEF Or
  <2> QED
    BY <1>3, <1>4, <1>6, <2>1, <2>3, BecomeSound DEF RelayInv
<1>7. CASE ~Up(c)
  BY <1>3, <1>4, <1>5, <1>7, BecomeSound DEF RelayInv
<1> QED
  BY <1>6, <1>7

LEMMA FlagsSound ==
  ASSUME RelayInv, Authorize \/ Revoke \/ SourceClosed \/ Drain
  PROVE  RelayInv'
<1>1. CASE Authorize
  <2>1. src' = [src EXCEPT !.ready = TRUE] /\ upstream' = upstream /\ IsRelay(src)
    BY <1>1 DEF Authorize, RelayInv, Sound
  <2>2. IsRelay(src')
    BY <2>1 DEF IsRelay, IsMap, Fields
  <2>3. /\ src'.ready = TRUE /\ src'.admission = src.admission /\ src'.failed = src.failed /\ src'.revoked = src.revoked
        /\ src'.admitting = src.admitting /\ src'.mappings = src.mappings /\ src'.cache = src.cache
        /\ src'.claims = src.claims /\ src'.updates = src.updates /\ src'.effects = src.effects /\ src'.ledger = src.ledger
    BY <2>1 DEF IsRelay, Fields
  <2>4. Settled(upstream, src) => Settled(upstream, src')
    <3>1. Shape(src) => Shape(src')
      BY <2>2, <2>3 DEF Shape
    <3> QED
      BY <2>3, <3>1 DEF Settled, Told, Up
  <2>5. FineBut(src, {}) => FineBut(src', {})
    BY <2>3 DEF FineBut, Fine
  <2>6. Sound(upstream, src')
    BY <2>2, <2>3, <2>4, <2>5 DEF RelayInv, Sound, Up
  <2> QED
    BY <2>1, <2>6 DEF RelayInv
<1>2. CASE Revoke
  <2>1. src' = [src EXCEPT !.revoked = TRUE] /\ upstream' = upstream /\ IsRelay(src)
    BY <1>2 DEF Revoke, RelayInv, Sound
  <2>2. IsRelay(src')
    BY <2>1 DEF IsRelay, IsMap, Fields
  <2>3. /\ src'.revoked = TRUE /\ src'.ready = src.ready /\ src'.admission = src.admission /\ src'.failed = src.failed
        /\ src'.admitting = src.admitting /\ src'.mappings = src.mappings /\ src'.cache = src.cache
    BY <2>1 DEF IsRelay, Fields
  <2>4. FineBut(src, {}) => FineBut(src', {})
    BY <2>3 DEF FineBut, Fine
  <2>5. Sound(upstream, src')
    BY <2>2, <2>3, <2>4 DEF RelayInv, Sound, Up
  <2> QED
    BY <2>1, <2>5 DEF RelayInv
<1>3. CASE SourceClosed
  <2>1. Become(Fail(src, "closed")) /\ upstream' = upstream /\ "closed" # None
    BY <1>3 DEF SourceClosed, None
  <2>2. Sound(upstream, Fail(src, "closed"))
    BY <2>1, FailSound DEF RelayInv
  <2>3. Sound(upstream, src')
    BY <2>1, <2>2, BecomeSound
  <2> QED
    BY <2>1, <2>3 DEF RelayInv
<1>4. CASE Drain
  <2>1. PICK r : r = CheckAccess(src)
    OBVIOUS
  <2>2. src' = [r EXCEPT !.effects = <<>>, !.updates = <<>>] /\ upstream' = Drained(upstream, r)
    BY <1>4, <2>1 DEF Drain
  <2>3. Sound(upstream, r)
    BY <2>1, CheckSound DEF RelayInv
  <2>4. Sound(Drained(upstream, r), [r EXCEPT !.effects = <<>>, !.updates = <<>>])
    BY <2>3, DrainSound
  <2> QED
    BY <2>2, <2>4 DEF RelayInv
<1> QED
  BY <1>1, <1>2, <1>3, <1>4

\* The viewer's side, and the records under way, are not the source's.
LEMMA ElsewhereSound ==
  ASSUME RelayInv, UNCHANGED <<src, upstream>>
  PROVE  RelayInv'
BY DEF RelayInv

LEMMA NextSound == RelayInv /\ [Next]_vars => RelayInv'
<1> SUFFICES ASSUME RelayInv, [Next]_vars PROVE RelayInv'
  OBVIOUS
<1>1. CASE Authorize \/ Revoke \/ SourceClosed \/ Drain
  BY <1>1, FlagsSound
<1>2. CASE SourcePoll
  BY <1>2, PollSound
<1>3. ASSUME NEW s \in Surfaces, CommandMap(s) \/ CommandUnmap(s)
      PROVE  RelayInv'
  BY <1>3, CommandSound
<1>4. ASSUME NEW s \in Surfaces, ClientRole(s) \/ ClientCommit(s) \/ ClientCursor(s)
      PROVE  RelayInv'
  BY <1>4, ClientSound
<1>5. ASSUME NEW s \in Surfaces, ClientDestroyed(s)
      PROVE  RelayInv'
  BY <1>5, DestroyedSound
<1>6. ASSUME NEW s \in Surfaces, PortSends(s)
      PROVE  RelayInv'
  BY <1>6, ElsewhereSound DEF PortSends, relays
<1>7. CASE DestinationNext
  <2>1. DestinationNext => UNCHANGED <<src, upstream>>
    BY DEF DestinationNext, DestinationPoll, DestinationClosed, UserUnfocus, UserFocusLost, UserInput, UserFocus,
           UserPresents, User
  <2> QED
    BY <1>7, <2>1, ElsewhereSound
<1>8. CASE UNCHANGED vars
  BY <1>8, ElsewhereSound DEF vars, relays
<1> QED
  BY <1>1, <1>2, <1>3, <1>4, <1>5, <1>6, <1>7, <1>8 DEF Next, SourceNext

-----------------------------------------------------------------------------
\* The claims of the frame callbacks that the local host knows are those of the
\* relay, one for each mapped surface, and only mapped surfaces keep the viewer's
\* scale, whatever the order of events, messages, drains, withdrawals and failures.
THEOREM ClaimsAlwaysSettled == Spec => []ClaimsSettled
<1>1. RelayInv => ClaimsSettled
  <2> SUFFICES ASSUME RelayInv, ~src.revoked
               PROVE  LET u == Drained(upstream, src)
                      IN /\ u.claims = src.claims
                         /\ DOMAIN src.claims = IF Up(src) THEN DOMAIN src.mappings ELSE {}
                         /\ u.scaled \subseteq DOMAIN src.claims
    BY DEF ClaimsSettled
  <2>1. PICK S : S = IF Up(src) THEN DOMAIN src.mappings ELSE {}
    OBVIOUS
  <2>2. Told(upstream, src, S) /\ DOMAIN src.claims = S
    BY <2>1 DEF RelayInv, Sound, Settled, Told
  <2>3. Drained(upstream, src).claims = src.claims /\ Drained(upstream, src).scaled \subseteq S
    BY <2>2, DrainedParts
  <2> QED
    BY <2>1, <2>2, <2>3
<1> QED
  BY <1>1, InitSound, NextSound, PTL DEF Spec

\* With AllToplevels every window with content is mapped, and every popup with
\* content whose root is mapped, whatever the order of roles, commits and
\* authorization.
THEOREM WindowsAlwaysAdmitted == Spec => []EveryWindowAdmitted
<1>1. RelayInv => EveryWindowAdmitted
  BY DEF RelayInv, Sound, FineBut, Fine, EveryWindowAdmitted, Mapped
<1> QED
  BY <1>1, InitSound, NextSound, PTL DEF Spec

-----------------------------------------------------------------------------
(* What the records say of the sessions, one after the other.              *)

\* The record m is right for a destination that knows the sessions a, and
\* leaves it with the sessions b.
Legal(a, m, b) ==
  /\ m.kind \in {"mapped", "withdraw", "destroyed", "role", "commit", "cursor"}
  /\ m.kind = "mapped" => m.surface \notin DOMAIN a /\ b = Put(a, m.surface, m.session)
  /\ m.kind \in {"destroyed", "role", "commit", "cursor"} => m.surface \in DOMAIN a /\ a[m.surface] = m.session
  /\ m.kind \in {"withdraw", "destroyed"} => b = Without(a, {m.surface})
  /\ m.kind \in {"role", "commit", "cursor"} => b = a
  /\ m.kind = "role" => m.value # "layer"

PathBy(f, a, q, b) == f[0] = a /\ f[Len(q)] = b /\ \A n \in 1 .. Len(q) : Legal(f[n - 1], q[n], f[n])
Path(a, q, b) == \E f : PathBy(f, a, q, b)

LEMMA NoPath ==
  ASSUME NEW a
  PROVE  Path(a, <<>>, a)
<1>1. PathBy([n \in {0} |-> a], a, <<>>, a)
  BY DEF PathBy
<1> QED
  BY <1>1 DEF Path

LEMMA OneFacts ==
  ASSUME NEW m
  PROVE  IsSeq(<<m>>) /\ Len(<<m>>) = 1 /\ <<m>>[1] = m
<1>1. <<m>> \in Seq({m})
  OBVIOUS
<1> QED
  BY <1>1 DEF IsSeq

LEMMA PathOne ==
  ASSUME NEW a, NEW m, NEW b, Legal(a, m, b)
  PROVE  Path(a, <<m>>, b)
<1> DEFINE f == [n \in 0 .. 1 |-> IF n = 0 THEN a ELSE b]
<1>1. f[0] = a /\ f[1] = b
  OBVIOUS
<1> HIDE DEF f
<1>2. PathBy(f, a, <<m>>, b)
  BY <1>1, OneFacts DEF PathBy
<1> QED
  BY <1>2 DEF Path

LEMMA PathJoin ==
  ASSUME NEW a, NEW p, NEW b, NEW q, NEW c, IsSeq(p), IsSeq(q), Path(a, p, b), Path(b, q, c)
  PROVE  Path(a, p \o q, c)
<1>1. PICK f : PathBy(f, a, p, b)
  BY DEF Path
<1>2. PICK g : PathBy(g, b, q, c)
  BY DEF Path
<1>3. Len(p) \in Nat /\ Len(q) \in Nat
  BY SeqFacts
<1>4. Joined(p \o q, p, q)
  BY ConcatJoined
<1> DEFINE h == [n \in 0 .. Len(p) + Len(q) |-> IF n <= Len(p) THEN f[n] ELSE g[n - Len(p)]]
<1>5. ASSUME NEW n \in 0 .. Len(p) PROVE h[n] = f[n]
  BY <1>3
<1>6. ASSUME NEW n \in 0 .. Len(q) PROVE h[Len(p) + n] = g[n]
  <2>1. CASE n = 0
    BY <1>1, <1>2, <1>3, <2>1 DEF PathBy
  <2>2. CASE n # 0
    BY <1>3, <2>2
  <2> QED
    BY <2>1, <2>2
<1> HIDE DEF h
<1>7. PICK w : w = p \o q
  OBVIOUS
<1>8. Len(w) = Len(p) + Len(q) /\ (\A i \in 1 .. Len(p) : w[i] = p[i]) /\ (\A i \in 1 .. Len(q) : w[Len(p) + i] = q[i])
  BY <1>4, <1>7 DEF Joined
<1>9. ASSUME NEW n \in 1 .. Len(w) PROVE Legal(h[n - 1], w[n], h[n])
  <2>1. CASE n <= Len(p)
    <3>1. n \in 1 .. Len(p) /\ n - 1 \in 0 .. Len(p) /\ n \in 0 .. Len(p)
      BY <1>3, <1>8, <2>1
    <3>2. h[n - 1] = f[n - 1] /\ h[n] = f[n] /\ w[n] = p[n]
      BY <1>5, <1>8, <3>1
    <3> QED
      BY <1>1, <3>1, <3>2 DEF PathBy
  <2>2. CASE ~(n <= Len(p))
    <3>1. PICK k \in 1 .. Len(q) : n = Len(p) + k
      <4>1. n - Len(p) \in 1 .. Len(q)
        BY <1>3, <1>8, <2>2
      <4> QED
        BY <1>3, <4>1
    <3>2. k - 1 \in 0 .. Len(q) /\ k \in 0 .. Len(q) /\ n - 1 = Len(p) + (k - 1)
      BY <1>3, <3>1
    <3>3. h[n - 1] = g[k - 1] /\ h[n] = g[k] /\ w[n] = q[k]
      BY <1>6, <1>8, <3>1, <3>2
    <3> QED
      BY <1>2, <3>1, <3>3 DEF PathBy
  <2> QED
    BY <2>1, <2>2
<1>10. h[0] = a /\ h[Len(w)] = c
  <2>1. h[0] = f[0]
    BY <1>3, <1>5
  <2>2. h[Len(p) + Len(q)] = g[Len(q)]
    BY <1>3, <1>6
  <2> QED
    BY <1>1, <1>2, <1>8, <2>1, <2>2 DEF PathBy
<1>11. PathBy(h, a, w, c)
  BY <1>9, <1>10 DEF PathBy
<1> QED
  BY <1>7, <1>11 DEF Path

LEMMA AppendFacts ==
  ASSUME NEW q, IsSeq(q), NEW m
  PROVE  /\ IsSeq(Append(q, m)) /\ Append(q, m) = q \o <<m>> /\ Len(Append(q, m)) = Len(q) + 1
         /\ Append(q, m)[Len(q) + 1] = m /\ \A i \in 1 .. Len(q) : Append(q, m)[i] = q[i]
<1>1. PICK E : q \in Seq(E)
  BY DEF IsSeq
<1>2. q \in Seq(E \union {m})
  BY <1>1
<1>3. Append(q, m) \in Seq(E \union {m}) /\ Append(q, m) = q \o <<m>> /\ Len(Append(q, m)) = Len(q) + 1
  BY <1>2
<1>4. Append(q, m)[Len(q) + 1] = m /\ \A i \in 1 .. Len(q) : Append(q, m)[i] = q[i]
  BY <1>2
<1> QED
  BY <1>3, <1>4 DEF IsSeq

LEMMA PathAppend ==
  ASSUME NEW a, NEW q, NEW b, NEW m, NEW c, IsSeq(q), Path(a, q, b), Legal(b, m, c)
  PROVE  Path(a, Append(q, m), c)
<1>1. Path(b, <<m>>, c) /\ IsSeq(<<m>>)
  BY PathOne, OneFacts
<1>2. Path(a, q \o <<m>>, c)
  BY <1>1, PathJoin
<1>3. Append(q, m) = q \o <<m>>
  BY AppendFacts
<1> QED
  BY <1>2, <1>3

LEMMA PartFacts ==
  ASSUME NEW q, IsSeq(q), NEW n \in 0 .. Len(q)
  PROVE  LET p == SubSeq(q, 1, n) w == SubSeq(q, n + 1, Len(q))
         IN /\ IsSeq(p) /\ Len(p) = n /\ \A i \in 1 .. n : p[i] = q[i]
            /\ IsSeq(w) /\ Len(w) = Len(q) - n /\ \A i \in 1 .. Len(q) - n : w[i] = q[n + i]
<1>1. PICK E : q \in Seq(E)
  BY DEF IsSeq
<1>2. Len(q) \in Nat
  BY <1>1
<1>3. PICK p : p = SubSeq(q, 1, n)
  OBVIOUS
<1>4. p \in Seq(E) /\ Len(p) = n /\ \A i \in 1 .. n : p[i] = q[i]
  BY <1>1, <1>2, <1>3
<1>5. PICK w : w = SubSeq(q, n + 1, Len(q))
  OBVIOUS
<1>6. w \in Seq(E) /\ Len(w) = Len(q) - n /\ \A i \in 1 .. Len(q) - n : w[i] = q[n + i]
  BY <1>1, <1>2, <1>5
<1> QED
  BY <1>3, <1>4, <1>5, <1>6 DEF IsSeq

LEMMA PathRest ==
  ASSUME NEW f, NEW a, NEW q, NEW b, IsSeq(q), PathBy(f, a, q, b), NEW n \in 0 .. Len(q)
  PROVE  Path(f[n], SubSeq(q, n + 1, Len(q)), b)
<1>1. PICK w : w = SubSeq(q, n + 1, Len(q))
  OBVIOUS
<1>2. Len(q) \in Nat /\ Len(w) = Len(q) - n /\ \A i \in 1 .. Len(q) - n : w[i] = q[n + i]
  BY <1>1, PartFacts, SeqFacts
<1> DEFINE g == [i \in 0 .. Len(q) - n |-> f[n + i]]
<1>3. ASSUME NEW i \in 0 .. Len(q) - n PROVE g[i] = f[n + i]
  OBVIOUS
<1> HIDE DEF g
<1>4. g[0] = f[n] /\ g[Len(w)] = b
  <2>1. g[0] = f[n + 0] /\ g[Len(q) - n] = f[n + (Len(q) - n)]
    BY <1>2, <1>3
  <2>2. n + 0 = n /\ n + (Len(q) - n) = Len(q)
    BY <1>2
  <2> QED
    BY <1>2, <2>1, <2>2 DEF PathBy
<1>5. ASSUME NEW i \in 1 .. Len(w) PROVE Legal(g[i - 1], w[i], g[i])
  <2>1. i \in 0 .. Len(q) - n /\ i - 1 \in 0 .. Len(q) - n /\ n + i \in 1 .. Len(q) /\ n + (i - 1) = (n + i) - 1
    BY <1>2
  <2>2. g[i - 1] = f[n + (i - 1)] /\ g[i] = f[n + i] /\ w[i] = q[n + i]
    BY <1>2, <1>3, <2>1
  <2>3. g[i - 1] = f[(n + i) - 1]
    BY <2>1, <2>2
  <2>4. Legal(f[(n + i) - 1], q[n + i], f[n + i])
    BY <2>1 DEF PathBy
  <2> QED
    BY <2>2, <2>3, <2>4
<1>6. PathBy(g, f[n], w, b)
  BY <1>4, <1>5 DEF PathBy
<1> QED
  BY <1>1, <1>6 DEF Path

-----------------------------------------------------------------------------
(* What an operation of the source says.                                   *)

\* A relay where the surfaces G are gone.
Cur(G, r) ==
  /\ IsRelay(r) /\ IsMap(r.mappings) /\ DOMAIN r.mappings \subseteq Surfaces /\ DOMAIN r.cache \subseteq Surfaces \ G
  /\ IsSeq(r.sent) /\ IsSeq(r.cursors) /\ r.nextCursor \in Nat
  /\ \/ DOMAIN r.inflight = {}
     \/ /\ r.inflight = [session |-> r.inflight.session, surface |-> r.inflight.surface, seq |-> r.inflight.seq]
        /\ r.inflight.seq \in Nat /\ r.inflight.seq + 1 = r.nextCursor

\* The cursor number q of a session is an old one, or the one in flight.
Fresh(r, n, s, q) ==
  /\ q \in Nat /\ q < r.nextCursor
  /\ DOMAIN r.inflight # {} => q < r.inflight.seq \/ [session |-> n, surface |-> s, seq |-> q] = r.inflight

\* The message m, where the surfaces G are gone.
Fair(G, x, m) ==
  /\ m.surface \in Surfaces
  /\ m.kind = "mapped" => m.surface \notin G
  /\ m.kind = "destroyed" => m.surface \in G
  /\ m.kind = "cursor" => Fresh(x, m.session, m.surface, m.value.seq)

FreshAfter(r, x) == \A n, s, q : Fresh(r, n, s, q) => Fresh(x, n, s, q)

\* The message m carries the cursor g, which is in flight.
Carries(g, m) == m.kind = "cursor" /\ g = [session |-> m.session, surface |-> m.surface, seq |-> m.value.seq]
CarriedIn(g, q) == \E i \in 1 .. Len(q) : Carries(g, q[i])

\* The message m acknowledges it.
Answers(g, m) == m.kind = "ack" /\ g = [session |-> m.session, surface |-> m.surface, seq |-> m.value]
AnsweredIn(g, q) == \E i \in 1 .. Len(q) : Answers(g, q[i])

\* The messages p of the step from r to x announce what it does to the mappings
\* and carry the cursor that it puts in flight.
Speech(G, r, x, p) ==
  /\ IsSeq(p) /\ x.sent = r.sent \o p /\ Path(r.mappings, p, x.mappings)
  /\ \A i \in 1 .. Len(p) : Fair(G, x, p[i])
  /\ x.inflight \in {r.inflight, Empty} \/ CarriedIn(x.inflight, p)

Tells(G, r, x) == FreshAfter(r, x) /\ \E p : Speech(G, r, x, p)
Says(G, r, x) == Cur(G, x) /\ Tells(G, r, x)

LEMMA FairAfter ==
  ASSUME NEW G, NEW r, NEW x, FreshAfter(r, x), NEW m, Fair(G, r, m)
  PROVE  Fair(G, x, m)
BY DEF Fair, FreshAfter

LEMMA CarriedJoined ==
  ASSUME NEW p, IsSeq(p), NEW q, IsSeq(q), NEW w, Joined(w, p, q), NEW g, CarriedIn(g, p) \/ CarriedIn(g, q)
  PROVE  CarriedIn(g, w)
<1>1. Len(p) \in Nat /\ Len(q) \in Nat /\ Len(w) = Len(p) + Len(q)
  BY SeqFacts DEF Joined
<1>2. CASE CarriedIn(g, p)
  <2>1. PICK i \in 1 .. Len(p) : Carries(g, p[i])
    BY <1>2 DEF CarriedIn
  <2>2. i \in 1 .. Len(w) /\ w[i] = p[i]
    BY <1>1 DEF Joined
  <2> QED
    BY <2>1, <2>2 DEF CarriedIn
<1>3. CASE CarriedIn(g, q)
  <2>1. PICK i \in 1 .. Len(q) : Carries(g, q[i])
    BY <1>3 DEF CarriedIn
  <2>2. Len(p) + i \in 1 .. Len(w) /\ w[Len(p) + i] = q[i]
    BY <1>1 DEF Joined
  <2> QED
    BY <2>1, <2>2 DEF CarriedIn
<1> QED
  BY <1>2, <1>3

LEMMA CarriedAppend ==
  ASSUME NEW q, IsSeq(q), NEW m, NEW g, CarriedIn(g, q) \/ Carries(g, m)
  PROVE  CarriedIn(g, Append(q, m))
<1>1. PICK k : k = Append(q, m)
  OBVIOUS
<1>2. Len(q) \in Nat /\ Len(k) = Len(q) + 1 /\ k[Len(q) + 1] = m /\ \A i \in 1 .. Len(q) : k[i] = q[i]
  BY <1>1, SeqFacts, AppendFacts
<1>3. CASE CarriedIn(g, q)
  <2>1. PICK i \in 1 .. Len(q) : Carries(g, q[i])
    BY <1>3 DEF CarriedIn
  <2>2. i \in 1 .. Len(k) /\ k[i] = q[i]
    BY <1>2
  <2> QED
    BY <1>1, <2>1, <2>2 DEF CarriedIn
<1>4. CASE Carries(g, m)
  <2>1. Len(q) + 1 \in 1 .. Len(k)
    BY <1>2
  <2> QED
    BY <1>1, <1>2, <1>4, <2>1 DEF CarriedIn
<1> QED
  BY <1>3, <1>4

LEMMA AnsweredAppend ==
  ASSUME NEW q, IsSeq(q), NEW m, NEW g, AnsweredIn(g, q) \/ Answers(g, m)
  PROVE  AnsweredIn(g, Append(q, m))
<1>1. PICK k : k = Append(q, m)
  OBVIOUS
<1>2. Len(q) \in Nat /\ Len(k) = Len(q) + 1 /\ k[Len(q) + 1] = m /\ \A i \in 1 .. Len(q) : k[i] = q[i]
  BY <1>1, SeqFacts, AppendFacts
<1>3. CASE AnsweredIn(g, q)
  <2>1. PICK i \in 1 .. Len(q) : Answers(g, q[i])
    BY <1>3 DEF AnsweredIn
  <2>2. i \in 1 .. Len(k) /\ k[i] = q[i]
    BY <1>2
  <2> QED
    BY <1>1, <2>1, <2>2 DEF AnsweredIn
<1>4. CASE Answers(g, m)
  <2>1. Len(q) + 1 \in 1 .. Len(k)
    BY <1>2
  <2> QED
    BY <1>1, <1>2, <1>4, <2>1 DEF AnsweredIn
<1> QED
  BY <1>3, <1>4

LEMMA AnsweredConcat ==
  ASSUME NEW p, IsSeq(p), NEW q, IsSeq(q), NEW g, AnsweredIn(g, p) \/ AnsweredIn(g, q)
  PROVE  AnsweredIn(g, p \o q)
<1>1. PICK w : w = p \o q
  OBVIOUS
<1>2. Joined(w, p, q) /\ Len(p) \in Nat /\ Len(q) \in Nat
  BY <1>1, SeqFacts, ConcatJoined
<1>3. CASE AnsweredIn(g, p)
  <2>1. PICK i \in 1 .. Len(p) : Answers(g, p[i])
    BY <1>3 DEF AnsweredIn
  <2>2. i \in 1 .. Len(w) /\ w[i] = p[i]
    BY <1>2 DEF Joined
  <2> QED
    BY <1>1, <2>1, <2>2 DEF AnsweredIn
<1>4. CASE AnsweredIn(g, q)
  <2>1. PICK i \in 1 .. Len(q) : Answers(g, q[i])
    BY <1>4 DEF AnsweredIn
  <2>2. Len(p) + i \in 1 .. Len(w) /\ w[Len(p) + i] = q[i]
    BY <1>2 DEF Joined
  <2> QED
    BY <1>1, <2>1, <2>2 DEF AnsweredIn
<1> QED
  BY <1>3, <1>4

LEMMA TellsTrans ==
  ASSUME NEW G, NEW r, NEW x, NEW y, IsSeq(r.sent), Tells(G, r, x), Tells(G, x, y)
  PROVE  Tells(G, r, y)
<1>1. PICK p : Speech(G, r, x, p)
  BY DEF Tells
<1>2. PICK q : Speech(G, x, y, q)
  BY DEF Tells
<1>3. IsSeq(p) /\ IsSeq(q) /\ IsSeq(r.sent)
  BY <1>1, <1>2 DEF Speech
<1>4. y.sent = r.sent \o (p \o q)
  <2>1. PICK v : v = r.sent
    OBVIOUS
  <2>2. IsSeq(v)
    BY <1>3, <2>1
  <2>3. (v \o p) \o q = v \o (p \o q)
    BY <1>3, <2>2, Associates
  <2> QED
    BY <1>1, <1>2, <2>1, <2>3 DEF Speech
<1>5. Path(r.mappings, p \o q, y.mappings)
  BY <1>1, <1>2, <1>3, PathJoin DEF Speech
<1>6. FreshAfter(r, y) /\ FreshAfter(x, y)
  BY DEF Tells, FreshAfter
<1>7. PICK w : w = p \o q
  OBVIOUS
<1>8. Joined(w, p, q)
  BY <1>3, <1>7, ConcatJoined
<1>9. Len(p) \in Nat /\ Len(q) \in Nat
  BY <1>3, SeqFacts
<1>10. ASSUME NEW i \in 1 .. Len(w) PROVE Fair(G, y, w[i])
  <2>1. CASE i <= Len(p)
    <3>1. i \in 1 .. Len(p) /\ w[i] = p[i]
      BY <1>8, <1>9, <2>1 DEF Joined
    <3>2. Fair(G, x, p[i])
      BY <1>1, <3>1 DEF Speech
    <3> QED
      BY <1>6, <3>1, <3>2, FairAfter
  <2>2. CASE ~(i <= Len(p))
    <3>1. i - Len(p) \in 1 .. Len(q) /\ Len(p) + (i - Len(p)) = i
      BY <1>8, <1>9, <2>2 DEF Joined
    <3>2. w[i] = q[i - Len(p)]
      BY <1>8, <3>1 DEF Joined
    <3> QED
      BY <1>2, <3>1, <3>2 DEF Speech
  <2> QED
    BY <2>1, <2>2
<1>12. y.inflight \in {r.inflight, Empty} \/ CarriedIn(y.inflight, w)
  <2>1. x.inflight \in {r.inflight, Empty} \/ CarriedIn(x.inflight, p)
    BY <1>1 DEF Speech
  <2>2. y.inflight \in {x.inflight, Empty} \/ CarriedIn(y.inflight, q)
    BY <1>2 DEF Speech
  <2>3. ASSUME NEW g, CarriedIn(g, p) \/ CarriedIn(g, q) PROVE CarriedIn(g, w)
    BY <1>3, <1>8, <2>3, CarriedJoined
  <2> QED
    BY <2>1, <2>2, <2>3
<1>11. Speech(G, r, y, w)
  BY <1>4, <1>5, <1>7, <1>8, <1>10, <1>12 DEF Speech, Joined
<1> QED
  BY <1>6, <1>11 DEF Tells

LEMMA SaysTrans ==
  ASSUME NEW G, NEW r, NEW x, NEW y, Cur(G, r), Says(G, r, x), Says(G, x, y)
  PROVE  Says(G, r, y)
BY TellsTrans DEF Says, Cur

\* A cursor that a step puts in flight is among what it has sent.
LEMMA SaidCarried ==
  ASSUME NEW G, NEW r, IsSeq(r.sent), NEW x, Says(G, r, x)
  PROVE  x.inflight \in {r.inflight, Empty} \/ CarriedIn(x.inflight, x.sent)
<1>1. PICK p : Speech(G, r, x, p)
  BY DEF Says, Tells
<1>2. PICK v, w : v = r.sent /\ w = x.sent
  OBVIOUS
<1>3. IsSeq(p) /\ IsSeq(v) /\ w = v \o p
  BY <1>1, <1>2 DEF Speech
<1>4. Joined(w, v, p)
  BY <1>3, ConcatJoined
<1>5. CASE CarriedIn(x.inflight, p)
  <2>1. CarriedIn(x.inflight, w)
    BY <1>3, <1>4, <1>5, CarriedJoined
  <2> QED
    BY <1>2, <2>1
<1> QED
  BY <1>1, <1>5 DEF Speech

\* Nothing of this changes, but the cursors that wait.
Silent(G, r, x) ==
  /\ IsRelay(x) /\ DOMAIN x.cache \subseteq Surfaces \ G /\ IsSeq(x.cursors) /\ x.sent = r.sent /\ x.mappings = r.mappings
  /\ x.nextCursor = r.nextCursor /\ x.inflight = r.inflight

LEMMA SilentSays ==
  ASSUME NEW G, NEW r, Cur(G, r), NEW x, Silent(G, r, x)
  PROVE  Says(G, r, x)
<1>1. Cur(G, x) /\ FreshAfter(r, x)
  BY DEF Cur, Silent, FreshAfter, Fresh
<1>2. Path(r.mappings, <<>>, x.mappings)
  BY NoPath DEF Silent
<1>3. x.sent = r.sent \o <<>> /\ IsSeq(<<>>) /\ Len(<<>>) = 0
  BY NilFacts DEF Silent, Cur
<1>4. Speech(G, r, x, <<>>)
  BY <1>2, <1>3 DEF Speech, Silent
<1> QED
  BY <1>1, <1>4 DEF Says, Tells

LEMMA OneTells ==
  ASSUME NEW G, NEW r, IsSeq(r.sent), NEW x, FreshAfter(r, x), NEW m,
         x.sent = Append(r.sent, m), Legal(r.mappings, m, x.mappings), Fair(G, x, m),
         x.inflight \in {r.inflight, Empty} \/ Carries(x.inflight, m)
  PROVE  Tells(G, r, x)
<1>1. x.sent = r.sent \o <<m>> /\ IsSeq(<<m>>) /\ Len(<<m>>) = 1 /\ <<m>>[1] = m
  BY AppendFacts, OneFacts
<1>2. Path(r.mappings, <<m>>, x.mappings)
  BY PathOne
<1>4. Carries(x.inflight, m) => CarriedIn(x.inflight, <<m>>)
  BY <1>1 DEF CarriedIn
<1>3. Speech(G, r, x, <<m>>)
  BY <1>1, <1>2, <1>4 DEF Speech
<1> QED
  BY <1>3 DEF Tells

LEMMA OneSays ==
  ASSUME NEW G, NEW r, Cur(G, r), NEW x, Cur(G, x), FreshAfter(r, x), NEW m,
         x.sent = Append(r.sent, m), Legal(r.mappings, m, x.mappings), Fair(G, x, m),
         x.inflight \in {r.inflight, Empty} \/ Carries(x.inflight, m)
  PROVE  Says(G, r, x)
BY OneTells DEF Says, Cur

\* A message about a mapped surface
LEMMA SubmitSays ==
  ASSUME NEW G, NEW r, Cur(G, r), NEW m, m.kind \in {"role", "commit"}, m.surface \in DOMAIN r.mappings \intersect Surfaces,
         m.session = r.mappings[m.surface], m.kind = "role" => m.value # "layer"
  PROVE  Says(G, r, Submit(r, m))
<1>1. PICK x : x = Submit(r, m)
  OBVIOUS
<1>2. x.sent = Append(r.sent, m) /\ IsRelay(x)
  BY <1>1 DEF Submit, Cur, IsRelay, IsMap, Fields
<1>3. /\ x.mappings = r.mappings /\ x.inflight = r.inflight /\ x.nextCursor = r.nextCursor /\ x.cursors = r.cursors
      /\ x.cache = r.cache
  BY <1>1 DEF Submit, Cur, IsRelay, Fields
<1>4. Cur(G, x) /\ FreshAfter(r, x)
  <2>1. IsSeq(x.sent)
    <3>1. PICK v : v = r.sent
      OBVIOUS
    <3>2. IsSeq(v)
      BY <3>1 DEF Cur
    <3>3. IsSeq(Append(v, m))
      BY <3>2, AppendFacts
    <3> QED
      BY <1>2, <3>1, <3>3
  <2>2. Cur(G, x)
    BY <1>2, <1>3, <2>1 DEF Cur
  <2>3. FreshAfter(r, x)
    BY <1>3 DEF FreshAfter, Fresh
  <2> QED
    BY <2>2, <2>3
<1>5. Legal(r.mappings, m, x.mappings)
  BY <1>3 DEF Legal
<1>6. Fair(G, x, m)
  BY DEF Fair
<1> QED
  BY <1>1, <1>2, <1>3, <1>4, <1>5, <1>6, OneSays

-----------------------------------------------------------------------------
(* The cursors that wait.                                                  *)

DropStep(S, p, e) == IF e \in S THEN p ELSE Append(p, e)

DropRun(f, S, q) == f[0] = <<>> /\ \A n \in 1 .. Len(q) : f[n] = DropStep(S, f[n - 1], q[n])
DropDef(f, N, S, q) == f = [n \in 0 .. N |-> IF n = 0 THEN <<>> ELSE DropStep(S, f[n - 1], q[n])]

LEMMA DropRunExists ==
  ASSUME NEW S, NEW q, Len(q) \in Nat
  PROVE  \E f : DropDef(f, Len(q), S, q)
<1> DEFINE P == {n \in 0 .. Len(q) : \E f : DropDef(f, n, S, q)}
<1>1. 0 \in P
  <2>1. DropDef([n \in 0 .. 0 |-> <<>>], 0, S, q)
    BY DEF DropDef
  <2> QED
    BY <2>1
<1>2. ASSUME NEW n \in 1 .. Len(q), n - 1 \in P
      PROVE  n \in P
  <2>1. PICK f : DropDef(f, n - 1, S, q)
    BY <1>2
  <2>2. \A m \in 0 .. n - 1 : f[m] = IF m = 0 THEN <<>> ELSE DropStep(S, f[m - 1], q[m])
    BY <2>1 DEF DropDef
  <2> DEFINE g == [m \in 0 .. n |-> IF m = n THEN DropStep(S, f[n - 1], q[n]) ELSE f[m]]
  <2>3. g[n] = DropStep(S, f[n - 1], q[n]) /\ \A m \in 0 .. n - 1 : g[m] = f[m]
    OBVIOUS
  <2>4. g = [m \in 0 .. n |-> g[m]]
    OBVIOUS
  <2> HIDE DEF g
  <2>5. ASSUME NEW m \in 0 .. n
        PROVE  g[m] = IF m = 0 THEN <<>> ELSE DropStep(S, g[m - 1], q[m])
    <3>1. CASE m = n
      BY <2>3, <3>1
    <3>2. CASE m = 0
      BY <2>2, <2>3, <3>2
    <3>3. CASE m # n /\ m # 0
      <4>1. m \in 0 .. n - 1 /\ m - 1 \in 0 .. n - 1
        BY <3>3
      <4> QED
        BY <2>2, <2>3, <3>3, <4>1
    <3> QED
      BY <3>1, <3>2, <3>3
  <2>6. DropDef(g, n, S, q)
    BY <2>4, <2>5 DEF DropDef
  <2> QED
    BY <2>6
<1> HIDE DEF P
<1>3. Inductive(Len(q), P)
  BY <1>1, <1>2 DEF Inductive
<1>4. Len(q) \in P
  BY <1>3, Induct
<1> QED
  BY <1>4 DEF P

LEMMA DropRuns ==
  ASSUME NEW S, NEW q, Len(q) \in Nat
  PROVE  \E f : DropRun(f, S, q) /\ Dropping(q, S) = f[Len(q)]
<1> DEFINE f == CHOOSE g : DropDef(g, Len(q), S, q)
<1>1. Dropping(q, S) = f[Len(q)]
  BY DEF Dropping, DropDef, DropStep
<1>2. DropDef(f, Len(q), S, q)
  BY DropRunExists
<1> HIDE DEF f
<1>3. \A n \in 0 .. Len(q) : f[n] = IF n = 0 THEN <<>> ELSE DropStep(S, f[n - 1], q[n])
  BY <1>2 DEF DropDef
<1>4. DropRun(f, S, q)
  BY <1>3 DEF DropRun
<1> QED
  BY <1>1, <1>4

LEMMA DroppingKind ==
  ASSUME NEW q, IsSeq(q), NEW S
  PROVE  Dropping(q, S) \in Seq(ToSet(q))
<1>1. Len(q) \in Nat /\ ToSet(q) = {q[i] : i \in 1 .. Len(q)}
  BY SeqFacts
<1>2. PICK f : DropRun(f, S, q) /\ Dropping(q, S) = f[Len(q)]
  BY <1>1, DropRuns
<1>7. PICK E : E = ToSet(q)
  OBVIOUS
<1> DEFINE P == {n \in 0 .. Len(q) : f[n] \in Seq(E)}
<1>3. 0 \in P
  <2>1. f[0] = <<>> /\ <<>> \in Seq(E)
    BY <1>2 DEF DropRun
  <2>2. f[0] \in Seq(E)
    BY <2>1
  <2>3. 0 \in 0 .. Len(q)
    BY <1>1
  <2> QED
    BY <2>2, <2>3
<1>4. ASSUME NEW n \in 1 .. Len(q), n - 1 \in P
      PROVE  n \in P
  <2>1. PICK p, e : p = f[n - 1] /\ e = q[n]
    OBVIOUS
  <2>2. f[n] = DropStep(S, p, e) /\ e \in E /\ p \in Seq(E)
    BY <1>1, <1>2, <1>4, <1>7, <2>1 DEF DropRun
  <2>3. p \in Seq(E) /\ Append(p, e) \in Seq(E)
    BY <2>2
  <2>4. f[n] \in Seq(E)
    BY <2>2, <2>3 DEF DropStep
  <2> QED
    BY <2>4
<1> HIDE DEF P
<1>5. Inductive(Len(q), P)
  BY <1>1, <1>3, <1>4 DEF Inductive
<1>6. Len(q) \in P
  BY <1>5, Induct
<1> QED
  BY <1>2, <1>6, <1>7 DEF P

LEMMA SelfSays ==
  ASSUME NEW G, NEW r, Cur(G, r)
  PROVE  Says(G, r, r)
<1>1. Silent(G, r, r)
  BY DEF Silent, Cur
<1> QED
  BY <1>1, SilentSays

LEMMA ForgetCursorSays ==
  ASSUME NEW G, NEW r, Cur(G, r), NEW S
  PROVE  Says(G, r, ForgetCursor(r, S))
<1>1. PICK x : x = ForgetCursor(r, S)
  OBVIOUS
<1>2. PICK q : q = r.cursors
  OBVIOUS
<1>3. IsSeq(q)
  BY <1>2 DEF Cur
<1>4. IsSeq(Dropping(q, S))
  BY <1>3, DroppingKind DEF IsSeq
<1>5. x = [r EXCEPT !.cursors = Dropping(q, S)]
  BY <1>1, <1>2 DEF ForgetCursor
<1>6. x.cursors = Dropping(q, S) /\ x.sent = r.sent /\ x.mappings = r.mappings /\ x.nextCursor = r.nextCursor /\ x.inflight = r.inflight
  BY <1>5 DEF Cur, IsRelay, Fields
<1>8. IsRelay(x) /\ x.cache = r.cache
  BY <1>5 DEF Cur, IsRelay, IsMap, Fields
<1>7. Silent(G, r, x)
  BY <1>4, <1>6, <1>8 DEF Silent, Cur
<1> QED
  BY <1>1, <1>7, SilentSays

LEMMA MinIn ==
  ASSUME NEW T, T \subseteq Nat, T # {}
  PROVE  Min(T) \in T
<1>1. \E x \in T : \A y \in T : x <= y
  BY LeastOf
<1> QED
  BY <1>1 DEF Min

LEMMA SendNextCursorSays ==
  ASSUME NEW G, NEW r, Cur(G, r)
  PROVE  Says(G, r, SendNextCursor(r))
<1>0. IsRelay(r) /\ DOMAIN r.mappings \subseteq Surfaces
  BY DEF Cur
<1> DEFINE ready == {i \in DOMAIN r.cursors : Sendable(r, r.cursors[i])}
           first == Min(ready)
           s == r.cursors[first]
           update == [session |-> r.mappings[s], surface |-> s, seq |-> r.nextCursor]
           m == Message("cursor", r.mappings[s], s, [cursor |-> r.cache[s].cursor, seq |-> r.nextCursor])
           rest == SubSeq(r.cursors, first + 1, Len(r.cursors))
           a == [r EXCEPT !.cursors = <<>>]
           b == [r EXCEPT !.cursors = rest, !.cache[s].sentCursor = r.cache[s].cursor,
                          !.nextCursor = @ + 1, !.inflight = update]
<1>1. CASE DOMAIN r.inflight # {}
  <2>1. SendNextCursor(r) = r
    BY <1>1 DEF SendNextCursor
  <2> QED
    BY <2>1, SelfSays
<1>2. CASE DOMAIN r.inflight = {} /\ ready = {}
  <2>1. SendNextCursor(r) = a
    BY <1>2 DEF SendNextCursor
  <2>2. a.cursors = <<>> /\ a.sent = r.sent /\ a.mappings = r.mappings /\ a.nextCursor = r.nextCursor /\ a.inflight = r.inflight
    BY <1>0 DEF IsRelay, Fields
  <2>4. IsRelay(a) /\ a.cache = r.cache
    BY <1>0 DEF IsRelay, IsMap, Fields
  <2>3. Silent(G, r, a)
    BY <2>2, <2>4, NilFacts DEF Silent, Cur
  <2> QED
    BY <2>1, <2>3, SilentSays
<1>3. CASE DOMAIN r.inflight = {} /\ ready # {}
  <2>1. SendNextCursor(r) = Submit(b, m)
    BY <1>3 DEF SendNextCursor
  <2>2. PICK q : q = r.cursors
    OBVIOUS
  <2>3. IsSeq(q)
    BY <2>2 DEF Cur
  <2>4. ready \subseteq 1 .. Len(q) /\ Len(q) \in Nat
    <3>1. DOMAIN q = 1 .. Len(q) /\ Len(q) \in Nat
      BY <2>3, SeqFacts
    <3> QED
      BY <2>2, <3>1
  <2>5. first \in ready
    <3>1. ready \subseteq Nat
      BY <2>4
    <3> HIDE DEF ready
    <3> QED
      BY <1>3, <3>1, MinIn
  <2>6. s \in DOMAIN r.mappings
    BY <2>5 DEF Sendable
  <2>7. IsSeq(rest)
    <3> HIDE DEF first, ready
    <3>1. first \in 0 .. Len(q)
      BY <2>4, <2>5
    <3>2. IsSeq(SubSeq(q, first + 1, Len(q)))
      BY <2>3, <3>1, PartFacts
    <3> QED
      BY <2>2, <3>2
  <2> HIDE DEF ready, first, s, update, m, rest
  <2>8. /\ b.cursors = rest /\ b.sent = r.sent /\ b.mappings = r.mappings /\ b.nextCursor = r.nextCursor + 1
        /\ b.inflight = update /\ "sent" \in DOMAIN b /\ DOMAIN b.cache = DOMAIN r.cache
    BY <1>0 DEF IsRelay, Fields
  <2>20. IsRelay(b)
    <3>1. PICK g : g = [r.cache EXCEPT ![s].sentCursor = r.cache[s].cursor]
      OBVIOUS
    <3>2. b = [r EXCEPT !.cursors = rest, !.cache = g, !.nextCursor = r.nextCursor + 1, !.inflight = update]
      BY <3>1
    <3> HIDE DEF b
    <3> QED
      BY <1>0, <3>2 DEF IsRelay, IsMap, Fields
  <2> HIDE DEF b
  <2>9. PICK x : x = Submit(b, m)
    OBVIOUS
  <2>10. x = [b EXCEPT !.sent = Append(@, m)]
    BY <2>9 DEF Submit
  <2>11. /\ x.cursors = rest /\ x.sent = Append(r.sent, m) /\ x.mappings = r.mappings /\ x.nextCursor = r.nextCursor + 1
         /\ x.inflight = update /\ x.cache = b.cache
    BY <2>8, <2>10
  <2>21. IsRelay(x)
    BY <2>10, <2>20 DEF IsRelay, IsMap, Fields
  <2>12. /\ update = [session |-> r.mappings[s], surface |-> s, seq |-> r.nextCursor]
         /\ m.kind = "cursor" /\ m.session = r.mappings[s] /\ m.surface = s /\ m.value.seq = r.nextCursor
    BY DEF update, m, Message
  <2>13. r.nextCursor \in Nat
    BY DEF Cur
  <2>14. IsSeq(x.sent)
    <3>1. PICK v : v = r.sent
      OBVIOUS
    <3>2. IsSeq(v)
      BY <3>1 DEF Cur
    <3>3. IsSeq(Append(v, m))
      BY <3>2, AppendFacts
    <3> QED
      BY <2>11, <3>1, <3>3
  <2>15. Cur(G, x)
    BY <2>7, <2>8, <2>11, <2>12, <2>13, <2>14, <2>21 DEF Cur
  <2>16. FreshAfter(r, x)
    <3> SUFFICES ASSUME NEW n, NEW t, NEW c, Fresh(r, n, t, c) PROVE Fresh(x, n, t, c)
      BY DEF FreshAfter
    <3> QED
      BY <2>11, <2>12, <2>13 DEF Fresh
  <2>17. Legal(r.mappings, m, x.mappings)
    BY <2>6, <2>11, <2>12 DEF Legal
  <2>18. Fair(G, x, m)
    <3>1. Fresh(x, m.session, m.surface, m.value.seq)
      BY <2>11, <2>12, <2>13 DEF Fresh
    <3> QED
      BY <1>0, <2>6, <2>12, <3>1 DEF Fair
  <2>22. Carries(x.inflight, m)
    BY <2>11, <2>12 DEF Carries
  <2>19. Says(G, r, x)
    BY <2>11, <2>22, <2>15, <2>16, <2>17, <2>18, OneSays
  <2> QED
    BY <2>1, <2>9, <2>19
<1> QED
  BY <1>1, <1>2, <1>3

LEMMA QueueCursorSays ==
  ASSUME NEW G, NEW r, Cur(G, r), NEW s
  PROVE  Says(G, r, QueueCursor(r, s))
<1>1. CASE s \notin DOMAIN r.mappings \/ ~Up(r)
  <2>1. QueueCursor(r, s) = r
    BY <1>1 DEF QueueCursor
  <2> QED
    BY <2>1, SelfSays
<1>2. CASE ~(s \notin DOMAIN r.mappings \/ ~Up(r))
  <2>1. PICK q, w : q = r.cursors /\ w = IF s \in ToSet(q) THEN q ELSE Append(q, s)
    OBVIOUS
  <2>2. IsSeq(q)
    BY <2>1 DEF Cur
  <2>3. IsSeq(w)
    BY <2>1, <2>2, AppendFacts
  <2>4. PICK x : x = [r EXCEPT !.cursors = w]
    OBVIOUS
  <2>5. QueueCursor(r, s) = SendNextCursor(x)
    BY <1>2, <2>1, <2>4 DEF QueueCursor
  <2>6. x.cursors = w /\ x.sent = r.sent /\ x.mappings = r.mappings /\ x.nextCursor = r.nextCursor /\ x.inflight = r.inflight
    BY <2>4 DEF Cur, IsRelay, Fields
  <2>8. IsRelay(x) /\ x.cache = r.cache
    BY <2>4 DEF Cur, IsRelay, IsMap, Fields
  <2>10. Silent(G, r, x)
    BY <2>3, <2>6, <2>8 DEF Silent, Cur
  <2>7. Says(G, r, x)
    BY <2>10, SilentSays
  <2>9. Says(G, x, SendNextCursor(x))
    BY <2>7, SendNextCursorSays DEF Says
  <2> QED
    BY <2>5, <2>7, <2>9, SaysTrans
<1> QED
  BY <1>1, <1>2

-----------------------------------------------------------------------------
(* Mapping, in messages.                                                   *)

\* What the messages do not depend on may change.
LEMMA OtherSays ==
  ASSUME NEW G, NEW r, Cur(G, r), NEW x, IsRelay(x),
         \A k \in {"sent", "mappings", "nextCursor", "inflight", "cursors", "cache"} : x[k] = r[k]
  PROVE  Says(G, r, x)
<1>1. Silent(G, r, x)
  BY DEF Silent, Cur
<1> QED
  BY <1>1, SilentSays

LEMMA SetPresentationSays ==
  ASSUME NEW r, IsRelay(r), NEW s, NEW claim
  PROVE  LET x == SetPresentation(r, s, claim)
         IN IsRelay(x) /\ \A k \in {"sent", "mappings", "nextCursor", "inflight", "cursors", "cache"} : x[k] = r[k]
<1>1. PICK x : x = SetPresentation(r, s, claim)
  OBVIOUS
<1>2. x = r \/ \E c, p : x = [r EXCEPT !.claims = c, !.updates = p]
  <2> DEFINE new == {t \in ({s} \union Popups(r, s)) \intersect DOMAIN r.mappings :
                       ~(t \in DOMAIN r.claims /\ r.claims[t] = claim)}
  <2>1. PICK c : c = [t \in DOMAIN r.claims \union new |-> IF t \in new THEN claim ELSE r.claims[t]]
    OBVIOUS
  <2>2. PICK p : p = r.updates \o SetToSeq({Claim(t, claim) : t \in new})
    OBVIOUS
  <2>3. x = r \/ x = [r EXCEPT !.claims = c, !.updates = p]
    BY <1>1, <2>1, <2>2 DEF SetPresentation
  <2> QED
    BY <2>3
<1>3. CASE x = r
  BY <1>1, <1>3
<1>4. CASE x # r
  <2>1. PICK c, p : x = [r EXCEPT !.claims = c, !.updates = p]
    BY <1>2, <1>4
  <2>2. IsRelay(x)
    BY <2>1 DEF IsRelay, IsMap, Fields
  <2>3. \A k \in {"sent", "mappings", "nextCursor", "inflight", "cursors", "cache"} : x[k] = r[k]
    BY <2>1 DEF IsRelay, IsMap, Fields
  <2> QED
    BY <1>1, <2>2, <2>3
<1> QED
  BY <1>3, <1>4

LEMMA MapOneSays ==
  ASSUME NEW G, NEW r, Cur(G, r), NEW session, NEW s \in DOMAIN r.cache, s \notin DOMAIN r.mappings, r.cache[s].role # "layer"
  PROVE  Says(G, r, MapOne(r, session, s))
<1> DEFINE c == r.cache[s]
           claim == IF c.role = "popup" /\ Owner[s] \in DOMAIN r.claims THEN r.claims[Owner[s]] ELSE "active"
           put == [r EXCEPT !.mappings = Put(@, s, session)]
           claimed == SetPresentation(put, s, claim)
           first == Message("mapped", session, s, None)
           named == Submit(claimed, first)
           opened == Submit(named, Message("role", session, s, c.role))
           told == IF c.commit = None THEN opened ELSE Submit(opened, Message("commit", session, s, c.commit))
<1>1. MapOne(r, session, s) = QueueCursor(told, s)
  BY DEF MapOne
<1>2. s \in Surfaces \ G
  BY DEF Cur
<1>3. c.role # "layer"
  OBVIOUS
<1> HIDE DEF claim, c
<1>4. PICK m : m = Put(r.mappings, s, session)
  OBVIOUS
<1>5. DOMAIN m = DOMAIN r.mappings \union {s} /\ m[s] = session /\ IsMap(m)
  BY <1>4 DEF Put, IsMap
<1>6. IsRelay(put) /\ put.mappings = m /\ \A k \in {"sent", "nextCursor", "inflight", "cursors", "cache"} : put[k] = r[k]
  BY <1>4 DEF Cur, IsRelay, IsMap, Fields
<1> HIDE DEF put
<1>7. /\ IsRelay(claimed) /\ claimed.mappings = m
      /\ \A k \in {"sent", "nextCursor", "inflight", "cursors", "cache"} : claimed[k] = r[k]
  BY <1>6, SetPresentationSays
<1> HIDE DEF claimed
<1>8. /\ IsRelay(named) /\ named.mappings = m /\ named.sent = Append(r.sent, first)
      /\ \A k \in {"nextCursor", "inflight", "cursors", "cache"} : named[k] = r[k]
  BY <1>7 DEF Submit, IsRelay, IsMap, Fields
<1>9. first.kind = "mapped" /\ first.surface = s /\ first.session = session
  BY DEF Message
<1> HIDE DEF first, named
<1>10. Cur(G, named) /\ FreshAfter(r, named)
  <2>1. IsSeq(named.sent)
    <3>1. PICK v : v = r.sent
      OBVIOUS
    <3>2. IsSeq(v)
      BY <3>1 DEF Cur
    <3>3. IsSeq(Append(v, first))
      BY <3>2, AppendFacts
    <3> QED
      BY <1>8, <3>1, <3>3
  <2>2. Cur(G, named)
    BY <1>2, <1>5, <1>8, <2>1 DEF Cur
  <2>3. FreshAfter(r, named)
    BY <1>8 DEF FreshAfter, Fresh
  <2> QED
    BY <2>2, <2>3
<1>11. Legal(r.mappings, first, named.mappings)
  BY <1>4, <1>8, <1>9 DEF Legal
<1>12. Fair(G, named, first)
  BY <1>2, <1>9 DEF Fair
<1>13. Says(G, r, named)
  BY <1>8, <1>10, <1>11, <1>12, OneSays
<1>14. ASSUME NEW y, Cur(G, y), y.mappings = m, NEW kind \in {"role", "commit"}, NEW value, kind = "role" => value # "layer"
       PROVE  /\ Says(G, y, Submit(y, Message(kind, session, s, value)))
              /\ Submit(y, Message(kind, session, s, value)).mappings = m
  <2>1. PICK e : e = Message(kind, session, s, value)
    OBVIOUS
  <2>2. e.kind = kind /\ e.surface = s /\ e.session = session /\ e.value = value
    BY <2>1 DEF Message
  <2>3. Says(G, y, Submit(y, e))
    BY <1>2, <1>5, <1>14, <2>2, SubmitSays
  <2>4. Submit(y, e).mappings = m
    BY <1>14 DEF Submit, Cur, IsRelay, Fields
  <2> QED
    BY <2>1, <2>3, <2>4
<1>15. Says(G, named, opened) /\ opened.mappings = m
  BY <1>3, <1>8, <1>10, <1>14
<1> HIDE DEF opened
<1>16. Says(G, r, opened) /\ Cur(G, opened)
  BY <1>13, <1>15, SaysTrans DEF Says
<1>17. Says(G, r, told)
  <2>1. Says(G, opened, Submit(opened, Message("commit", session, s, c.commit)))
    BY <1>14, <1>15, <1>16
  <2>2. Says(G, r, Submit(opened, Message("commit", session, s, c.commit)))
    BY <1>16, <2>1, SaysTrans
  <2> QED
    BY <1>16, <2>2
<1> HIDE DEF told
<1>18. Says(G, told, QueueCursor(told, s))
  BY <1>17, QueueCursorSays DEF Says
<1> QED
  BY <1>1, <1>17, <1>18, SaysTrans


\* No surface twice
Distinct(q) == \A i, j \in 1 .. Len(q) : q[i] = q[j] => i = j

LEMMA ListedOnce ==
  ASSUME NEW S, IsFiniteSet(S)
  PROVE  Distinct(SetToSeq(S))
<1> DEFINE n == Cardinality(S)
<1>1. n \in Nat /\ \E f : f \in Bijection(1 .. n, S)
  BY FS_CardinalityType DEF ExistsBijection
<1>2. PICK f : f \in Bijection(1 .. n, S)
  BY <1>1
<1>3. f \in [1 .. n -> S] /\ IsInjective(f)
  BY <1>2 DEF Bijection, Injection, IsInjective
<1> DEFINE g == SetToSeq(S)
<1>4. g \in [1 .. n -> S] /\ IsInjective(g)
  BY <1>3 DEF SetToSeq
<1> HIDE DEF g, n
<1>5. Len(g) = n
  BY <1>1, <1>4
<1>6. Distinct(g)
  BY <1>4, <1>5 DEF Distinct, IsInjective
<1> QED
  BY <1>6 DEF g

LEMMA HeadedOnce ==
  ASSUME NEW s, NEW T, IsFiniteSet(T), s \notin T, NEW q, q = <<s>> \o SetToSeq(T)
  PROVE  Distinct(q)
<1>1. PICK p : p = SetToSeq(T)
  OBVIOUS
<1>2. IsSeq(p) /\ ToSet(p) = T /\ Distinct(p)
  BY <1>1, Listed, ListedOnce
<1>3. PICK a : a = <<s>>
  OBVIOUS
<1>4. IsSeq(a) /\ Len(a) = 1 /\ a[1] = s
  BY <1>3, OneFacts
<1>5. Joined(q, a, p)
  BY <1>1, <1>2, <1>3, <1>4, ConcatJoined
<1>6. Len(p) \in Nat /\ \A i \in 1 .. Len(p) : p[i] \in T
  BY <1>2, SeqFacts
<1>7. Len(q) = 1 + Len(p) /\ q[1] = s /\ \A i \in 1 .. Len(p) : q[1 + i] = p[i]
  BY <1>4, <1>5 DEF Joined
<1>8. \A i \in 2 .. Len(q) : i - 1 \in 1 .. Len(p) /\ q[i] = p[i - 1] /\ q[i] \in T
  <2> TAKE i \in 2 .. Len(q)
  <2>1. i - 1 \in 1 .. Len(p) /\ 1 + (i - 1) = i
    BY <1>6, <1>7
  <2> QED
    BY <1>6, <1>7, <2>1
<1>9. ASSUME NEW i \in 1 .. Len(q), NEW j \in 1 .. Len(q), q[i] = q[j]
      PROVE  i = j
  <2>1. Len(q) \in Nat
    BY <1>6, <1>7
  <2>2. CASE i = 1
    BY <1>7, <1>8, <1>9, <2>1, <2>2
  <2>3. CASE i # 1 /\ j = 1
    BY <1>7, <1>8, <1>9, <2>1, <2>3
  <2>4. CASE i # 1 /\ j # 1
    <3>1. i \in 2 .. Len(q) /\ j \in 2 .. Len(q)
      BY <2>1, <2>4
    <3>2. p[i - 1] = p[j - 1] /\ i - 1 \in 1 .. Len(p) /\ j - 1 \in 1 .. Len(p)
      BY <1>8, <1>9, <3>1
    <3>3. i - 1 = j - 1
      BY <1>2, <3>2 DEF Distinct
    <3> QED
      BY <2>1, <3>3
  <2> QED
    BY <2>2, <2>3, <2>4
<1> QED
  BY <1>9 DEF Distinct

LEMMA MapEachSays ==
  ASSUME NEW u, NEW r, Settled(u, r), Up(r), Cur(u.gone, r), NEW session, NEW q, IsSeq(q), ToSet(q) \subseteq DOMAIN r.cache,
         Distinct(q), ToSet(q) \intersect DOMAIN r.mappings = {}, \A s \in ToSet(q) : r.cache[s].role # "layer"
  PROVE  Says(u.gone, r, MapEach(r, session, q))
<1>1. Len(q) \in Nat /\ ToSet(q) = {q[i] : i \in 1 .. Len(q)}
  BY SeqFacts
<1>2. PICK f : MappingRun(f, r, session, q) /\ MapEach(r, session, q) = f[Len(q)]
  BY <1>1, MappingRuns
<1> DEFINE To(n) == {q[i] : i \in 1 .. n}
           P == {n \in 0 .. Len(q) : Settled(u, f[n]) /\ Maps(r, f[n], To(n)) /\ Says(u.gone, r, f[n])}
<1>3. 0 \in P
  <2>1. To(0) = {} /\ f[0] = r
    BY <1>2 DEF MappingRun
  <2>2. Maps(r, r, {}) /\ Says(u.gone, r, r)
    BY SelfSays DEF Maps, SameFlags, SameCache, SameRoles
  <2>3. Settled(u, f[0]) /\ Maps(r, f[0], To(0)) /\ Says(u.gone, r, f[0])
    BY <2>1, <2>2
  <2>4. 0 \in 0 .. Len(q)
    BY <1>1
  <2> HIDE DEF To
  <2> QED
    BY <2>3, <2>4
<1>4. ASSUME NEW n \in 1 .. Len(q), n - 1 \in P
      PROVE  n \in P
  <2>1. f[n] = MapOne(f[n - 1], session, q[n])
    BY <1>2 DEF MappingRun
  <2>2. PICK y : y = f[n - 1]
    OBVIOUS
  <2>3. To(n) = To(n - 1) \union {q[n]}
    OBVIOUS
  <2>4. q[n] \in DOMAIN r.cache /\ q[n] \notin DOMAIN r.mappings /\ r.cache[q[n]].role # "layer"
    BY <1>1
  <2>5. q[n] \notin To(n - 1)
    BY DEF Distinct
  <2> HIDE DEF To
  <2>6. Settled(u, y) /\ Maps(r, y, To(n - 1)) /\ Says(u.gone, r, y)
    BY <1>4, <2>2
  <2>7. Up(y) /\ q[n] \in DOMAIN y.cache /\ y.cache[q[n]].role # "layer" /\ q[n] \notin DOMAIN y.mappings
    BY <2>4, <2>5, <2>6 DEF Maps, SameFlags, Up, SameCache, SameRoles
  <2>8. Settled(u, f[n]) /\ Maps(y, f[n], {q[n]})
    BY <2>1, <2>2, <2>6, <2>7, MapOneSettles
  <2>9. Maps(r, f[n], To(n))
    BY <2>3, <2>6, <2>8, MapsTrans
  <2>10. Says(u.gone, y, f[n])
    BY <2>1, <2>2, <2>6, <2>7, MapOneSays DEF Says
  <2>11. Says(u.gone, r, f[n])
    BY <2>6, <2>10, SaysTrans
  <2> QED
    BY <2>8, <2>9, <2>11
<1> HIDE DEF P, To
<1>6. Inductive(Len(q), P)
  BY <1>1, <1>3, <1>4 DEF Inductive
<1>7. Len(q) \in P
  BY <1>6, Induct
<1> QED
  BY <1>2, <1>7 DEF P

\* A change of the reservations or of the counter of sessions
LEMMA CountSays ==
  ASSUME NEW G, NEW r, Cur(G, r), NEW v
  PROVE  Says(G, r, [r EXCEPT !.reserved = v]) /\ Says(G, r, [r EXCEPT !.nextSession = v])
<1>1. PICK x, y : x = [r EXCEPT !.reserved = v] /\ y = [r EXCEPT !.nextSession = v]
  OBVIOUS
<1>2. IsRelay(x) /\ \A k \in {"sent", "mappings", "nextCursor", "inflight", "cursors", "cache"} : x[k] = r[k]
  BY <1>1 DEF Cur, IsRelay, IsMap, Fields
<1>3. IsRelay(y) /\ \A k \in {"sent", "mappings", "nextCursor", "inflight", "cursors", "cache"} : y[k] = r[k]
  BY <1>1 DEF Cur, IsRelay, IsMap, Fields
<1> QED
  BY <1>1, <1>2, <1>3, OtherSays

LEMMA MapSays ==
  ASSUME NEW u, NEW r, Settled(u, r), Up(r), Cur(u.gone, r), NEW session, NEW s
  PROVE  Says(u.gone, r, Map(r, session, s))
<1>1. Shape(r) /\ IsRelay(r)
  BY DEF Settled, Told, Shape
<1> DEFINE role == Cached(r, s).role
           v == IF s \in DOMAIN r.reserved THEN r.reserved ELSE Put(r.reserved, s, session)
           a == [r EXCEPT !.reserved = v]
           wanted == role = "toplevel" \/ (role = "popup" /\ Owner[s] \in DOMAIN r.mappings)
           q == <<s>> \o SetToSeq(Followers(r, s))
<1>2. CASE s \notin DOMAIN r.mappings /\ r.ready /\ wanted
  <2>1. s \in DOMAIN r.cache
    BY <1>2 DEF Cached, NoCache, None
  <2>2. Map(r, session, s) = MapEach(r, session, q)
    BY <1>2 DEF Map, None
  <2>3. IsSeq(q) /\ ToSet(q) = {s} \union Followers(r, s) /\ ToSet(q) \subseteq DOMAIN r.cache
    BY <1>1, <2>1, FollowersListed
  <2>4. Followers(r, s) \subseteq DOMAIN r.cache /\ \A p \in Followers(r, s) : r.cache[p].role = "popup" /\ Owner[p] = s /\ p \notin DOMAIN r.mappings
    BY DEF Followers, Popups
  <2>5. s \in Surfaces /\ IsFiniteSet(Followers(r, s))
    BY <1>1, <2>1, <2>4, LinkAssumption, FS_Subset DEF Shape, CacheOk
  <2>6. s \notin Followers(r, s)
    BY <2>4, <2>5, LinkAssumption
  <2>7. Distinct(q)
    BY <2>5, <2>6, HeadedOnce
  <2> HIDE DEF q
  <2>8. r.cache[s].role # "layer"
    BY <1>2, <2>1 DEF Cached
  <2>9. ToSet(q) \intersect DOMAIN r.mappings = {} /\ \A t \in ToSet(q) : r.cache[t].role # "layer"
    BY <1>2, <2>3, <2>4, <2>8
  <2> QED
    BY <2>2, <2>3, <2>7, <2>9, MapEachSays
<1>3. CASE ~(s \notin DOMAIN r.mappings /\ r.ready /\ wanted)
  <2>1. Map(r, session, s) \in {r, a}
    BY <1>3 DEF Map
  <2> HIDE DEF v
  <2>2. Says(u.gone, r, a)
    BY CountSays
  <2> QED
    BY <2>1, <2>2, SelfSays
<1> QED
  BY <1>2, <1>3

LEMMA AdmitSays ==
  ASSUME NEW u, NEW r, Settled(u, r), Up(r), Cur(u.gone, r), NEW s
  PROVE  Says(u.gone, r, Admit(r, s))
<1>1. PICK b : b = [r EXCEPT !.nextSession = @ + 1]
  OBVIOUS
<1>2. Shape(r) /\ IsRelay(r)
  BY DEF Settled, Told, Shape
<1>3. Quietly(r, b)
  <2>1. IsRelay(b)
    BY <1>1, <1>2 DEF IsRelay, IsMap, Fields
  <2>2. /\ SameFlags(r, b) /\ b.cache = r.cache /\ b.mappings = r.mappings /\ b.claims = r.claims
        /\ b.updates = r.updates /\ b.effects = r.effects /\ b.ledger = r.ledger
    BY <1>1, <1>2 DEF IsRelay, Fields, SameFlags
  <2> QED
    BY <1>2, <2>1, <2>2 DEF Quietly, SameCache, SameRoles, Shape
<1>4. Settled(u, b) /\ Up(b)
  BY <1>3, QuietKeeps DEF Quietly, SameFlags, Up
<1>5. Says(u.gone, r, b)
  BY <1>1, CountSays
<1>6. Says(u.gone, b, Map(b, r.nextSession, s))
  BY <1>4, <1>5, MapSays DEF Says
<1>7. Says(u.gone, r, Map(b, r.nextSession, s))
  BY <1>5, <1>6, SaysTrans
<1>8. Says(u.gone, r, Map(r, r.mappings[Owner[s]], s))
  BY MapSays
<1>9. Admit(r, s) \in {r, Map(b, r.nextSession, s), Map(r, r.mappings[Owner[s]], s)}
  BY <1>1 DEF Admit
<1> QED
  BY <1>7, <1>8, <1>9, SelfSays

LEMMA AdmitEachSays ==
  ASSUME NEW u, NEW r, Settled(u, r), Up(r), Cur(u.gone, r), NEW q, IsSeq(q)
  PROVE  Says(u.gone, r, AdmitEach(r, q))
<1>1. Len(q) \in Nat
  BY SeqFacts
<1>2. PICK f : AdmissionRun(f, r, q) /\ AdmitEach(r, q) = f[Len(q)]
  BY <1>1, AdmissionRuns
<1> DEFINE P == {n \in 0 .. Len(q) : Settled(u, f[n]) /\ Up(f[n]) /\ Says(u.gone, r, f[n])}
<1>3. 0 \in P
  BY <1>1, <1>2, SelfSays DEF AdmissionRun
<1>4. ASSUME NEW n \in 1 .. Len(q), n - 1 \in P
      PROVE  n \in P
  <2>1. f[n] = Admit(f[n - 1], q[n])
    BY <1>2 DEF AdmissionRun
  <2>2. PICK y : y = f[n - 1]
    OBVIOUS
  <2>3. Settled(u, y) /\ Up(y) /\ Says(u.gone, r, y)
    BY <1>4, <2>2
  <2>4. Moves(u, y, {}, Admit(y, q[n]), {} \ {q[n]})
    BY <2>3, AdmitMoves
  <2>5. Settled(u, f[n]) /\ Up(f[n])
    BY <2>1, <2>2, <2>3, <2>4 DEF Moves, SameFlags, Up
  <2>6. Says(u.gone, y, f[n])
    BY <2>1, <2>2, <2>3, AdmitSays DEF Says
  <2>7. Says(u.gone, r, f[n])
    BY <2>3, <2>6, SaysTrans
  <2> QED
    BY <2>5, <2>7
<1> HIDE DEF P
<1>5. Inductive(Len(q), P)
  BY <1>1, <1>3, <1>4 DEF Inductive
<1>6. Len(q) \in P
  BY <1>5, Induct
<1> QED
  BY <1>2, <1>6 DEF P

-----------------------------------------------------------------------------
(* Withdrawal and the events of the clients, in messages.                  *)

LEMMA FarewellFacts ==
  ASSUME NEW r, IsMap(r.mappings), NEW q, IsSeq(q), NEW p, p = Farewell(r, q)
  PROVE  /\ IsSeq(p) /\ Path(r.mappings, p, Without(r.mappings, ToSet(q)))
         /\ \A i \in 1 .. Len(p) : p[i].kind = "withdraw" /\ p[i].surface \in ToSet(q)
<1>1. PICK n : n = Len(q)
  OBVIOUS
<1>2. n \in Nat /\ DOMAIN q = 1 .. n /\ ToSet(q) = {q[i] : i \in 1 .. n}
  BY <1>1, SeqFacts
<1>3. p = [i \in 1 .. n |-> Message("withdraw", r.mappings[q[i]], q[i], None)]
  BY <1>2 DEF Farewell
<1>4. PICK E : E = {Message("withdraw", r.mappings[q[i]], q[i], None) : i \in 1 .. n}
  OBVIOUS
<1>5. p \in Seq(E) /\ Len(p) = n
  <2>1. p \in [1 .. n -> E]
    BY <1>3, <1>4
  <2> QED
    BY <1>2, <1>3, <2>1
<1>6. \A i \in 1 .. n : p[i].kind = "withdraw" /\ p[i].surface = q[i]
  BY <1>3 DEF Message
<1>7. PICK m : m = r.mappings
  OBVIOUS
<1> DEFINE To(i) == {q[j] : j \in 1 .. i}
           f == [i \in 0 .. n |-> Without(m, To(i))]
<1>8. f[0] = m
  <2>1. To(0) = {}
    OBVIOUS
  <2>2. Without(m, {}) = m
    BY <1>7 DEF Without, IsMap
  <2> QED
    BY <1>2, <2>1, <2>2
<1>9. f[n] = Without(m, ToSet(q))
  BY <1>2
<1>10. ASSUME NEW i \in 1 .. n
       PROVE  Legal(f[i - 1], p[i], f[i])
  <2>1. To(i) = To(i - 1) \union {q[i]}
    OBVIOUS
  <2>2. f[i] = Without(m, To(i)) /\ f[i - 1] = Without(m, To(i - 1))
    BY <1>2
  <2> HIDE DEF To, f
  <2>3. Without(m, To(i)) = Without(Without(m, To(i - 1)), {q[i]})
    BY <2>1 DEF Without
  <2>4. f[i] = Without(f[i - 1], {q[i]})
    BY <2>2, <2>3
  <2> QED
    BY <1>6, <2>4 DEF Legal
<1> HIDE DEF f
<1>11. PathBy(f, m, p, Without(m, ToSet(q)))
  BY <1>5, <1>8, <1>9, <1>10 DEF PathBy
<1>12. Path(m, p, Without(m, ToSet(q)))
  BY <1>11 DEF Path
<1> QED
  BY <1>2, <1>5, <1>6, <1>7, <1>12 DEF IsSeq

LEMMA WithdrawnSays ==
  ASSUME NEW G, NEW r, Cur(G, r), Shape(r), NEW q, IsSeq(q), ToSet(q) \subseteq Surfaces, NEW x, x = Withdrawn(r, q)
  PROVE  Cur(G, x) /\ \A H : Tells(H, r, x)
<1>1. PICK S, p : S = ToSet(q) /\ p = Farewell(r, q)
  OBVIOUS
<1>2. IsFiniteSet(S)
  BY <1>1, LinkAssumption, FS_Subset
<1>3. /\ Shape(x) /\ Withdraws(r, x, S) /\ x.sent = r.sent \o p /\ x.mappings = Without(r.mappings, S)
      /\ x.cursors = Dropping(r.cursors, S) /\ x.inflight = r.inflight /\ x.nextCursor = r.nextCursor
  BY <1>1, <1>2, WithdrawnParts
<1>4. /\ IsSeq(p) /\ Path(r.mappings, p, x.mappings)
      /\ \A i \in 1 .. Len(p) : p[i].kind = "withdraw" /\ p[i].surface \in S
  <2>1. IsMap(r.mappings)
    BY DEF Cur
  <2> QED
    BY <1>1, <1>3, <2>1, FarewellFacts
<1>5. IsSeq(x.sent) /\ IsSeq(x.cursors)
  <2>1. PICK v, w : v = r.sent /\ w = r.cursors
    OBVIOUS
  <2>2. IsSeq(v) /\ IsSeq(w)
    BY <2>1 DEF Cur
  <2>3. IsSeq(v \o p) /\ IsSeq(Dropping(w, S))
    BY <1>4, <2>2, ConcatFacts, DroppingKind DEF IsSeq
  <2> QED
    BY <1>3, <2>1, <2>3
<1>6. FreshAfter(r, x)
  BY <1>3 DEF FreshAfter, Fresh
<1>7. Cur(G, x)
  BY <1>3, <1>5 DEF Cur, Shape, Withdraws, SameCache, SameRoles
<1>8. ASSUME NEW H
      PROVE  Tells(H, r, x)
  <2>1. \A i \in 1 .. Len(p) : Fair(H, x, p[i])
    BY <1>1, <1>4 DEF Fair
  <2>2. Speech(H, r, x, p)
    BY <1>3, <1>4, <2>1 DEF Speech
  <2> QED
    BY <1>6, <2>2 DEF Tells
<1> QED
  BY <1>7, <1>8

\* A relay of the right shape, whether its access is revoked or not
Solid(G, r) == Cur(G, r) /\ Shape(r) /\ DOMAIN r.claims \subseteq DOMAIN r.mappings

LEMMA UnmapSays ==
  ASSUME NEW G, NEW r, Solid(G, r), NEW s
  PROVE  Says(G, r, Unmap(r, s)) /\ Solid(G, Unmap(r, s)) /\ DOMAIN Unmap(r, s).cache = DOMAIN r.cache
<1>0. Cur(G, r) /\ Shape(r) /\ IsRelay(r)
  BY DEF Solid, Cur
<1>1. PICK v : v = [r EXCEPT !.reserved = Without(r.reserved, {s})]
  OBVIOUS
<1>2. Says(G, r, v)
  BY <1>0, <1>1, CountSays
<1>3. Quietly(r, v)
  BY <1>0, <1>1, ReservedQuiet
<1>4. Shape(v) /\ Cur(G, v) /\ v.mappings = r.mappings /\ DOMAIN v.claims \subseteq DOMAIN v.mappings
  BY <1>0, <1>2, <1>3, QuietShape DEF Says, Quietly, Solid
<1>5. CASE s \notin DOMAIN r.mappings
  <2>1. Unmap(r, s) = v
    BY <1>1, <1>5 DEF Unmap
  <2> QED
    BY <1>2, <1>3, <1>4, <2>1 DEF Solid, Quietly, SameCache, SameRoles
<1>6. CASE s \in DOMAIN r.mappings
  <2>1. PICK T : T = Popups(r, s) \intersect DOMAIN r.mappings
    OBVIOUS
  <2>2. IsFiniteSet(T) /\ {s} \union T \subseteq Surfaces
    BY <1>0, <1>6, <2>1, LinkAssumption, FS_Subset DEF Shape
  <2>3. PICK q : q = <<s>> \o SetToSeq(T)
    OBVIOUS
  <2>4. IsSeq(q) /\ ToSet(q) = {s} \union T
    BY <2>2, <2>3, Headed
  <2>5. PICK x : x = Withdrawn(v, q)
    OBVIOUS
  <2>6. Unmap(r, s) = x
    BY <1>1, <1>6, <2>1, <2>3, <2>5 DEF Unmap
  <2>7. Cur(G, x) /\ Tells(G, v, x)
    BY <1>4, <2>2, <2>4, <2>5, WithdrawnSays
  <2>8. IsFiniteSet(ToSet(q))
    BY <2>2, <2>4, FS_AddElement
  <2>9. Shape(x) /\ Withdraws(v, x, ToSet(q)) /\ DOMAIN x.claims = DOMAIN v.claims \ ToSet(q)
    BY <1>4, <2>4, <2>5, <2>8, WithdrawnParts
  <2>10. Solid(G, x)
    BY <1>4, <2>7, <2>9 DEF Solid, Withdraws
  <2>11. Says(G, r, x)
    BY <1>0, <1>2, <2>7, SaysTrans DEF Says
  <2>12. DOMAIN x.cache = DOMAIN r.cache
    BY <1>3, <2>9 DEF Withdraws, Quietly, SameCache, SameRoles
  <2> QED
    BY <2>6, <2>10, <2>11, <2>12
<1> QED
  BY <1>5, <1>6

LEMMA SettledSolid ==
  ASSUME NEW u, NEW G, NEW r, Settled(u, r), Cur(G, r)
  PROVE  Solid(G, r)
BY DEF Settled, Told, Solid

\* A change of the cache, of surfaces that are not gone
LEMMA CacheSays ==
  ASSUME NEW G, NEW r, Cur(G, r), NEW g, DOMAIN g \subseteq Surfaces \ G
  PROVE  Says(G, r, [r EXCEPT !.cache = g])
<1>1. PICK x : x = [r EXCEPT !.cache = g]
  OBVIOUS
<1>2. IsRelay(x) /\ x.cache = g
  BY <1>1 DEF Cur, IsRelay, IsMap, Fields
<1>3. /\ x.cursors = r.cursors /\ x.sent = r.sent /\ x.mappings = r.mappings
      /\ x.nextCursor = r.nextCursor /\ x.inflight = r.inflight
  BY <1>1 DEF Cur, IsRelay, Fields
<1>4. Silent(G, r, x)
  BY <1>2, <1>3 DEF Silent, Cur
<1> QED
  BY <1>1, <1>4, SilentSays

LEMMA CachePutSays ==
  ASSUME NEW G, NEW r, Cur(G, r), NEW s \in Surfaces \ G, NEW c
  PROVE  Says(G, r, Cache(r, s, c)) /\ Cache(r, s, c).mappings = r.mappings
<1>1. DOMAIN Put(r.cache, s, c) \subseteq Surfaces \ G
  BY DEF Cur, Put
<1>2. Says(G, r, [r EXCEPT !.cache = Put(r.cache, s, c)])
  BY <1>1, CacheSays
<1>3. Cache(r, s, c) = [r EXCEPT !.cache = Put(r.cache, s, c)]
  BY DEF Cache
<1> QED
  BY <1>2, <1>3 DEF Cur, IsRelay, Fields

LEMMA RoleSays ==
  ASSUME NEW u, NEW r, Settled(u, r), Up(r), Cur(u.gone, r), NEW s \in Surfaces, s \notin u.gone, NEW role
  PROVE  Says(u.gone, r, ObserveRole(r, s, role))
<1>0. PICK G : G = u.gone
  OBVIOUS
<1>1. Shape(r) /\ IsRelay(r) /\ Cur(G, r)
  BY <1>0 DEF Settled, Told, Shape
<1>2. PICK c : c = [Cached(r, s) EXCEPT !.role = role]
  OBVIOUS
<1>3. IsCached(c) /\ c.role = role
  <2>1. PICK b : b = Cached(r, s)
    OBVIOUS
  <2>2. IsCached(b)
    BY <1>1, <2>1, CachedKind
  <2> QED
    BY <1>2, <2>1, <2>2 DEF IsCached
<1>4. PICK known : known = Cache(r, s, c)
  OBVIOUS
<1>5. Moves(u, r, {}, known, {s})
  BY <1>3, <1>4, CachePut
<1>6. Settled(u, known) /\ Up(known) /\ Shape(known) /\ IsRelay(known)
  BY <1>5 DEF Moves, SameFlags, Up, Settled, Told, Shape
<1>7. Says(G, r, known) /\ Cur(G, known)
  BY <1>0, <1>1, <1>4, CachePutSays DEF Says
<1>8. PICK away : away = Unmap(known, s)
  OBVIOUS
<1>9. PICK g : g = [t \in DOMAIN away.cache |->
                      IF t \in {s} \union Popups(away, s) THEN [away.cache[t] EXCEPT !.commit = None] ELSE away.cache[t]]
  OBVIOUS
<1>10. PICK blank, free : /\ blank = [away EXCEPT !.cache = g]
                          /\ free = [known EXCEPT !.reserved = Without(known.reserved, {s})]
  OBVIOUS
<1>11. PICK x, e : x = ObserveRole(r, s, role) /\ e = Message("role", known.mappings[s], s, role)
  OBVIOUS
<1>12. known.cache = Put(r.cache, s, c)
  BY <1>1, <1>4 DEF Cache, IsRelay, Fields
<1>13. Cached(known, s).role = role
  BY <1>3, <1>12 DEF Cached, Put
<1>14. \/ x = blank \/ x = Map(free, known.reserved[s], s)
       \/ x = Map(known, known.mappings[Owner[s]], s) \/ x = Admit(known, s)
       \/ s \in DOMAIN known.mappings /\ role # "layer" /\ x = Submit(known, e)
  <2>1. known = Cache(r, s, [Cached(r, s) EXCEPT !.role = role])
    BY <1>2, <1>4
  <2>2. role = "layer" => DesktopSurface(known, s)
    BY <1>13 DEF DesktopSurface
  <2> QED
    BY <1>8, <1>9, <1>10, <1>11, <2>1, <2>2 DEF ObserveRole
<1>15. Says(G, known, blank)
  <2>1. Says(G, known, away)
    BY <1>6, <1>7, <1>8, SettledSolid, UnmapSays
  <2>2. Cur(G, away) /\ DOMAIN g = DOMAIN away.cache
    BY <1>9, <2>1 DEF Says
  <2>3. Says(G, away, blank)
    BY <1>10, <2>2, CacheSays DEF Cur
  <2> QED
    BY <1>7, <2>1, <2>3, SaysTrans
<1>16. \A session : Says(G, known, Map(known, session, s))
  BY <1>0, <1>6, <1>7, MapSays
<1>17. \A session : Says(G, known, Map(free, session, s))
  <2>1. Quietly(known, free)
    BY <1>6, <1>10, ReservedQuiet
  <2>2. Settled(u, free) /\ Up(free)
    BY <1>6, <2>1, QuietKeeps DEF Quietly, SameFlags, Up
  <2>3. Says(G, known, free)
    BY <1>7, <1>10, CountSays
  <2>4. \A session : Says(G, free, Map(free, session, s))
    BY <1>0, <2>2, <2>3, MapSays DEF Says
  <2> QED
    BY <1>7, <2>3, <2>4, SaysTrans
<1>18. Says(G, known, Admit(known, s))
  BY <1>0, <1>6, <1>7, AdmitSays
<1>19. ASSUME s \in DOMAIN known.mappings, role # "layer"
       PROVE  Says(G, known, Submit(known, e))
  <2>1. e.kind = "role" /\ e.surface = s /\ e.session = known.mappings[s] /\ e.value = role
    BY <1>11 DEF Message
  <2> QED
    BY <1>7, <1>19, <2>1, SubmitSays
<1>20. Says(G, known, x)
  BY <1>14, <1>15, <1>16, <1>17, <1>18, <1>19
<1> QED
  BY <1>0, <1>1, <1>7, <1>11, <1>20, SaysTrans

LEMMA CommitSays ==
  ASSUME NEW u, NEW r, Settled(u, r), Up(r), Cur(u.gone, r), NEW s \in Surfaces, s \notin u.gone, NEW commit
  PROVE  Says(u.gone, r, ObserveCommit(r, s, commit))
<1>0. PICK G : G = u.gone
  OBVIOUS
<1>1. Shape(r) /\ IsRelay(r) /\ Cur(G, r)
  BY <1>0 DEF Settled, Told, Shape
<1>2. PICK c : c = [Cached(r, s) EXCEPT !.commit = commit]
  OBVIOUS
<1>3. IsCached(c)
  <2>1. PICK b : b = Cached(r, s)
    OBVIOUS
  <2>2. IsCached(b)
    BY <1>1, <2>1, CachedKind
  <2> QED
    BY <1>2, <2>1, <2>2 DEF IsCached
<1>4. PICK known : known = Cache(r, s, c)
  OBVIOUS
<1>5. Moves(u, r, {}, known, {s})
  BY <1>3, <1>4, CachePut
<1>6. Settled(u, known) /\ Up(known) /\ Shape(known) /\ IsRelay(known)
  BY <1>5 DEF Moves, SameFlags, Up, Settled, Told, Shape
<1>7. Says(G, r, known) /\ Cur(G, known) /\ known.mappings = r.mappings
  BY <1>0, <1>1, <1>4, CachePutSays DEF Says
<1>8. PICK hidden : hidden = [known EXCEPT !.cache[s].cursor = None, !.cache[s].sentCursor = None]
  OBVIOUS
<1>9. PICK kept : kept = IF commit = "mapped" THEN known ELSE ForgetCursor(hidden, {s})
  OBVIOUS
<1>10. Quietly(known, hidden) /\ Says(G, known, hidden)
  <2>1. PICK f, g : f = known.cache /\ g = [f EXCEPT ![s].cursor = None, ![s].sentCursor = None]
    OBVIOUS
  <2>10. IsRelay(known)
    BY <1>6
  <2>2. hidden = [known EXCEPT !.cache = g]
    <3>1. PICK h : h = [known EXCEPT !.cache[s].cursor = None]
      OBVIOUS
    <3>2. h = [known EXCEPT !.cache = [f EXCEPT ![s].cursor = None]]
      BY <2>1, <3>1
    <3>3. h.cache = [f EXCEPT ![s].cursor = None]
      BY <2>10, <3>2 DEF IsRelay, Fields
    <3>4. hidden = [h EXCEPT !.cache[s].sentCursor = None]
      BY <1>8, <3>1
    <3>5. hidden = [h EXCEPT !.cache = g]
      BY <2>1, <3>3, <3>4
    <3> QED
      BY <3>2, <3>5
  <2>3. CacheOk(g) /\ SameRoles(f, g)
    BY <1>6, <2>1, CursorGone DEF Shape
  <2>4. IsMap(hidden) /\ DOMAIN hidden = DOMAIN known /\ hidden.cache = g
    BY <1>6, <2>2 DEF IsRelay, IsMap, Fields
  <2>5. \A k \in {"admission", "failed", "revoked", "ready", "admitting", "mappings",
                  "claims", "updates", "effects", "ledger"} : hidden[k] = known[k]
    BY <1>6, <2>2 DEF IsRelay, IsMap, Fields
  <2>6. CacheOk(hidden.cache) /\ SameCache(known, hidden)
    BY <2>1, <2>3, <2>4 DEF SameCache
  <2>7. Quietly(known, hidden)
    BY <1>6, <2>4, <2>5, <2>6, QuietFields
  <2>8. DOMAIN g \subseteq Surfaces \ G
    BY <1>7, <2>1, <2>3 DEF SameRoles, Cur
  <2>9. Says(G, known, hidden)
    BY <1>7, <2>2, <2>8, CacheSays
  <2> QED
    BY <2>7, <2>9
<1>11. Quietly(known, kept) /\ Says(G, known, kept)
  <2>1. Quietly(known, known) /\ Says(G, known, known)
    BY <1>6, <1>7, QuietlySelf, SelfSays
  <2>2. Quietly(hidden, ForgetCursor(hidden, {s})) /\ Says(G, hidden, ForgetCursor(hidden, {s}))
    BY <1>6, <1>10, QuietShape, ForgetCursorQuiet, ForgetCursorSays DEF Says
  <2>3. Quietly(known, ForgetCursor(hidden, {s}))
    BY <1>10, <2>2, QuietTrans
  <2>4. Says(G, known, ForgetCursor(hidden, {s}))
    BY <1>7, <1>10, <2>2, SaysTrans
  <2> QED
    BY <1>9, <2>1, <2>3, <2>4
<1>12. Settled(u, kept) /\ Up(kept) /\ kept.mappings = r.mappings
  BY <1>6, <1>7, <1>11, QuietKeeps DEF Quietly, SameFlags, Up
<1>13. Says(G, r, kept) /\ Cur(G, kept)
  BY <1>1, <1>7, <1>11, SaysTrans DEF Says
<1>14. PICK x, m : x = ObserveCommit(r, s, commit) /\ m = Message("commit", r.mappings[s], s, commit)
  OBVIOUS
<1>15. x = r \/ (s \in DOMAIN r.mappings /\ x = Submit(kept, m)) \/ x = Admit(kept, s)
  <2>1. known = Cache(r, s, [Cached(r, s) EXCEPT !.commit = commit])
    BY <1>2, <1>4
  <2> QED
    BY <1>8, <1>9, <1>14, <2>1 DEF ObserveCommit
<1>16. Says(G, kept, Admit(kept, s))
  BY <1>0, <1>12, <1>13, AdmitSays
<1>17. ASSUME s \in DOMAIN r.mappings
       PROVE  Says(G, kept, Submit(kept, m))
  <2>1. m.kind = "commit" /\ m.surface = s /\ m.session = kept.mappings[s]
    BY <1>12, <1>14 DEF Message
  <2> QED
    BY <1>12, <1>13, <1>17, <2>1, SubmitSays
<1>18. Says(G, r, Admit(kept, s)) /\ (s \in DOMAIN r.mappings => Says(G, r, Submit(kept, m)))
  BY <1>1, <1>13, <1>16, <1>17, SaysTrans
<1>19. Says(G, r, r)
  BY <1>1, SelfSays
<1> QED
  BY <1>0, <1>14, <1>15, <1>18, <1>19

LEMMA CursorSays ==
  ASSUME NEW G, NEW r, Cur(G, r), NEW s \in Surfaces \ G, NEW cursor
  PROVE  Says(G, r, ObserveCursor(r, s, cursor))
<1>1. PICK known : known = Cache(r, s, [Cached(r, s) EXCEPT !.cursor = cursor])
  OBVIOUS
<1>2. Says(G, r, known)
  BY <1>1, CachePutSays
<1>3. Says(G, known, QueueCursor(known, s))
  BY <1>2, QueueCursorSays DEF Says
<1>4. Says(G, r, QueueCursor(known, s)) /\ Says(G, r, r)
  BY <1>2, <1>3, SaysTrans, SelfSays
<1>5. ObserveCursor(r, s, cursor) \in {r, QueueCursor(known, s)}
  BY <1>1 DEF ObserveCursor
<1> QED
  BY <1>4, <1>5

LEMMA NoneTells ==
  ASSUME NEW G, NEW r, IsSeq(r.sent), NEW x, FreshAfter(r, x), x.sent = r.sent, x.mappings = r.mappings,
         x.inflight \in {r.inflight, Empty}
  PROVE  Tells(G, r, x)
<1>1. Path(r.mappings, <<>>, x.mappings)
  BY NoPath
<1>2. x.sent = r.sent \o <<>> /\ IsSeq(<<>>) /\ Len(<<>>) = 0
  BY NilFacts
<1>3. Speech(G, r, x, <<>>)
  BY <1>1, <1>2 DEF Speech
<1> QED
  BY <1>3 DEF Tells

\* A field that does not matter
Others == {"sent", "mappings", "nextCursor", "inflight", "cursors", "cache"}

LEMMA DestroyedSays ==
  ASSUME NEW G, NEW r, Solid(G, r), NEW s \in Surfaces, NEW H, H = G \union {s}
  PROVE  Says(H, r, ObserveDestroyed(r, s))
<1>0. Cur(G, r) /\ Shape(r) /\ IsRelay(r) /\ IsSeq(r.sent)
  BY DEF Solid, Cur
<1>1. PICK v : v = [r EXCEPT !.reserved = Without(r.reserved, {s} \union Popups(r, s))]
  OBVIOUS
<1>2. Shape(v) /\ Cur(G, v) /\ v.mappings = r.mappings /\ v.sent = r.sent /\ v.inflight = r.inflight /\ FreshAfter(r, v)
  <2>1. Says(G, r, v)
    BY <1>0, <1>1, CountSays
  <2>2. Shape(v)
    BY <1>0, <1>1, ReservedQuiet, QuietShape
  <2> QED
    BY <1>0, <1>1, <2>1, <2>2 DEF Says, Tells, IsRelay, Fields
<1>3. PICK T, q, o : T = Popups(r, s) \intersect DOMAIN r.mappings /\ q = SetToSeq(T) /\ o = Withdrawn(v, q)
  OBVIOUS
<1>4. T \subseteq Surfaces /\ IsSeq(q) /\ ToSet(q) = T
  <2>1. T \subseteq Surfaces
    BY <1>0, <1>3 DEF Shape
  <2>2. IsFiniteSet(T)
    BY <2>1, LinkAssumption, FS_Subset
  <2> QED
    BY <1>3, <2>1, <2>2, Listed
<1>5. Cur(G, o) /\ Tells(H, v, o)
  BY <1>2, <1>3, <1>4, WithdrawnSays
<1>6. Tells(H, r, o)
  <2>1. Tells(H, r, v)
    BY <1>0, <1>2, NoneTells
  <2> QED
    BY <1>0, <1>5, <2>1, TellsTrans
<1>7. PICK a, b, d, x : /\ a = ReleasePresentation(o, {s}) /\ b = Ended(a, s)
                        /\ d = Announced(b, s) /\ x = Erased(d, s)
  OBVIOUS
<1>8. ObserveDestroyed(r, s) = x
  <2>1. o = Orphaned(r, s)
    BY <1>1, <1>3 DEF Orphaned
  <2>2. ObserveDestroyed(r, s) = Erased(Announced(Ended(ReleasePresentation(Orphaned(r, s), {s}), s), s), s)
    BY DEF ObserveDestroyed, Erased, Announced, Ended, Orphaned
  <2> QED
    BY <1>7, <2>1, <2>2
<1>9. IsRelay(a) /\ \A k \in Others : a[k] = o[k]
  BY <1>5, <1>7 DEF ReleasePresentation, Cur, IsRelay, IsMap, Fields, Others
<1>10. IsRelay(b) /\ \A k \in Others : b[k] = o[k]
  BY <1>7, <1>9 DEF Ended, IsRelay, IsMap, Fields, Others
<1>11. PICK e : e = Message("destroyed", o.mappings[s], s, None)
  OBVIOUS
<1>12. e.kind = "destroyed" /\ e.surface = s /\ e.session = o.mappings[s]
  BY <1>11 DEF Message
<1>13. /\ IsRelay(d) /\ \A k \in Others \ {"sent", "mappings"} : d[k] = o[k]
       /\ s \in DOMAIN o.mappings => d.sent = Append(o.sent, e) /\ d.mappings = Without(o.mappings, {s})
       /\ s \notin DOMAIN o.mappings => d.sent = o.sent /\ d.mappings = o.mappings
  <2>1. b.mappings = o.mappings /\ b.sent = o.sent
    BY <1>10 DEF Others
  <2>2. CASE s \in DOMAIN o.mappings
    <3>1. PICK y : y = [b EXCEPT !.mappings = Without(o.mappings, {s})]
      OBVIOUS
    <3>2. d = [y EXCEPT !.sent = Append(@, e)]
      BY <1>7, <1>11, <2>1, <2>2, <3>1 DEF Announced, Submit
    <3>3. IsRelay(y) /\ y.mappings = Without(o.mappings, {s}) /\ y.sent = o.sent
      BY <1>10, <2>1, <3>1 DEF IsRelay, IsMap, Fields
    <3>4. \A k \in Others \ {"sent", "mappings"} : y[k] = o[k]
      BY <1>10, <3>1 DEF IsRelay, IsMap, Fields, Others
    <3>5. IsRelay(d) /\ d.sent = Append(o.sent, e) /\ d.mappings = Without(o.mappings, {s})
      BY <3>2, <3>3 DEF IsRelay, IsMap, Fields
    <3>6. \A k \in Others \ {"sent", "mappings"} : d[k] = o[k]
      BY <3>2, <3>3, <3>4 DEF IsRelay, IsMap, Fields, Others
    <3> QED
      BY <2>2, <3>5, <3>6
  <2>3. CASE s \notin DOMAIN o.mappings
    <3>1. d = b
      BY <1>7, <2>1, <2>3 DEF Announced
    <3> QED
      BY <1>10, <2>1, <2>3, <3>1
  <2> QED
    BY <2>2, <2>3
<1>14. PICK w : w = Dropping(o.cursors, {s})
  OBVIOUS
<1>15. /\ IsRelay(x) /\ x.cache = Without(o.cache, {s}) /\ x.cursors = w
       /\ x.sent = d.sent /\ x.mappings = d.mappings /\ x.nextCursor = o.nextCursor /\ x.inflight = o.inflight
  <2>1. PICK g : g = Without(o.cache, {s})
    OBVIOUS
  <2>2. d.cache = o.cache /\ d.cursors = o.cursors /\ d.nextCursor = o.nextCursor /\ d.inflight = o.inflight
    BY <1>13 DEF Others
  <2>3. PICK y : y = [d EXCEPT !.cache = g]
    OBVIOUS
  <2>4. y.cursors = o.cursors
    BY <1>13, <2>2, <2>3 DEF IsRelay, Fields
  <2>5. x = [y EXCEPT !.cursors = w]
    BY <1>7, <1>14, <2>1, <2>2, <2>3, <2>4 DEF Erased, ForgetCursor
  <2>6. x = [d EXCEPT !.cache = g, !.cursors = w]
    BY <2>3, <2>5
  <2>7. IsRelay(x)
    BY <1>13, <2>6 DEF IsRelay, IsMap, Fields
  <2>8. /\ x.cache = g /\ x.cursors = w /\ x.sent = d.sent /\ x.mappings = d.mappings
        /\ x.nextCursor = d.nextCursor /\ x.inflight = d.inflight
    BY <1>13, <2>6 DEF IsRelay, Fields
  <2> QED
    BY <2>1, <2>2, <2>7, <2>8
<1>16. FreshAfter(o, x)
  BY <1>15 DEF FreshAfter, Fresh
<1>17. Tells(H, o, x)
  <2>1. IsSeq(o.sent)
    BY <1>5 DEF Cur
  <2>2. CASE s \in DOMAIN o.mappings
    <3>1. Legal(o.mappings, e, x.mappings)
      BY <1>12, <1>13, <1>15, <2>2 DEF Legal
    <3>2. Fair(H, x, e)
      BY <1>12 DEF Fair
    <3> QED
      BY <1>13, <1>15, <1>16, <2>1, <2>2, <3>1, <3>2, OneTells
  <2>3. CASE s \notin DOMAIN o.mappings
    BY <1>13, <1>15, <1>16, <2>1, <2>3, NoneTells
  <2> QED
    BY <2>2, <2>3
<1>18. Tells(H, r, x)
  BY <1>0, <1>6, <1>17, TellsTrans
<1>19. Cur(H, x)
  <2>1. IsSeq(x.sent) /\ IsSeq(x.cursors)
    <3>1. PICK y, z : y = o.sent /\ z = o.cursors
      OBVIOUS
    <3>2. IsSeq(y) /\ IsSeq(z)
      BY <1>5, <3>1 DEF Cur
    <3>3. IsSeq(Append(y, e)) /\ IsSeq(Dropping(z, {s}))
      BY <3>2, AppendFacts, DroppingKind DEF IsSeq
    <3>4. x.sent \in {y, Append(y, e)} /\ x.cursors = Dropping(z, {s})
      BY <1>13, <1>14, <1>15, <3>1
    <3> QED
      BY <3>2, <3>3, <3>4
  <2>2. DOMAIN x.cache \subseteq Surfaces \ H
    <3>1. DOMAIN x.cache = DOMAIN o.cache \ {s}
      BY <1>15 DEF Without
    <3> QED
      BY <1>5, <3>1 DEF Cur
  <2>3. IsMap(x.mappings) /\ DOMAIN x.mappings \subseteq Surfaces
    <3>1. IsMap(o.mappings) /\ DOMAIN o.mappings \subseteq Surfaces
      BY <1>5 DEF Cur
    <3>2. x.mappings \in {o.mappings, Without(o.mappings, {s})}
      BY <1>13, <1>15
    <3>3. IsMap(Without(o.mappings, {s})) /\ DOMAIN Without(o.mappings, {s}) \subseteq DOMAIN o.mappings
      BY DEF Without, IsMap
    <3> QED
      BY <3>1, <3>2, <3>3
  <2> QED
    BY <1>5, <1>15, <2>1, <2>2, <2>3 DEF Cur
<1> QED
  BY <1>8, <1>18, <1>19 DEF Says

-----------------------------------------------------------------------------
(* Failure and the messages of the viewer.                                 *)

\* A relay that is down has forgotten its surfaces, and knows why.
Honest(r) == r.failed \in {None, "crossed", "revoked", "closed"} /\ (~Up(r) => DOMAIN r.cache = {})

LEMMA FailSays ==
  ASSUME NEW G, NEW r, Solid(G, r), Up(r), NEW why, why # None, NEW x, x = Fail(r, why)
  PROVE  Says(G, r, x) /\ Solid(G, x) /\ x.failed = why /\ DOMAIN x.cache = {}
<1>1. Shape(r) /\ DOMAIN r.claims \subseteq DOMAIN r.mappings /\ Cur(G, r)
  BY DEF Solid
<1>2. /\ Shape(x) /\ x.failed = why /\ x.claims = Empty /\ x.cache = Empty
      /\ x.sent = r.sent /\ x.mappings = r.mappings /\ x.nextCursor = r.nextCursor /\ x.inflight = Empty /\ x.cursors = <<>>
  BY <1>1, FailParts
<1>3. DOMAIN Empty = {} /\ IsSeq(<<>>)
  BY NilFacts DEF Empty
<1>4. FreshAfter(r, x)
  BY <1>2, <1>3 DEF FreshAfter, Fresh
<1>5. IsSeq(r.sent)
  BY <1>1 DEF Cur
<1>6. Cur(G, x)
  <2>1. IsSeq(x.sent) /\ IsSeq(x.cursors) /\ DOMAIN x.inflight = {} /\ DOMAIN x.cache = {} /\ x.nextCursor \in Nat
    BY <1>1, <1>2, <1>3 DEF Cur
  <2>2. IsRelay(x) /\ IsMap(x.mappings) /\ DOMAIN x.mappings \subseteq Surfaces
    BY <1>2 DEF Shape
  <2> QED
    BY <2>1, <2>2 DEF Cur
<1>7. Tells(G, r, x)
  BY <1>2, <1>4, <1>5, NoneTells
<1>8. Solid(G, x)
  BY <1>2, <1>3, <1>6 DEF Solid
<1> QED
  BY <1>2, <1>3, <1>6, <1>7, <1>8 DEF Says

LEMMA CheckSays ==
  ASSUME NEW G, NEW r, Solid(G, r), Honest(r)
  PROVE  LET c == CheckAccess(r) IN Says(G, r, c) /\ Solid(G, c) /\ Honest(c)
<1>0. Cur(G, r) /\ Shape(r) /\ IsRelay(r)
  BY DEF Solid, Cur
<1>1. CASE ~(Up(r) /\ r.revoked)
  <2>1. CheckAccess(r) = r
    BY <1>1 DEF CheckAccess
  <2> QED
    BY <1>0, <2>1, SelfSays
<1>2. CASE Up(r) /\ r.revoked
  <2>1. PICK b : b = [r EXCEPT !.effects = <<>>, !.updates = <<>>]
    OBVIOUS
  <2>2. CheckAccess(r) = Fail(b, "revoked")
    BY <1>2, <2>1 DEF CheckAccess
  <2>3. IsRelay(b) /\ b.effects = <<>> /\ b.updates = <<>>
    BY <1>0, <2>1 DEF IsRelay, IsMap, Fields
  <2>4. \A k \in {"sent", "mappings", "nextCursor", "inflight", "cursors", "cache", "claims", "ledger", "failed"} : b[k] = r[k]
    BY <1>0, <2>1 DEF IsRelay, IsMap, Fields
  <2>5. Says(G, r, b)
    BY <1>0, <2>3, <2>4, OtherSays
  <2>6. Shape(b)
    BY <1>0, <2>3, <2>4, NilFacts DEF Shape
  <2>7. Solid(G, b) /\ Up(b)
    BY <1>2, <2>4, <2>5, <2>6 DEF Solid, Says, Up
  <2>8. "revoked" # None
    BY DEF None
  <2>9. LET x == Fail(b, "revoked") IN Says(G, b, x) /\ Solid(G, x) /\ x.failed = "revoked" /\ DOMAIN x.cache = {}
    BY <2>7, <2>8, FailSays
  <2>10. Says(G, r, Fail(b, "revoked"))
    BY <1>0, <2>5, <2>9, SaysTrans
  <2> QED
    BY <2>2, <2>9, <2>10 DEF Honest
<1> QED
  BY <1>1, <1>2

LEMMA RoutedSays ==
  ASSUME NEW G, NEW r, Cur(G, r), NEW m
  PROVE  Says(G, r, AcceptRouted(r, m))
<1>0. IsRelay(r)
  BY DEF Cur
<1>1. ASSUME NEW l, NEW q
      PROVE  Says(G, r, [r EXCEPT !.ledger = l, !.effects = q]) /\ Says(G, r, [r EXCEPT !.effects = q])
  <2>1. PICK x, y : x = [r EXCEPT !.ledger = l, !.effects = q] /\ y = [r EXCEPT !.effects = q]
    OBVIOUS
  <2>2. IsRelay(x) /\ \A k \in {"sent", "mappings", "nextCursor", "inflight", "cursors", "cache"} : x[k] = r[k]
    BY <1>0, <2>1 DEF IsRelay, IsMap, Fields
  <2>3. IsRelay(y) /\ \A k \in {"sent", "mappings", "nextCursor", "inflight", "cursors", "cache"} : y[k] = r[k]
    BY <1>0, <2>1 DEF IsRelay, IsMap, Fields
  <2> QED
    BY <2>1, <2>2, <2>3, OtherSays
<1>2. Says(G, r, SetPresentation(r, m.surface, Requested(m.value)))
  BY <1>0, SetPresentationSays, OtherSays
<1>3. PICK e : e = m.value
  OBVIOUS
<1>4. PICK l, n, p, q, w : /\ l = Observe(r.ledger, e) /\ p = Append(r.effects, Input(e.op, e.code, e.surface))
                           /\ n = Focused(r.ledger, m.surface) /\ q = Append(r.effects, Focus(m.surface))
                           /\ w = Append(r.effects, Effect("scale", m.surface))
  OBVIOUS
<1>5. PICK x : x = AcceptRouted(r, m)
  OBVIOUS
<1>6. \/ x = [r EXCEPT !.ledger = l, !.effects = p] \/ x = r \/ x = [r EXCEPT !.ledger = n, !.effects = q]
      \/ x = SetPresentation(r, m.surface, Requested(m.value)) \/ x = [r EXCEPT !.effects = w]
  BY <1>3, <1>4, <1>5 DEF AcceptRouted
<1>7. /\ Says(G, r, [r EXCEPT !.ledger = l, !.effects = p]) /\ Says(G, r, [r EXCEPT !.ledger = n, !.effects = q])
      /\ Says(G, r, [r EXCEPT !.effects = w]) /\ Says(G, r, r)
  BY <1>1, SelfSays
<1> QED
  BY <1>2, <1>5, <1>6, <1>7

LEMMA AckSays ==
  ASSUME NEW G, NEW r, Cur(G, r), Shape(r), NEW m, Fresh(r, m.session, m.surface, m.value)
  PROVE  Says(G, r, AcceptCursor(r, m)) /\ AcceptCursor(r, m).failed = r.failed
<1>0. IsRelay(r) /\ r.nextCursor \in Nat
  BY DEF Cur
<1>4. PICK v : v = m.value
  OBVIOUS
<1>5. /\ v \in Nat /\ v < r.nextCursor
      /\ DOMAIN r.inflight # {} => v < r.inflight.seq \/ [session |-> m.session, surface |-> m.surface, seq |-> v] = r.inflight
  BY <1>4 DEF Fresh
<1>1. PICK x, y : x = [r EXCEPT !.inflight = Empty] /\ y = SendNextCursor(x)
  OBVIOUS
<1>2. CASE AcceptCursor(r, m) = r
  BY <1>2, SelfSays
<1>3. CASE AcceptCursor(r, m) # r
  <2>1. AcceptCursor(r, m) = y
    <3>1. CASE DOMAIN r.inflight = {}
      <4>1. ~(v >= r.nextCursor)
        BY <1>0, <1>5
      <4>2. AcceptCursor(r, m) = r
        BY <1>4, <3>1, <4>1 DEF AcceptCursor
      <4> QED
        BY <1>3, <4>2
    <3>2. CASE DOMAIN r.inflight # {}
      <4>1. AcceptCursor(r, m) = CASE m.value < r.inflight.seq -> r
             [] [session |-> m.session, surface |-> m.surface, seq |-> m.value] = r.inflight -> y
             [] OTHER -> Fail(r, "acknowledgement mismatch")
        BY <1>1, <3>2 DEF AcceptCursor
      <4>2. CASE v < r.inflight.seq
        BY <1>3, <1>4, <4>1, <4>2
      <4>3. CASE ~(v < r.inflight.seq)
        <5>1. [session |-> m.session, surface |-> m.surface, seq |-> v] = r.inflight
          BY <1>5, <3>2, <4>3
        <5> QED
          BY <1>4, <4>1, <4>3, <5>1
      <4> QED
        BY <4>2, <4>3
    <3> QED
      BY <3>1, <3>2
  <2>2. IsRelay(x) /\ x.inflight = Empty
    BY <1>0, <1>1 DEF IsRelay, IsMap, Fields
  <2>3. \A k \in Fields \ {"inflight"} : x[k] = r[k]
    BY <1>0, <1>1 DEF IsRelay, IsMap
  <2>4. DOMAIN x.inflight = {}
    BY <2>2 DEF Empty
  <2>5. Cur(G, x) /\ FreshAfter(r, x)
    <3>1. Cur(G, x)
      BY <2>2, <2>3, <2>4 DEF Cur, Fields
    <3>2. FreshAfter(r, x)
      BY <2>3, <2>4 DEF FreshAfter, Fresh, Fields
    <3> QED
      BY <3>1, <3>2
  <2>6. Says(G, r, x)
    <3>1. IsSeq(r.sent) /\ x.sent = r.sent /\ x.mappings = r.mappings /\ x.inflight = Empty
      BY <2>2, <2>3 DEF Cur, Fields
    <3> QED
      BY <2>5, <3>1, NoneTells DEF Says
  <2>7. Shape(x) /\ x.failed = r.failed
    BY <2>2, <2>3 DEF Shape, Fields
  <2>8. Says(G, x, y) /\ Quietly(x, y)
    BY <1>1, <2>5, <2>7, SendNextCursorSays, SendNextCursorQuiet
  <2>9. Says(G, r, y) /\ y.failed = r.failed
    BY <2>6, <2>7, <2>8, SaysTrans DEF Quietly, SameFlags
  <2> QED
    BY <2>1, <2>9
<1> QED
  BY <1>2, <1>3

\* The acknowledgement of the cursor in flight frees the credit, or passes it to
\* the next cursor.
LEMMA AckTakes ==
  ASSUME NEW G, NEW r, Cur(G, r), NEW m, Answers(r.inflight, m)
  PROVE  LET y == AcceptCursor(r, m) IN y.inflight = Empty \/ CarriedIn(y.inflight, y.sent)
<1>0. IsRelay(r)
  BY DEF Cur
<1>1. PICK x, y : x = [r EXCEPT !.inflight = Empty] /\ y = SendNextCursor(x)
  OBVIOUS
<1>2. DOMAIN r.inflight # {}
  BY DEF Answers
<1>3. ~(m.value < r.inflight.seq)
  BY <1>2 DEF Cur, Answers
<1>9. [session |-> m.session, surface |-> m.surface, seq |-> m.value] = r.inflight
  BY DEF Answers
<1>4. AcceptCursor(r, m) = y
  <2>1. AcceptCursor(r, m) = CASE m.value < r.inflight.seq -> r
             [] [session |-> m.session, surface |-> m.surface, seq |-> m.value] = r.inflight -> y
             [] OTHER -> Fail(r, "acknowledgement mismatch")
    BY <1>1, <1>2, ZenonT(60) DEF AcceptCursor
  <2> QED
    BY <1>3, <1>9, <2>1
<1>5. IsRelay(x) /\ x.inflight = Empty
  BY <1>0, <1>1 DEF IsRelay, IsMap, Fields
<1>6. \A k \in Fields \ {"inflight"} : x[k] = r[k]
  BY <1>0, <1>1 DEF IsRelay, IsMap
<1>7. DOMAIN x.inflight = {}
  BY <1>5 DEF Empty
<1>8. Cur(G, x)
  BY <1>5, <1>6, <1>7 DEF Cur, Fields
<1> QED
  BY <1>1, <1>4, <1>5, <1>8, SendNextCursorSays, SaidCarried DEF Cur

LEMMA AcceptSays ==
  ASSUME NEW u, NEW r, Settled(u, r), Up(r), NEW G, Cur(G, r), NEW m, m.kind = "ack" => Fresh(r, m.session, m.surface, m.value)
  PROVE  LET x == Accept(r, m) IN Says(G, r, x) /\ Honest(x)
<1>1. Solid(G, r) /\ Shape(r)
  BY SettledSolid DEF Settled, Told
<1>2. CASE m.kind = "ack"
  <2>1. Accept(r, m) = AcceptCursor(r, m)
    BY <1>2 DEF Accept
  <2> QED
    BY <1>1, <1>2, <2>1, AckSays DEF Honest, Up
<1>3. CASE m.kind # "ack" /\ Target(r, m) \notin DOMAIN r.mappings
  <2>1. Accept(r, m) = r
    BY <1>3 DEF Accept
  <2> QED
    BY <2>1, SelfSays DEF Honest, Up
<1>4. CASE m.kind # "ack" /\ Target(r, m) \in DOMAIN r.mappings
  <2>1. Accept(r, m) = IF r.mappings[Target(r, m)] # m.session THEN Fail(r, "crossed") ELSE AcceptRouted(r, m)
    BY <1>4 DEF Accept
  <2>2. "crossed" # None
    BY DEF None
  <2>3. Says(G, r, Fail(r, "crossed")) /\ Honest(Fail(r, "crossed"))
    BY <1>1, <2>2, FailSays DEF Honest
  <2>4. m.kind # "focus" => m.surface \in DOMAIN r.mappings
    BY <1>4 DEF Target
  <2>5. Keeps(u, r, AcceptRouted(r, m)) /\ Says(G, r, AcceptRouted(r, m))
    BY <2>4, RoutedMoves, RoutedSays
  <2>6. Honest(AcceptRouted(r, m))
    BY <2>5 DEF Keeps, Moves, SameFlags, Up, Honest
  <2> QED
    BY <2>1, <2>3, <2>5, <2>6
<1> QED
  BY <1>2, <1>3, <1>4

LEMMA ConnectSays ==
  ASSUME NEW u, NEW r, Settled(u, r), Up(r), Cur(u.gone, r)
  PROVE  Says(u.gone, r, Connect(r))
<1>0. IsRelay(r) /\ Shape(r)
  BY DEF Settled, Told, Shape
<1>1. PICK a : a = [r EXCEPT !.connected = TRUE, !.effects = Append(@, Effect("connected", None))]
  OBVIOUS
<1>2. PICK told : told = IF r.ready /\ ~r.connected THEN a ELSE r
  OBVIOUS
<1>3. PICK b, q : b = [told EXCEPT !.admitting = TRUE] /\ q = SetToSeq(DOMAIN r.cache)
  OBVIOUS
<1>4. Connect(r) \in {told, AdmitEach(b, q)}
  BY <1>1, <1>2, <1>3 DEF Connect
<1>5. Settled(u, told) /\ Up(told) /\ IsRelay(told) /\ Says(u.gone, r, told)
  <2>1. PICK e : e = Effect("connected", None)
    OBVIOUS
  <2>2. a = [r EXCEPT !.connected = TRUE, !.effects = Append(r.effects, e)] /\ e.kind # "scale"
    BY <1>1, <2>1 DEF Effect
  <2>3. IsRelay(a) /\ a.effects = Append(r.effects, e)
    BY <1>0, <2>2 DEF IsRelay, IsMap, Fields
  <2>4. \A k \in Fields \ {"connected", "effects"} : a[k] = r[k]
    BY <1>0, <2>2 DEF IsRelay, IsMap, Fields
  <2>5. SameFlags(r, a) /\ LedgerOk(a.ledger) /\ \A k \in {"mappings", "cache", "claims", "updates"} : a[k] = r[k]
    BY <1>0, <2>4 DEF SameFlags, Fields, Shape
  <2>6. Keeps(u, r, a)
    BY <2>2, <2>3, <2>5, EffectMoves
  <2>7. \A k \in {"sent", "mappings", "nextCursor", "inflight", "cursors", "cache"} : a[k] = r[k]
    BY <2>4 DEF Fields
  <2>8. Says(u.gone, r, a) /\ Says(u.gone, r, r)
    BY <2>3, <2>7, OtherSays, SelfSays
  <2>9. Settled(u, a) /\ Up(a)
    BY <2>6 DEF Keeps, Moves, SameFlags, Up
  <2> QED
    BY <1>0, <1>2, <2>3, <2>8, <2>9
<1>6. IsRelay(b) /\ \A k \in Fields \ {"admitting"} : b[k] = told[k]
  BY <1>3, <1>5 DEF IsRelay, IsMap, Fields
<1>7. Settled(u, b) /\ Up(b)
  <2>1. /\ b.failed = told.failed /\ b.mappings = told.mappings /\ b.cache = told.cache /\ b.claims = told.claims
        /\ b.updates = told.updates /\ b.effects = told.effects /\ b.ledger = told.ledger
    BY <1>6 DEF Fields
  <2>2. Up(b) <=> Up(told)
    BY <2>1 DEF Up
  <2>3. Shape(b)
    BY <1>5, <1>6, <2>1 DEF Settled, Told, Shape
  <2> QED
    BY <1>5, <2>1, <2>2, <2>3 DEF Settled, Told
<1>8. Says(u.gone, told, b)
  <2>1. Cur(u.gone, told)
    BY <1>5 DEF Says
  <2>2. \A k \in {"sent", "mappings", "nextCursor", "inflight", "cursors", "cache"} : b[k] = told[k]
    BY <1>6 DEF Fields
  <2> QED
    BY <1>6, <2>1, <2>2, OtherSays
<1>9. IsSeq(q)
  <2>1. IsFiniteSet(DOMAIN r.cache)
    BY <1>0, LinkAssumption, FS_Subset DEF Shape, CacheOk
  <2> QED
    BY <1>3, <2>1, Listed
<1>10. Says(u.gone, b, AdmitEach(b, q))
  BY <1>7, <1>8, <1>9, AdmitEachSays DEF Says
<1>11. Says(u.gone, r, b)
  BY <1>5, <1>8, SaysTrans
<1>12. Says(u.gone, r, AdmitEach(b, q))
  BY <1>10, <1>11, SaysTrans
<1> QED
  BY <1>4, <1>5, <1>12

-----------------------------------------------------------------------------
(* The port: what waits for a surface stays right for its session.         *)

Waits(a, s, e) ==
  /\ e.surface = s /\ e.session = a[s] /\ e.kind \in {"role", "commit", "destroyed"}
  /\ e.kind = "role" => e.value # "layer"

\* The events w wait for the surface s; the end of the surface is the last of them.
Behind(a, m, w, s) ==
  /\ IsSeq(w) /\ (Len(w) # 0 => s \in DOMAIN a)
  /\ \A i \in 1 .. Len(w) : Waits(a, s, w[i]) /\ (w[i].kind = "destroyed" => i = Len(w) /\ s \notin DOMAIN m)

\* The destination will know the sessions a, the source has the mappings m: they
\* differ in gone surfaces, whose end waits in the port.
Agrees(G, a, m, h) ==
  /\ h = [s \in Surfaces |-> h[s]]
  /\ \A s \in DOMAIN m : s \in DOMAIN a /\ a[s] = m[s]
  /\ \A s \in DOMAIN a \ DOMAIN m : s \in G /\ s \in Surfaces /\ Len(h[s]) # 0 /\ h[s][Len(h[s])].kind = "destroyed"
  /\ \A s \in Surfaces : Behind(a, m, h[s], s)

LEMMA AgreesMore ==
  ASSUME NEW G, NEW H, G \subseteq H, NEW a, NEW m, NEW h, Agrees(G, a, m, h)
  PROVE  Agrees(H, a, m, h)
BY DEF Agrees

LEMMA AgreesWaits ==
  ASSUME NEW G, NEW a, NEW m, NEW h, Agrees(G, a, m, h), NEW e, NEW n, Legal(m, e, n),
         e.surface \in Surfaces, e.kind = "destroyed" => e.surface \in G, e.kind \in {"role", "commit", "destroyed"}
  PROVE  Agrees(G, a, n, [h EXCEPT ![e.surface] = Append(@, e)])
<1>1. PICK s : s = e.surface
  OBVIOUS
<1>2. PICK w : w = h[s]
  OBVIOUS
<1>3. PICK v : v = Append(w, e)
  OBVIOUS
<1>4. IsSeq(w) /\ Behind(a, m, w, s) /\ s \in Surfaces
  BY <1>1, <1>2 DEF Agrees, Behind
<1>5. Len(w) \in Nat
  BY <1>4, SeqFacts
<1>6. IsSeq(v) /\ Len(v) = Len(w) + 1 /\ v[Len(w) + 1] = e /\ \A i \in 1 .. Len(w) : v[i] = w[i]
  BY <1>3, <1>4, AppendFacts
<1>7. s \in DOMAIN m /\ m[s] = e.session /\ DOMAIN n \subseteq DOMAIN m /\ (\A t \in DOMAIN n : n[t] = m[t])
  <2>1. CASE e.kind = "destroyed"
    <3>1. DOMAIN Without(m, {s}) = DOMAIN m \ {s} /\ \A t \in DOMAIN m \ {s} : Without(m, {s})[t] = m[t]
      BY WithoutMap
    <3> QED
      BY <1>1, <2>1, <3>1 DEF Legal
  <2>2. CASE e.kind # "destroyed"
    BY <1>1, <2>2 DEF Legal
  <2> QED
    BY <2>1, <2>2
<1>8. /\ e.kind = "destroyed" => DOMAIN n = DOMAIN m \ {s}
      /\ e.kind # "destroyed" => DOMAIN n = DOMAIN m
  <2>1. DOMAIN Without(m, {s}) = DOMAIN m \ {s}
    BY WithoutMap
  <2> QED
    BY <1>1, <2>1 DEF Legal
<1>9. s \in DOMAIN a /\ a[s] = e.session
  BY <1>7 DEF Agrees
<1>10. Waits(a, s, e)
  BY <1>1, <1>9 DEF Waits, Legal
<1>11. Behind(a, n, v, s)
  <2>1. ASSUME NEW i \in 1 .. Len(v)
        PROVE  Waits(a, s, v[i]) /\ (v[i].kind = "destroyed" => i = Len(v) /\ s \notin DOMAIN n)
    <3>1. CASE i = Len(v)
      BY <1>5, <1>6, <1>8, <1>10, <3>1
    <3>2. CASE i # Len(v)
      <4>1. i \in 1 .. Len(w) /\ v[i] = w[i]
        BY <1>5, <1>6, <3>2
      <4> QED
        BY <1>4, <1>7, <4>1 DEF Behind
    <3> QED
      BY <3>1, <3>2
  <2> QED
    BY <1>6, <1>9, <2>1 DEF Behind
<1>12. PICK g : g = [h EXCEPT ![s] = Append(@, e)]
  OBVIOUS
<1>13. g = [t \in Surfaces |-> g[t]] /\ g[s] = v /\ \A t \in Surfaces \ {s} : g[t] = h[t]
  BY <1>2, <1>3, <1>4, <1>12 DEF Agrees
<1>14. ASSUME NEW t \in Surfaces PROVE Behind(a, n, g[t], t)
  <2>1. CASE t = s
    BY <1>11, <1>13, <2>1
  <2>2. CASE t # s
    <3>1. g[t] = h[t] /\ Behind(a, m, h[t], t)
      BY <1>13, <2>2 DEF Agrees
    <3> QED
      BY <1>7, <3>1 DEF Behind
  <2> QED
    BY <2>1, <2>2
<1>15. ASSUME NEW t \in DOMAIN a \ DOMAIN n
       PROVE  t \in G /\ t \in Surfaces /\ Len(g[t]) # 0 /\ g[t][Len(g[t])].kind = "destroyed"
  <2>1. CASE t = s
    BY <1>1, <1>4, <1>5, <1>6, <1>7, <1>8, <1>13, <2>1
  <2>2. CASE t # s
    <3>1. t \in DOMAIN a \ DOMAIN m
      BY <1>8, <2>2
    <3>2. t \in Surfaces /\ t \in G /\ Len(h[t]) # 0 /\ h[t][Len(h[t])].kind = "destroyed"
      BY <3>1 DEF Agrees
    <3> QED
      BY <1>13, <2>2, <3>2
  <2> QED
    BY <2>1, <2>2
<1>16. \A t \in DOMAIN n : t \in DOMAIN a /\ a[t] = n[t]
  BY <1>7 DEF Agrees
<1> QED
  BY <1>1, <1>12, <1>13, <1>14, <1>15, <1>16 DEF Agrees

AllSent(h) == \A s \in Surfaces : Len(h[s]) = 0

LEMMA AgreesPasses ==
  ASSUME NEW G, NEW a, NEW m, NEW h, Agrees(G, a, m, h), NEW e, NEW n, Legal(m, e, n),
         e.surface \in Surfaces, e.kind = "mapped" => e.surface \notin G,
         e.kind \in {"mapped", "withdraw", "cursor"} \/ AllSent(h)
  PROVE  \E c : /\ Legal(a, e, c)
                /\ Agrees(G, c, n, IF e.kind = "withdraw" THEN [h EXCEPT ![e.surface] = <<>>] ELSE h)
<1>1. PICK s : s = e.surface
  OBVIOUS
<1>2. s \in Surfaces
  BY <1>1
<1>3. CASE e.kind = "mapped"
  <2>1. s \notin DOMAIN m /\ n = Put(m, s, e.session)
    BY <1>1, <1>3 DEF Legal
  <2>2. s \notin DOMAIN a
    BY <1>1, <1>3, <2>1 DEF Agrees
  <2>3. PICK c : c = Put(a, s, e.session)
    OBVIOUS
  <2>4. Legal(a, e, c)
    BY <1>1, <1>3, <2>2, <2>3 DEF Legal
  <2>5. DOMAIN c = DOMAIN a \union {s} /\ c[s] = e.session /\ \A t \in DOMAIN a : c[t] = a[t]
    <3>1. DOMAIN c = DOMAIN a \union {s} /\ c[s] = e.session /\ \A t \in DOMAIN a \ {s} : c[t] = a[t]
      BY <2>3 DEF Put
    <3> QED
      BY <2>2, <3>1
  <2>6. DOMAIN n = DOMAIN m \union {s} /\ n[s] = e.session /\ \A t \in DOMAIN m : n[t] = m[t]
    <3>1. DOMAIN n = DOMAIN m \union {s} /\ n[s] = e.session /\ \A t \in DOMAIN m \ {s} : n[t] = m[t]
      BY <2>1 DEF Put
    <3> QED
      BY <2>1, <3>1
  <2>7. ASSUME NEW t \in Surfaces PROVE Behind(c, n, h[t], t)
    <3>1. Behind(a, m, h[t], t)
      BY DEF Agrees
    <3>2. CASE t = s
      <4>1. Len(h[t]) = 0
        BY <2>2, <3>1, <3>2 DEF Behind
      <4>2. 1 .. Len(h[t]) = {}
        BY <4>1
      <4> QED
        BY <3>1, <4>1, <4>2 DEF Behind
    <3>3. CASE t # s
      BY <2>5, <2>6, <3>1, <3>3 DEF Behind, Waits
    <3> QED
      BY <3>2, <3>3
  <2>8. \A t \in DOMAIN c \ DOMAIN n : t \in G /\ t \in Surfaces /\ Len(h[t]) # 0 /\ h[t][Len(h[t])].kind = "destroyed"
    BY <2>5, <2>6 DEF Agrees
  <2>9. \A t \in DOMAIN n : t \in DOMAIN c /\ c[t] = n[t]
    BY <2>5, <2>6 DEF Agrees
  <2>10. Agrees(G, c, n, h)
    BY <2>7, <2>8, <2>9 DEF Agrees
  <2> QED
    BY <1>3, <2>4, <2>10
<1>4. CASE e.kind = "withdraw"
  <2>1. n = Without(m, {s})
    BY <1>1, <1>4 DEF Legal
  <2>2. PICK c : c = Without(a, {s})
    OBVIOUS
  <2>3. Legal(a, e, c)
    BY <1>1, <1>4, <2>2 DEF Legal
  <2>4. DOMAIN c = DOMAIN a \ {s} /\ \A t \in DOMAIN a \ {s} : c[t] = a[t]
    BY <2>2, WithoutMap
  <2>5. DOMAIN n = DOMAIN m \ {s} /\ \A t \in DOMAIN m \ {s} : n[t] = m[t]
    BY <2>1, WithoutMap
  <2>6. PICK g : g = [h EXCEPT ![s] = <<>>]
    OBVIOUS
  <2>7. g = [t \in Surfaces |-> g[t]] /\ g[s] = <<>> /\ \A t \in Surfaces \ {s} : g[t] = h[t]
    BY <1>2, <2>6 DEF Agrees
  <2>8. ASSUME NEW t \in Surfaces PROVE Behind(c, n, g[t], t)
    <3>1. Behind(a, m, h[t], t)
      BY DEF Agrees
    <3>2. CASE t = s
      <4>1. IsSeq(<<>>) /\ Len(<<>>) = 0 /\ 1 .. Len(<<>>) = {}
        BY NilFacts
      <4> QED
        BY <2>7, <3>2, <4>1 DEF Behind
    <3>3. CASE t # s
      <4>1. g[t] = h[t]
        BY <2>7, <3>3
      <4> QED
        BY <2>4, <2>5, <3>1, <3>3, <4>1 DEF Behind, Waits
    <3> QED
      BY <3>2, <3>3
  <2>9. ASSUME NEW t \in DOMAIN c \ DOMAIN n
        PROVE  t \in G /\ t \in Surfaces /\ Len(g[t]) # 0 /\ g[t][Len(g[t])].kind = "destroyed"
    <3>1. t \in DOMAIN a \ DOMAIN m /\ t # s
      BY <2>4, <2>5
    <3>2. t \in G /\ t \in Surfaces /\ Len(h[t]) # 0 /\ h[t][Len(h[t])].kind = "destroyed"
      BY <3>1 DEF Agrees
    <3>3. g[t] = h[t]
      BY <2>7, <3>1, <3>2
    <3> QED
      BY <3>2, <3>3
  <2>10. \A t \in DOMAIN n : t \in DOMAIN c /\ c[t] = n[t]
    BY <2>4, <2>5 DEF Agrees
  <2>11. Agrees(G, c, n, g)
    BY <2>7, <2>8, <2>9, <2>10 DEF Agrees
  <2> QED
    BY <1>1, <1>4, <2>3, <2>6, <2>11
<1>5. CASE e.kind \in {"cursor", "role", "commit"}
  <2>1. n = m /\ s \in DOMAIN m /\ m[s] = e.session
    BY <1>1, <1>5 DEF Legal
  <2>2. s \in DOMAIN a /\ a[s] = e.session
    BY <2>1 DEF Agrees
  <2>3. Legal(a, e, a)
    BY <1>1, <1>5, <2>2 DEF Legal
  <2> QED
    BY <1>5, <2>1, <2>3
<1>6. CASE e.kind = "destroyed"
  <2>1. n = Without(m, {s}) /\ s \in DOMAIN m /\ m[s] = e.session /\ AllSent(h)
    BY <1>1, <1>6 DEF Legal
  <2>2. PICK c : c = Without(a, {s})
    OBVIOUS
  <2>3. s \in DOMAIN a /\ a[s] = e.session
    BY <2>1 DEF Agrees
  <2>4. Legal(a, e, c)
    BY <1>1, <1>6, <2>2, <2>3 DEF Legal
  <2>5. DOMAIN c = DOMAIN a \ {s} /\ \A t \in DOMAIN a \ {s} : c[t] = a[t]
    BY <2>2, WithoutMap
  <2>6. DOMAIN n = DOMAIN m \ {s} /\ \A t \in DOMAIN m \ {s} : n[t] = m[t]
    BY <2>1, WithoutMap
  <2>7. ASSUME NEW t \in Surfaces PROVE Behind(c, n, h[t], t)
    <3>1. IsSeq(h[t]) /\ Len(h[t]) = 0
      BY <2>1 DEF Agrees, Behind, AllSent
    <3>2. 1 .. Len(h[t]) = {}
      BY <3>1
    <3> QED
      BY <3>1, <3>2 DEF Behind
  <2>8. \A t \in DOMAIN n : t \in DOMAIN c /\ c[t] = n[t]
    BY <2>5, <2>6 DEF Agrees
  <2>9. DOMAIN a \subseteq DOMAIN m
    BY <2>1 DEF Agrees, AllSent
  <2>10. DOMAIN c \ DOMAIN n = {}
    BY <2>5, <2>6, <2>9
  <2>11. Agrees(G, c, n, h)
    BY <2>7, <2>8, <2>10 DEF Agrees
  <2> QED
    BY <1>6, <2>4, <2>11
<1> QED
  BY <1>3, <1>4, <1>5, <1>6 DEF Legal

\* The head of what waits for a surface is sent.
LEMMA AgreesSends ==
  ASSUME NEW G, NEW a, NEW m, NEW h, Agrees(G, a, m, h), NEW s \in Surfaces, Len(h[s]) # 0
  PROVE  \E c : Legal(a, Head(h[s]), c) /\ Agrees(G, c, m, [h EXCEPT ![s] = Tail(@)])
<1>1. PICK w : w = h[s]
  OBVIOUS
<1>2. PICK e : e = Head(w)
  OBVIOUS
<1>3. PICK v : v = Tail(w)
  OBVIOUS
<1>4. IsSeq(w) /\ Behind(a, m, w, s) /\ Len(w) # 0
  BY <1>1 DEF Agrees, Behind
<1>5. Len(w) \in Nat /\ Len(w) >= 1
  BY <1>4, SeqFacts
<1>6. e = w[1] /\ IsSeq(v) /\ Len(v) = Len(w) - 1 /\ \A i \in 1 .. Len(v) : v[i] = w[i + 1]
  <2>1. PICK E : w \in Seq(E)
    BY <1>4 DEF IsSeq
  <2>2. w # <<>>
    BY <1>4
  <2>3. v \in Seq(E) /\ Len(v) = Len(w) - 1 /\ e = w[1]
    BY <1>2, <1>3, <2>1, <2>2
  <2>4. \A i \in 1 .. Len(v) : v[i] = w[i + 1]
    BY <1>3, <2>1, <2>2
  <2> QED
    BY <2>3, <2>4 DEF IsSeq
<1>7. s \in DOMAIN a /\ Waits(a, s, e) /\ (e.kind = "destroyed" => Len(w) = 1 /\ s \notin DOMAIN m)
  BY <1>4, <1>5, <1>6 DEF Behind
<1>8. PICK g : g = [h EXCEPT ![s] = Tail(@)]
  OBVIOUS
<1>9. g = [t \in Surfaces |-> g[t]] /\ g[s] = v /\ \A t \in Surfaces \ {s} : g[t] = h[t]
  BY <1>1, <1>3, <1>8 DEF Agrees
<1>10. CASE e.kind = "destroyed"
  <2>1. PICK c : c = Without(a, {s})
    OBVIOUS
  <2>2. Legal(a, e, c)
    BY <1>7, <1>10, <2>1 DEF Legal, Waits
  <2>3. DOMAIN c = DOMAIN a \ {s} /\ \A t \in DOMAIN a \ {s} : c[t] = a[t]
    BY <2>1, WithoutMap
  <2>4. ASSUME NEW t \in Surfaces PROVE Behind(c, m, g[t], t)
    <3>1. CASE t = s
      <4>1. g[t] = v /\ Len(v) = 0 /\ 1 .. Len(v) = {}
        <5>1. Len(w) = 1
          BY <1>7, <1>10
        <5>2. Len(v) = 0
          BY <1>6, <5>1
        <5> QED
          BY <1>9, <3>1, <5>2
      <4> QED
        BY <1>6, <4>1 DEF Behind
    <3>2. CASE t # s
      <4>1. g[t] = h[t] /\ Behind(a, m, h[t], t)
        BY <1>9, <3>2 DEF Agrees
      <4> QED
        BY <2>3, <3>2, <4>1 DEF Behind, Waits
    <3> QED
      BY <3>1, <3>2
  <2>5. ASSUME NEW t \in DOMAIN c \ DOMAIN m
        PROVE  t \in G /\ t \in Surfaces /\ Len(g[t]) # 0 /\ g[t][Len(g[t])].kind = "destroyed"
    <3>1. t \in DOMAIN a \ DOMAIN m /\ t # s
      BY <2>3
    <3>2. t \in G /\ t \in Surfaces /\ Len(h[t]) # 0 /\ h[t][Len(h[t])].kind = "destroyed"
      BY <3>1 DEF Agrees
    <3>3. g[t] = h[t]
      BY <1>9, <3>1, <3>2
    <3> QED
      BY <3>2, <3>3
  <2>6. \A t \in DOMAIN m : t \in DOMAIN c /\ c[t] = m[t]
    BY <1>7, <1>10, <2>3 DEF Agrees
  <2>7. Agrees(G, c, m, g)
    BY <1>9, <2>4, <2>5, <2>6 DEF Agrees
  <2> QED
    BY <1>1, <1>2, <1>8, <2>2, <2>7
<1>11. CASE e.kind # "destroyed"
  <2>1. Legal(a, e, a)
    BY <1>7, <1>11 DEF Legal, Waits
  <2>2. ASSUME NEW t \in Surfaces PROVE Behind(a, m, g[t], t)
    <3>1. CASE t = s
      <4>1. ASSUME NEW i \in 1 .. Len(v)
            PROVE  Waits(a, s, v[i]) /\ (v[i].kind = "destroyed" => i = Len(v) /\ s \notin DOMAIN m)
        <5>1. i + 1 \in 1 .. Len(w) /\ v[i] = w[i + 1] /\ (i + 1 = Len(w) => i = Len(v))
          BY <1>5, <1>6
        <5>2. Waits(a, s, w[i + 1]) /\ (w[i + 1].kind = "destroyed" => i + 1 = Len(w) /\ s \notin DOMAIN m)
          BY <1>4, <5>1 DEF Behind
        <5> QED
          BY <5>1, <5>2
      <4> QED
        BY <1>6, <1>7, <1>9, <3>1, <4>1 DEF Behind
    <3>2. CASE t # s
      BY <1>9, <3>2 DEF Agrees
    <3> QED
      BY <3>1, <3>2
  <2>3. ASSUME NEW t \in DOMAIN a \ DOMAIN m
        PROVE  t \in G /\ t \in Surfaces /\ Len(g[t]) # 0 /\ g[t][Len(g[t])].kind = "destroyed"
    <3>1. t \in G /\ t \in Surfaces /\ Len(h[t]) # 0 /\ h[t][Len(h[t])].kind = "destroyed"
      BY DEF Agrees
    <3>2. CASE t = s
      <4>1. Len(w) # 1 /\ w[Len(w)].kind = "destroyed"
        BY <1>1, <1>6, <1>11, <3>1, <3>2
      <4>2. Len(v) \in 1 .. Len(v) /\ Len(v) + 1 = Len(w) /\ Len(v) # 0
        BY <1>5, <1>6, <4>1
      <4>3. v[Len(v)] = w[Len(v) + 1]
        BY <1>6, <4>2
      <4> QED
        BY <1>9, <3>1, <3>2, <4>1, <4>2, <4>3
    <3>3. CASE t # s
      BY <1>9, <3>1, <3>3
    <3> QED
      BY <3>2, <3>3
  <2>4. Agrees(G, a, m, g)
    BY <1>9, <2>2, <2>3 DEF Agrees
  <2> QED
    BY <1>1, <1>2, <1>8, <2>1, <2>4
<1> QED
  BY <1>10, <1>11

\* The port p, for a source x.
PortOk(x, p) ==
  /\ p = [lane |-> p.lane, held |-> p.held] /\ IsSeq(p.lane) /\ p.held = [s \in Surfaces |-> p.held[s]]
  /\ \A i \in 1 .. Len(p.lane) :
       p.lane[i].kind = "cursor" => Fresh(x, p.lane[i].session, p.lane[i].surface, p.lane[i].value.seq)
  /\ \A s \in Surfaces : IsSeq(p.held[s]) /\ \A i \in 1 .. Len(p.held[s]) : p.held[s][i].kind # "cursor"
  /\ ~budget.encoded => AllSent(p.held)

\* The lane brings a destination with the sessions b to sessions that agree.
Routes(G, b, m, p) == \E a : Path(b, p.lane, a) /\ Agrees(G, a, m, p.held)

LEMMA PortOkAfter ==
  ASSUME NEW r, NEW x, FreshAfter(r, x), NEW p, PortOk(r, p)
  PROVE  PortOk(x, p)
BY DEF PortOk, FreshAfter

LEMMA RoutesMore ==
  ASSUME NEW G, NEW H, G \subseteq H, NEW b, NEW m, NEW p, Routes(G, b, m, p)
  PROVE  Routes(H, b, m, p)
BY AgreesMore DEF Routes

LEMMA LaneAppend ==
  ASSUME NEW x, NEW l, IsSeq(l), NEW e, e.kind = "cursor" => Fresh(x, e.session, e.surface, e.value.seq),
         \A i \in 1 .. Len(l) : l[i].kind = "cursor" => Fresh(x, l[i].session, l[i].surface, l[i].value.seq)
  PROVE  LET k == Append(l, e)
         IN IsSeq(k) /\ \A i \in 1 .. Len(k) : k[i].kind = "cursor" => Fresh(x, k[i].session, k[i].surface, k[i].value.seq)
<1>1. PICK k : k = Append(l, e)
  OBVIOUS
<1>2. IsSeq(k) /\ Len(k) = Len(l) + 1 /\ k[Len(l) + 1] = e /\ (\A i \in 1 .. Len(l) : k[i] = l[i]) /\ Len(l) \in Nat
  <2>1. Len(l) \in Nat
    BY SeqFacts
  <2>2. IsSeq(k) /\ Len(k) = Len(l) + 1 /\ k[Len(l) + 1] = e /\ \A i \in 1 .. Len(l) : k[i] = l[i]
    BY <1>1, AppendFacts
  <2> QED
    BY <2>1, <2>2
<1>3. ASSUME NEW i \in 1 .. Len(k), k[i].kind = "cursor" PROVE Fresh(x, k[i].session, k[i].surface, k[i].value.seq)
  <2>1. CASE i = Len(l) + 1
    BY <1>2, <1>3, <2>1
  <2>2. CASE i # Len(l) + 1
    <3>1. i \in 1 .. Len(l) /\ k[i] = l[i]
      BY <1>2, <2>2
    <3> QED
      BY <1>3, <3>1
  <2> QED
    BY <2>1, <2>2
<1> QED
  BY <1>1, <1>2, <1>3

LEMMA HoldOk ==
  ASSUME NEW G, NEW x, NEW p, PortOk(x, p), NEW e, Fair(G, x, e)
  PROVE  PortOk(x, Hold(p, e))
<1>1. PICK l : l = p.lane
  OBVIOUS
<1>2. PICK h : h = p.held
  OBVIOUS
<1>3. PICK s : s = e.surface
  OBVIOUS
<1>4. s \in Surfaces /\ p = [lane |-> l, held |-> h] /\ h = [t \in Surfaces |-> h[t]] /\ IsSeq(l)
  BY <1>1, <1>2, <1>3 DEF PortOk, Fair
<1>5. \A t \in Surfaces : IsSeq(h[t]) /\ \A i \in 1 .. Len(h[t]) : h[t][i].kind # "cursor"
  BY <1>2 DEF PortOk
<1>6. CASE HeldBack(e)
  <2>1. PICK v : v = Append(h[s], e)
    OBVIOUS
  <2>2. PICK g : g = [h EXCEPT ![s] = v]
    OBVIOUS
  <2>3. Hold(p, e) = [lane |-> l, held |-> g]
    BY <1>3, <1>4, <1>6, <2>1, <2>2 DEF Hold
  <2>4. g = [t \in Surfaces |-> g[t]] /\ g[s] = v /\ \A t \in Surfaces \ {s} : g[t] = h[t]
    BY <1>4, <2>2
  <2>5. IsSeq(v) /\ \A i \in 1 .. Len(v) : v[i].kind # "cursor"
    <3>1. PICK w : w = h[s]
      OBVIOUS
    <3>2. IsSeq(w) /\ \A i \in 1 .. Len(w) : w[i].kind # "cursor"
      BY <1>4, <1>5, <3>1
    <3>3. Len(w) \in Nat
      BY <3>2, SeqFacts
    <3>4. IsSeq(v) /\ Len(v) = Len(w) + 1 /\ v[Len(w) + 1] = e /\ (\A i \in 1 .. Len(w) : v[i] = w[i])
      <4>1. v = Append(w, e) /\ IsSeq(w)
        BY <2>1, <3>1, <3>2
      <4> QED
        BY <4>1, AppendFacts
    <3>5. e.kind # "cursor"
      BY <1>6 DEF HeldBack
    <3>6. ASSUME NEW i \in 1 .. Len(v) PROVE v[i].kind # "cursor"
      <4>1. CASE i = Len(w) + 1
        BY <3>4, <3>5, <4>1
      <4>2. CASE i # Len(w) + 1
        BY <3>2, <3>3, <3>4, <4>2
      <4> QED
        BY <4>1, <4>2
    <3> QED
      BY <3>4, <3>6
  <2>6. \A t \in Surfaces : IsSeq(g[t]) /\ \A i \in 1 .. Len(g[t]) : g[t][i].kind # "cursor"
    BY <1>5, <2>4, <2>5
  <2>7. budget.encoded
    BY <1>6 DEF HeldBack
  <2> QED
    BY <1>1, <1>4, <2>3, <2>4, <2>6, <2>7 DEF PortOk
<1>7. CASE ~HeldBack(e)
  <2>1. PICK g : g = IF e.kind = "withdraw" THEN [h EXCEPT ![s] = <<>>] ELSE h
    OBVIOUS
  <2>2. PICK k : k = Append(l, e)
    OBVIOUS
  <2>3. Hold(p, e) = [lane |-> k, held |-> g]
    BY <1>1, <1>2, <1>3, <1>7, <2>1, <2>2 DEF Hold
  <2>4. IsSeq(k) /\ \A i \in 1 .. Len(k) : k[i].kind = "cursor" => Fresh(x, k[i].session, k[i].surface, k[i].value.seq)
    BY <1>1, <1>4, <2>2, LaneAppend DEF PortOk, Fair
  <2>5. g = [t \in Surfaces |-> g[t]] /\ \A t \in Surfaces : g[t] = h[t] \/ g[t] = <<>>
    BY <1>4, <2>1
  <2>6. IsSeq(<<>>) /\ Len(<<>>) = 0 /\ 1 .. Len(<<>>) = {}
    BY NilFacts
  <2>7. ASSUME NEW t \in Surfaces PROVE IsSeq(g[t]) /\ \A i \in 1 .. Len(g[t]) : g[t][i].kind # "cursor"
    BY <1>5, <2>5, <2>6
  <2>8. ~budget.encoded => AllSent(g)
    BY <1>2, <2>5, <2>6 DEF PortOk, AllSent
  <2> QED
    BY <2>3, <2>4, <2>5, <2>7, <2>8 DEF PortOk
<1> QED
  BY <1>6, <1>7

LEMMA HoldRoutes ==
  ASSUME NEW G, NEW x, NEW p, PortOk(x, p), NEW e, Fair(G, x, e), NEW b, NEW m, NEW n,
         Routes(G, b, m, p), Legal(m, e, n)
  PROVE  Routes(G, b, n, Hold(p, e))
<1>1. PICK l : l = p.lane
  OBVIOUS
<1>2. PICK h : h = p.held
  OBVIOUS
<1>3. PICK a : Path(b, l, a) /\ Agrees(G, a, m, h)
  BY <1>1, <1>2 DEF Routes
<1>4. e.surface \in Surfaces /\ p = [lane |-> l, held |-> h] /\ IsSeq(l)
  BY <1>1, <1>2 DEF PortOk, Fair
<1>5. CASE HeldBack(e)
  <2>1. e.kind \in {"role", "commit", "destroyed"} /\ (e.kind = "destroyed" => e.surface \in G)
    BY <1>5 DEF HeldBack, Fair
  <2>2. PICK g : g = [h EXCEPT ![e.surface] = Append(@, e)]
    OBVIOUS
  <2>3. Hold(p, e) = [lane |-> l, held |-> g]
    BY <1>4, <1>5, <2>2 DEF Hold
  <2>4. Agrees(G, a, n, g)
    BY <1>3, <1>4, <2>1, <2>2, AgreesWaits
  <2> QED
    BY <1>3, <2>3, <2>4 DEF Routes
<1>6. CASE ~HeldBack(e)
  <2>1. e.kind \in {"mapped", "withdraw", "cursor"} \/ AllSent(h)
    BY <1>2, <1>6 DEF HeldBack, Legal, PortOk
  <2>2. PICK g : g = IF e.kind = "withdraw" THEN [h EXCEPT ![e.surface] = <<>>] ELSE h
    OBVIOUS
  <2>3. Hold(p, e) = [lane |-> Append(l, e), held |-> g]
    BY <1>1, <1>2, <1>6, <2>2 DEF Hold
  <2>4. e.kind = "mapped" => e.surface \notin G
    BY DEF Fair
  <2>5. PICK c : Legal(a, e, c) /\ Agrees(G, c, n, g)
    BY <1>3, <1>4, <2>1, <2>2, <2>4, AgreesPasses
  <2>6. Path(b, Append(l, e), c)
    BY <1>3, <1>4, <2>5, PathAppend
  <2> QED
    BY <2>3, <2>5, <2>6 DEF Routes
<1> QED
  BY <1>5, <1>6

HeldRun(f, u, q) == f[0] = u /\ \A n \in 1 .. Len(q) : f[n] = Hold(f[n - 1], q[n])
HeldDef(f, N, u, q) == f = [n \in 0 .. N |-> IF n = 0 THEN u ELSE Hold(f[n - 1], q[n])]

LEMMA HeldRunExists ==
  ASSUME NEW u, NEW q, Len(q) \in Nat
  PROVE  \E f : HeldDef(f, Len(q), u, q)
<1> DEFINE P == {n \in 0 .. Len(q) : \E f : HeldDef(f, n, u, q)}
<1>1. 0 \in P
  <2>1. HeldDef([n \in 0 .. 0 |-> u], 0, u, q)
    BY DEF HeldDef
  <2> QED
    BY <2>1
<1>2. ASSUME NEW n \in 1 .. Len(q), n - 1 \in P
      PROVE  n \in P
  <2>1. PICK f : HeldDef(f, n - 1, u, q)
    BY <1>2
  <2>2. \A m \in 0 .. n - 1 : f[m] = IF m = 0 THEN u ELSE Hold(f[m - 1], q[m])
    BY <2>1 DEF HeldDef
  <2> DEFINE g == [m \in 0 .. n |-> IF m = n THEN Hold(f[n - 1], q[n]) ELSE f[m]]
  <2>3. g[n] = Hold(f[n - 1], q[n]) /\ \A m \in 0 .. n - 1 : g[m] = f[m]
    OBVIOUS
  <2>4. g = [m \in 0 .. n |-> g[m]]
    OBVIOUS
  <2> HIDE DEF g
  <2>5. ASSUME NEW m \in 0 .. n
        PROVE  g[m] = IF m = 0 THEN u ELSE Hold(g[m - 1], q[m])
    <3>1. CASE m = n
      BY <2>3, <3>1
    <3>2. CASE m = 0
      BY <2>2, <2>3, <3>2
    <3>3. CASE m # n /\ m # 0
      <4>1. m \in 0 .. n - 1 /\ m - 1 \in 0 .. n - 1
        BY <3>3
      <4> QED
        BY <2>2, <2>3, <3>3, <4>1
    <3> QED
      BY <3>1, <3>2, <3>3
  <2>6. HeldDef(g, n, u, q)
    BY <2>4, <2>5 DEF HeldDef
  <2> QED
    BY <2>6
<1> HIDE DEF P
<1>3. Inductive(Len(q), P)
  BY <1>1, <1>2 DEF Inductive
<1>4. Len(q) \in P
  BY <1>3, Induct
<1> QED
  BY <1>4 DEF P

LEMMA HeldRuns ==
  ASSUME NEW u, NEW q, Len(q) \in Nat
  PROVE  \E f : HeldRun(f, u, q) /\ HoldEach(u, q) = f[Len(q)]
<1> DEFINE f == CHOOSE g : HeldDef(g, Len(q), u, q)
<1>1. HoldEach(u, q) = f[Len(q)]
  BY DEF HoldEach, HeldDef
<1>2. HeldDef(f, Len(q), u, q)
  BY HeldRunExists
<1> HIDE DEF f
<1>3. \A n \in 0 .. Len(q) : f[n] = IF n = 0 THEN u ELSE Hold(f[n - 1], q[n])
  BY <1>2 DEF HeldDef
<1>4. HeldRun(f, u, q)
  BY <1>3 DEF HeldRun
<1> QED
  BY <1>1, <1>4

LEMMA HoldEachOk ==
  ASSUME NEW G, NEW x, NEW p, PortOk(x, p), NEW q, IsSeq(q), \A i \in 1 .. Len(q) : Fair(G, x, q[i])
  PROVE  PortOk(x, HoldEach(p, q))
<1>1. Len(q) \in Nat
  BY SeqFacts
<1>2. PICK f : HeldRun(f, p, q) /\ HoldEach(p, q) = f[Len(q)]
  BY <1>1, HeldRuns
<1> DEFINE P == {n \in 0 .. Len(q) : PortOk(x, f[n])}
<1>3. 0 \in P
  BY <1>1, <1>2 DEF HeldRun
<1>4. ASSUME NEW n \in 1 .. Len(q), n - 1 \in P PROVE n \in P
  <2>1. f[n] = Hold(f[n - 1], q[n]) /\ PortOk(x, f[n - 1]) /\ Fair(G, x, q[n])
    BY <1>2, <1>4 DEF HeldRun
  <2>2. PortOk(x, f[n])
    BY <2>1, HoldOk
  <2> QED
    BY <1>1, <2>2
<1> HIDE DEF P
<1>5. Inductive(Len(q), P)
  BY <1>1, <1>3, <1>4 DEF Inductive
<1>6. Len(q) \in P
  BY <1>5, Induct
<1> QED
  BY <1>2, <1>6 DEF P

LEMMA HoldEachRoutes ==
  ASSUME NEW G, NEW x, NEW p, PortOk(x, p), NEW q, IsSeq(q), \A i \in 1 .. Len(q) : Fair(G, x, q[i]),
         NEW b, NEW m, NEW k, Routes(G, b, m, p), Path(m, q, k)
  PROVE  Routes(G, b, k, HoldEach(p, q))
<1>1. Len(q) \in Nat
  BY SeqFacts
<1>2. PICK f : HeldRun(f, p, q) /\ HoldEach(p, q) = f[Len(q)]
  BY <1>1, HeldRuns
<1>3. PICK g : PathBy(g, m, q, k)
  BY DEF Path
<1> DEFINE P == {n \in 0 .. Len(q) : PortOk(x, f[n]) /\ Routes(G, b, g[n], f[n])}
<1>4. 0 \in P
  BY <1>1, <1>2, <1>3 DEF HeldRun, PathBy
<1>5. ASSUME NEW n \in 1 .. Len(q), n - 1 \in P PROVE n \in P
  <2>1. f[n] = Hold(f[n - 1], q[n]) /\ PortOk(x, f[n - 1]) /\ Routes(G, b, g[n - 1], f[n - 1]) /\ Fair(G, x, q[n])
    BY <1>2, <1>5 DEF HeldRun
  <2>2. Legal(g[n - 1], q[n], g[n])
    BY <1>3 DEF PathBy
  <2>3. PortOk(x, f[n])
    BY <2>1, HoldOk
  <2>4. Routes(G, b, g[n], f[n])
    BY <2>1, <2>2, HoldRoutes
  <2> QED
    BY <1>1, <2>3, <2>4
<1> HIDE DEF P
<1>6. Inductive(Len(q), P)
  BY <1>1, <1>4, <1>5 DEF Inductive
<1>7. Len(q) \in P
  BY <1>6, Induct
<1>8. Routes(G, b, g[Len(q)], f[Len(q)])
  BY <1>7 DEF P
<1> QED
  BY <1>2, <1>3, <1>8 DEF PathBy

\* The port holds no cursor back.
LEMMA HoldCarries ==
  ASSUME NEW x, NEW p, PortOk(x, p), NEW e, NEW g, CarriedIn(g, p.lane) \/ Carries(g, e)
  PROVE  CarriedIn(g, Hold(p, e).lane)
<1>1. PICK l, h : l = p.lane /\ h = p.held
  OBVIOUS
<1>2. p = [lane |-> l, held |-> h] /\ IsSeq(l)
  BY <1>1 DEF PortOk
<1>3. CASE HeldBack(e)
  <2>1. Hold(p, e).lane = l /\ ~Carries(g, e)
    BY <1>2, <1>3 DEF Hold, HeldBack, Carries
  <2> QED
    BY <1>1, <2>1
<1>4. CASE ~HeldBack(e)
  <2>1. Hold(p, e).lane = Append(l, e)
    BY <1>1, <1>4 DEF Hold
  <2> QED
    BY <1>1, <1>2, <2>1, CarriedAppend
<1> QED
  BY <1>3, <1>4

LEMMA HoldEachCarries ==
  ASSUME NEW G, NEW x, NEW p, PortOk(x, p), NEW q, IsSeq(q), \A i \in 1 .. Len(q) : Fair(G, x, q[i]),
         NEW g, CarriedIn(g, p.lane) \/ CarriedIn(g, q)
  PROVE  CarriedIn(g, HoldEach(p, q).lane)
<1>1. Len(q) \in Nat
  BY SeqFacts
<1>2. PICK f : HeldRun(f, p, q) /\ HoldEach(p, q) = f[Len(q)]
  BY <1>1, HeldRuns
<1> DEFINE P == {n \in 0 .. Len(q) :
                   /\ PortOk(x, f[n])
                   /\ CarriedIn(g, p.lane) \/ (\E i \in 1 .. n : Carries(g, q[i])) => CarriedIn(g, f[n].lane)}
<1>3. 0 \in P
  BY <1>1, <1>2 DEF HeldRun
<1>4. ASSUME NEW n \in 1 .. Len(q), n - 1 \in P PROVE n \in P
  <2>1. f[n] = Hold(f[n - 1], q[n]) /\ PortOk(x, f[n - 1]) /\ Fair(G, x, q[n])
    BY <1>2, <1>4 DEF HeldRun
  <2>2. PortOk(x, f[n])
    BY <2>1, HoldOk
  <2>3. CarriedIn(g, f[n - 1].lane) \/ Carries(g, q[n]) => CarriedIn(g, f[n].lane)
    BY <2>1, HoldCarries
  <2>4. \A i \in 1 .. n : i = n \/ i \in 1 .. n - 1
    BY <1>1
  <2>5. (\E i \in 1 .. n : Carries(g, q[i])) => (\E i \in 1 .. n - 1 : Carries(g, q[i])) \/ Carries(g, q[n])
    BY <2>4
  <2>6. CarriedIn(g, p.lane) \/ (\E i \in 1 .. n - 1 : Carries(g, q[i])) => CarriedIn(g, f[n - 1].lane)
    BY <1>4
  <2> QED
    BY <1>1, <2>2, <2>3, <2>5, <2>6
<1> HIDE DEF P
<1>5. Inductive(Len(q), P)
  BY <1>1, <1>3, <1>4 DEF Inductive
<1>6. Len(q) \in P
  BY <1>5, Induct
<1> QED
  BY <1>2, <1>6 DEF P, CarriedIn

-----------------------------------------------------------------------------
(* The destination: it applies the records, and acknowledges cursors.      *)

AckFresh(x, m) == m.kind = "ack" => Fresh(x, m.session, m.surface, m.value)
Acks(x, q) == IsSeq(q) /\ \A i \in 1 .. Len(q) : AckFresh(x, q[i])

DstFields == {"failed", "sessions", "roles", "ledger", "updates", "events", "sent"}
IsDst(d) == IsMap(d) /\ DOMAIN d = DstFields
DstOk(x, d) == IsDst(d) /\ LedgerOk(d.ledger) /\ Acks(x, d.sent)

LEMMA AcksAppend ==
  ASSUME NEW x, NEW q, Acks(x, q), NEW m, AckFresh(x, m)
  PROVE  Acks(x, Append(q, m))
<1>1. PICK k : k = Append(q, m)
  OBVIOUS
<1>2. IsSeq(q)
  BY DEF Acks
<1>3. Len(q) \in Nat
  BY <1>2, SeqFacts
<1>4. IsSeq(k) /\ Len(k) = Len(q) + 1 /\ k[Len(q) + 1] = m /\ \A i \in 1 .. Len(q) : k[i] = q[i]
  BY <1>1, <1>2, AppendFacts
<1>5. ASSUME NEW i \in 1 .. Len(k) PROVE AckFresh(x, k[i])
  <2>1. CASE i = Len(q) + 1
    BY <1>4, <2>1
  <2>2. CASE i # Len(q) + 1
    <3>1. i \in 1 .. Len(q) /\ k[i] = q[i]
      BY <1>3, <1>4, <2>2
    <3> QED
      BY <3>1 DEF Acks
  <2> QED
    BY <2>1, <2>2
<1> QED
  BY <1>1, <1>4, <1>5 DEF Acks

LEMMA AcksConcat ==
  ASSUME NEW x, NEW q, Acks(x, q), NEW p, Acks(x, p)
  PROVE  Acks(x, q \o p)
<1>1. PICK k : k = q \o p
  OBVIOUS
<1>2. IsSeq(q) /\ IsSeq(p)
  BY DEF Acks
<1>3. Len(q) \in Nat /\ Len(p) \in Nat
  BY <1>2, SeqFacts
<1>4. Joined(k, q, p)
  BY <1>1, <1>2, ConcatJoined
<1>5. ASSUME NEW i \in 1 .. Len(k) PROVE AckFresh(x, k[i])
  <2>1. CASE i <= Len(q)
    <3>1. i \in 1 .. Len(q) /\ k[i] = q[i]
      BY <1>3, <1>4, <2>1 DEF Joined
    <3> QED
      BY <3>1 DEF Acks
  <2>2. CASE ~(i <= Len(q))
    <3>1. i - Len(q) \in 1 .. Len(p) /\ Len(q) + (i - Len(q)) = i
      BY <1>3, <1>4, <2>2 DEF Joined
    <3>2. k[i] = p[i - Len(q)]
      BY <1>4, <3>1 DEF Joined
    <3> QED
      BY <3>1, <3>2 DEF Acks
  <2> QED
    BY <2>1, <2>2
<1> QED
  BY <1>1, <1>4, <1>5 DEF Acks, Joined

LEMMA AcksAfter ==
  ASSUME NEW r, NEW x, FreshAfter(r, x), NEW q, Acks(r, q)
  PROVE  Acks(x, q)
BY DEF Acks, AckFresh, FreshAfter

LEMMA DestroyOk ==
  ASSUME NEW x, NEW d, DstOk(x, d), NEW S
  PROVE  LET y == DestroySurface(d, S)
         IN DstOk(x, y) /\ y.failed = d.failed /\ y.sessions = Without(d.sessions, S) /\ y.sent = d.sent
<1>1. PICK known : known = S \intersect DOMAIN d.sessions
  OBVIOUS
<1>2. PICK u, n, o, l, v : /\ u = Without(d.updates, S) /\ n = Without(d.sessions, known) /\ o = Without(d.roles, known)
                           /\ l = Retained(d.ledger, known)
                           /\ v = d.events \o SetToSeq({SurfaceEvent("destroyed", s) : s \in known})
  OBVIOUS
<1>3. PICK y : y = [d EXCEPT !.updates = u, !.sessions = n, !.roles = o, !.ledger = l, !.events = v]
  OBVIOUS
<1>4. DestroySurface(d, S) = y
  BY <1>1, <1>2, <1>3 DEF DestroySurface, DstOk, IsDst, DstFields
<1>5. IsDst(y) /\ y.failed = d.failed /\ y.sessions = n /\ y.ledger = l /\ y.sent = d.sent
  BY <1>3 DEF DstOk, IsDst, DstFields, IsMap
<1>6. n = Without(d.sessions, S)
  BY <1>1, <1>2 DEF Without
<1>7. LedgerOk(l)
  BY <1>2, RetainedOk DEF DstOk
<1> QED
  BY <1>4, <1>5, <1>6, <1>7 DEF DstOk

LEMMA FailDestinationOk ==
  ASSUME NEW x, NEW d, DstOk(x, d), d.failed = None, NEW why
  PROVE  LET y == FailDestination(d, why) IN DstOk(x, y) /\ y.failed = why
<1>1. PICK a : a = [d EXCEPT !.failed = why]
  OBVIOUS
<1>2. DstOk(x, a) /\ a.failed = why
  BY <1>1 DEF DstOk, IsDst, DstFields, IsMap
<1>3. FailDestination(d, why) = DestroySurface(a, DOMAIN d.sessions)
  BY <1>1 DEF FailDestination
<1> QED
  BY <1>2, <1>3, DestroyOk

\* The messages q, of which the record m may have added the last: every cursor is
\* acknowledged.
Acknowledges(p, m, q) == \A g : AnsweredIn(g, p) \/ Carries(g, m) => AnsweredIn(g, q)

LEMMA OtherAcknowledges ==
  ASSUME NEW m, m.kind # "cursor", NEW p, NEW q, q = p
  PROVE  Acknowledges(p, m, q)
BY DEF Acknowledges, Carries

LEMMA CursorAcknowledges ==
  ASSUME NEW m, NEW p, IsSeq(p), NEW e, e = Envelope("ack", m.session, m.surface, m.value.seq), NEW q, q = Append(p, e)
  PROVE  Acknowledges(p, m, q)
<1>1. ASSUME NEW g, Carries(g, m) PROVE Answers(g, e)
  BY <1>1 DEF Carries, Answers, Envelope
<1> QED
  BY <1>1, AnsweredAppend DEF Acknowledges

LEMMA RecordOk ==
  ASSUME NEW x, NEW d, DstOk(x, d), d.failed = None, NEW m, NEW b, Legal(d.sessions, m, b),
         m.kind = "cursor" => Fresh(x, m.session, m.surface, m.value.seq)
  PROVE  LET y == ApplyRecord(d, m) IN DstOk(x, y) /\ y.failed = None /\ y.sessions = b /\ Acknowledges(d.sent, m, y.sent)
<1>1. PICK s : s = m.surface
  OBVIOUS
<1>2. CASE m.kind = "mapped"
  <2>1. s \notin DOMAIN d.sessions /\ b = Put(d.sessions, s, m.session)
    BY <1>1, <1>2 DEF Legal
  <2>2. PICK v : v = d.events \o SetToSeq({SurfaceEvent("role", p) : p \in Children(d, s)})
    OBVIOUS
  <2>3. ApplyRecord(d, m) = MapSurface(d, m)
    BY <1>2 DEF ApplyRecord
  <2>4. MapSurface(d, m) = [d EXCEPT !.sessions = b, !.events = v]
    BY <1>1, <2>1, <2>2 DEF MapSurface, DstOk, IsDst, DstFields
  <2>5. PICK y : y = [d EXCEPT !.sessions = b, !.events = v]
    OBVIOUS
  <2>6. IsDst(y) /\ y.failed = d.failed /\ y.sessions = b /\ y.ledger = d.ledger /\ y.sent = d.sent
    BY <2>5 DEF DstOk, IsDst, DstFields, IsMap
  <2> QED
    BY <1>2, <2>3, <2>4, <2>5, <2>6, OtherAcknowledges DEF DstOk
<1>3. CASE m.kind = "withdraw"
  <2>1. ApplyRecord(d, m) = DestroySurface(d, {s})
    BY <1>1, <1>3 DEF ApplyRecord
  <2>2. b = Without(d.sessions, {s})
    BY <1>1, <1>3 DEF Legal
  <2> QED
    BY <1>3, <2>1, <2>2, DestroyOk, OtherAcknowledges
<1>4. CASE m.kind = "cursor"
  <2>1. b = d.sessions /\ s \in DOMAIN d.sessions /\ d.sessions[s] = m.session
    BY <1>1, <1>4 DEF Legal
  <2>2. PICK u, e : u = Put(d.updates, s, m.value.cursor) /\ e = Envelope("ack", m.session, s, m.value.seq)
    OBVIOUS
  <2>3. PICK c : c = [d EXCEPT !.updates = u]
    OBVIOUS
  <2>4. IsDst(c) /\ c.failed = d.failed /\ c.sessions = d.sessions /\ c.ledger = d.ledger /\ c.sent = d.sent
    BY <2>3 DEF DstOk, IsDst, DstFields, IsMap
  <2>5. PICK w : w = Append(c.sent, e)
    OBVIOUS
  <2>6. PICK y : y = [c EXCEPT !.sent = w]
    OBVIOUS
  <2>7. ApplyRecord(d, m) = Send(c, e)
    <3>1. ApplyRecord(d, m) = ApplyCursor(d, m)
      BY <1>4 DEF ApplyRecord
    <3>2. c = [d EXCEPT !.updates = Put(@, s, m.value.cursor)]
      BY <2>2, <2>3 DEF DstOk, IsDst, DstFields
    <3> QED
      BY <1>1, <2>1, <2>2, <3>1, <3>2 DEF ApplyCursor
  <2>8. Send(c, e) = y
    BY <2>4, <2>5, <2>6 DEF Send, IsDst, DstFields
  <2>9. IsDst(y) /\ y.failed = c.failed /\ y.sessions = c.sessions /\ y.ledger = c.ledger /\ y.sent = w
    BY <2>4, <2>6 DEF IsDst, DstFields, IsMap
  <2>10. AckFresh(x, e)
    BY <1>1, <1>4, <2>2 DEF AckFresh, Envelope
  <2>11. Acks(x, w)
    <3>1. Acks(x, c.sent)
      BY <2>4 DEF DstOk
    <3> QED
      BY <2>5, <2>10, <3>1, AcksAppend
  <2>12. Acknowledges(d.sent, m, w)
    <3>1. IsSeq(d.sent) /\ w = Append(d.sent, e)
      BY <2>4, <2>5 DEF DstOk, Acks
    <3> QED
      BY <1>1, <2>2, <3>1, CursorAcknowledges
  <2> QED
    BY <2>1, <2>4, <2>7, <2>8, <2>9, <2>11, <2>12 DEF DstOk
<1>5. CASE m.kind \in {"destroyed", "role", "commit"}
  <2>1. s \in DOMAIN d.sessions /\ d.sessions[s] = m.session
    BY <1>1, <1>5 DEF Legal
  <2>2. ApplyRecord(d, m) = ApplySurface(d, m)
    BY <1>5 DEF ApplyRecord
  <2>3. CASE m.kind = "destroyed"
    <3>1. ApplySurface(d, m) = DestroySurface(d, {s})
      BY <1>1, <2>1, <2>3 DEF ApplySurface
    <3>2. b = Without(d.sessions, {s})
      BY <1>1, <2>3 DEF Legal
    <3> QED
      BY <1>5, <2>2, <3>1, <3>2, DestroyOk, OtherAcknowledges
  <2>4. CASE m.kind = "role"
    <3>1. m.value # "layer" /\ b = d.sessions
      BY <2>4 DEF Legal
    <3>2. PICK c : c = [d EXCEPT !.roles = Put(@, s, m.value)]
      OBVIOUS
    <3>3. ApplySurface(d, m) = PublishRole(c, s)
      BY <1>1, <2>1, <2>4, <3>1, <3>2 DEF ApplySurface
    <3>4. IsDst(c) /\ c.failed = d.failed /\ c.sessions = d.sessions /\ c.ledger = d.ledger /\ c.sent = d.sent
      BY <3>2 DEF DstOk, IsDst, DstFields, IsMap
    <3>5. PICK y : y = Push(c, SurfaceEvent("role", s))
      OBVIOUS
    <3>6. IsDst(y) /\ y.failed = c.failed /\ y.sessions = c.sessions /\ y.ledger = c.ledger /\ y.sent = c.sent
      BY <3>4, <3>5 DEF Push, IsDst, DstFields, IsMap
    <3>7. PublishRole(c, s) \in {c, y}
      BY <3>5 DEF PublishRole
    <3> QED
      BY <1>5, <2>2, <3>1, <3>3, <3>4, <3>6, <3>7, OtherAcknowledges DEF DstOk
  <2>5. CASE m.kind = "commit"
    <3>1. PICK y : y = Push(d, SurfaceEvent("commit", s))
      OBVIOUS
    <3>2. ApplySurface(d, m) = y
      BY <1>1, <2>1, <2>5, <3>1 DEF ApplySurface
    <3>3. IsDst(y) /\ y.failed = d.failed /\ y.sessions = d.sessions /\ y.ledger = d.ledger /\ y.sent = d.sent
      BY <3>1 DEF Push, DstOk, IsDst, DstFields, IsMap
    <3>4. b = d.sessions
      BY <2>5 DEF Legal
    <3> QED
      BY <1>5, <2>2, <3>2, <3>3, <3>4, OtherAcknowledges DEF DstOk
  <2> QED
    BY <1>5, <2>3, <2>4, <2>5
<1> QED
  BY <1>2, <1>3, <1>4, <1>5 DEF Legal

AppliedRun(f, u, q) == f[0] = u /\ \A n \in 1 .. Len(q) : f[n] = ApplyRecord(f[n - 1], q[n])
AppliedDef(f, N, u, q) == f = [n \in 0 .. N |-> IF n = 0 THEN u ELSE ApplyRecord(f[n - 1], q[n])]

LEMMA AppliedRunExists ==
  ASSUME NEW u, NEW q, Len(q) \in Nat
  PROVE  \E f : AppliedDef(f, Len(q), u, q)
<1> DEFINE P == {n \in 0 .. Len(q) : \E f : AppliedDef(f, n, u, q)}
<1>1. 0 \in P
  <2>1. AppliedDef([n \in 0 .. 0 |-> u], 0, u, q)
    BY DEF AppliedDef
  <2> QED
    BY <2>1
<1>2. ASSUME NEW n \in 1 .. Len(q), n - 1 \in P
      PROVE  n \in P
  <2>1. PICK f : AppliedDef(f, n - 1, u, q)
    BY <1>2
  <2>2. \A m \in 0 .. n - 1 : f[m] = IF m = 0 THEN u ELSE ApplyRecord(f[m - 1], q[m])
    BY <2>1 DEF AppliedDef
  <2> DEFINE g == [m \in 0 .. n |-> IF m = n THEN ApplyRecord(f[n - 1], q[n]) ELSE f[m]]
  <2>3. g[n] = ApplyRecord(f[n - 1], q[n]) /\ \A m \in 0 .. n - 1 : g[m] = f[m]
    OBVIOUS
  <2>4. g = [m \in 0 .. n |-> g[m]]
    OBVIOUS
  <2> HIDE DEF g
  <2>5. ASSUME NEW m \in 0 .. n
        PROVE  g[m] = IF m = 0 THEN u ELSE ApplyRecord(g[m - 1], q[m])
    <3>1. CASE m = n
      BY <2>3, <3>1
    <3>2. CASE m = 0
      BY <2>2, <2>3, <3>2
    <3>3. CASE m # n /\ m # 0
      <4>1. m \in 0 .. n - 1 /\ m - 1 \in 0 .. n - 1
        BY <3>3
      <4> QED
        BY <2>2, <2>3, <3>3, <4>1
    <3> QED
      BY <3>1, <3>2, <3>3
  <2>6. AppliedDef(g, n, u, q)
    BY <2>4, <2>5 DEF AppliedDef
  <2> QED
    BY <2>6
<1> HIDE DEF P
<1>3. Inductive(Len(q), P)
  BY <1>1, <1>2 DEF Inductive
<1>4. Len(q) \in P
  BY <1>3, Induct
<1> QED
  BY <1>4 DEF P

LEMMA AppliedRuns ==
  ASSUME NEW u, NEW q, Len(q) \in Nat
  PROVE  \E f : AppliedRun(f, u, q) /\ ApplyEach(u, q) = f[Len(q)]
<1> DEFINE f == CHOOSE g : AppliedDef(g, Len(q), u, q)
<1>1. ApplyEach(u, q) = f[Len(q)]
  BY DEF ApplyEach, AppliedDef
<1>2. AppliedDef(f, Len(q), u, q)
  BY AppliedRunExists
<1> HIDE DEF f
<1>3. \A n \in 0 .. Len(q) : f[n] = IF n = 0 THEN u ELSE ApplyRecord(f[n - 1], q[n])
  BY <1>2 DEF AppliedDef
<1>4. AppliedRun(f, u, q)
  BY <1>3 DEF AppliedRun
<1> QED
  BY <1>1, <1>4

CursorsFresh(x, q) ==
  \A i \in 1 .. Len(q) : q[i].kind = "cursor" => Fresh(x, q[i].session, q[i].surface, q[i].value.seq)

\* A poll takes the first n of the records q.
Polls(x, d, q, f, b, n) ==
  /\ DstOk(x, d) /\ d.failed = None /\ IsSeq(q) /\ PathBy(f, d.sessions, q, b)
  /\ CursorsFresh(x, q) /\ n \in 0 .. Len(q)

LEMMA PollOk ==
  ASSUME NEW x, NEW d, NEW q, NEW f, NEW b, NEW n, Polls(x, d, q, f, b, n), NEW y, y = ApplyEach(d, SubSeq(q, 1, n))
  PROVE  /\ DstOk(x, y) /\ y.failed = None /\ y.sessions = f[n]
         /\ \A i \in 1 .. n : \A g : Carries(g, q[i]) => AnsweredIn(g, y.sent)
<1>0. /\ DstOk(x, d) /\ d.failed = None /\ IsSeq(q) /\ PathBy(f, d.sessions, q, b)
      /\ CursorsFresh(x, q) /\ n \in 0 .. Len(q)
  BY DEF Polls
<1>1. PICK p : p = SubSeq(q, 1, n)
  OBVIOUS
<1>2. Len(q) \in Nat
  BY <1>0, SeqFacts
<1>3. IsSeq(p) /\ Len(p) = n /\ \A i \in 1 .. n : p[i] = q[i]
  BY <1>0, <1>1, PartFacts
<1>4. PICK g : AppliedRun(g, d, p) /\ ApplyEach(d, p) = g[Len(p)]
  BY <1>2, <1>3, AppliedRuns
<1> DEFINE P == {i \in 0 .. n : /\ DstOk(x, g[i]) /\ g[i].failed = None /\ g[i].sessions = f[i]
                                /\ \A j \in 1 .. i : \A h : Carries(h, q[j]) => AnsweredIn(h, g[i].sent)}
<1>5. 0 \in P
  BY <1>0, <1>2, <1>4 DEF AppliedRun, PathBy
<1>6. ASSUME NEW i \in 1 .. n, i - 1 \in P PROVE i \in P
  <2>1. i \in 1 .. Len(q) /\ p[i] = q[i] /\ i \in 1 .. Len(p)
    BY <1>0, <1>2, <1>3
  <2>2. g[i] = ApplyRecord(g[i - 1], q[i])
    BY <1>4, <2>1 DEF AppliedRun
  <2>3. DstOk(x, g[i - 1]) /\ g[i - 1].failed = None /\ g[i - 1].sessions = f[i - 1]
    BY <1>6
  <2>4. Legal(g[i - 1].sessions, q[i], f[i])
    BY <1>0, <2>1, <2>3 DEF PathBy
  <2>5. q[i].kind = "cursor" => Fresh(x, q[i].session, q[i].surface, q[i].value.seq)
    BY <1>0, <2>1 DEF CursorsFresh
  <2>6. PICK e, m, c : e = g[i - 1] /\ m = q[i] /\ c = f[i]
    OBVIOUS
  <2>7. /\ DstOk(x, ApplyRecord(e, m)) /\ ApplyRecord(e, m).failed = None /\ ApplyRecord(e, m).sessions = c
        /\ Acknowledges(e.sent, m, ApplyRecord(e, m).sent)
    <3>1. DstOk(x, e) /\ e.failed = None /\ Legal(e.sessions, m, c)
      BY <2>3, <2>4, <2>6
    <3>2. m.kind = "cursor" => Fresh(x, m.session, m.surface, m.value.seq)
      BY <2>5, <2>6
    <3> QED
      BY ONLY <3>1, <3>2, RecordOk
  <2>8. ASSUME NEW j \in 1 .. i, NEW h, Carries(h, q[j]) PROVE AnsweredIn(h, g[i].sent)
    <3>1. Acknowledges(g[i - 1].sent, q[i], g[i].sent)
      BY <2>2, <2>6, <2>7
    <3>2. CASE j = i
      BY <2>8, <3>1, <3>2 DEF Acknowledges
    <3>3. CASE j # i
      <4>1. j \in 1 .. i - 1
        BY <1>2, <3>3
      <4>2. AnsweredIn(h, g[i - 1].sent)
        BY <1>6, <2>8, <4>1
      <4> QED
        BY <3>1, <4>2 DEF Acknowledges
    <3> QED
      BY <3>2, <3>3
  <2> QED
    BY <1>2, <2>2, <2>6, <2>7, <2>8
<1> HIDE DEF P
<1>7. Inductive(n, P)
  BY <1>0, <1>2, <1>5, <1>6 DEF Inductive
<1>8. n \in P
  BY <1>7, Induct
<1> QED
  BY <1>1, <1>3, <1>4, <1>8 DEF P

LEMMA FocusLostAcks ==
  ASSUME NEW x, LedgerOk(dst.ledger)
  PROVE  Acks(x, FocusLostMessages)
<1>1. PICK all : all = ReleaseEffects(dst.ledger, Surfaces)
  OBVIOUS
<1>2. IsSeq(all) /\ \A i \in 1 .. Len(all) : all[i].kind \in {"input", "focus"}
  BY <1>1, ReleaseKinds
<1>3. \A e \in ToSet(all) : e.kind \in {"input", "focus"}
  BY <1>2, SeqFacts
<1>4. PICK ends : ends = Dropping(all, {e \in ToSet(all) : e.kind = "input" /\ e.surface \notin DOMAIN dst.sessions})
  OBVIOUS
<1>5. ends \in Seq(ToSet(all))
  BY <1>2, <1>4, DroppingKind
<1>6. Len(ends) \in Nat /\ DOMAIN ends = 1 .. Len(ends) /\ \A i \in 1 .. Len(ends) : ends[i] \in ToSet(all)
  BY <1>5
<1>7. PICK v : v = [i \in DOMAIN ends |->
                     Envelope(ends[i].kind, dst.sessions[IF ends[i].kind = "focus" THEN dst.ledger.focus ELSE ends[i].surface],
                              ends[i].surface, IF ends[i].kind = "input" THEN ends[i] ELSE None)]
  OBVIOUS
<1>8. FocusLostMessages = v
  BY <1>1, <1>4, <1>7 DEF FocusLostMessages
<1>9. v \in Seq({v[i] : i \in 1 .. Len(ends)})
  <2>1. v = [i \in 1 .. Len(ends) |-> v[i]]
    BY <1>6, <1>7
  <2>2. v \in [1 .. Len(ends) -> {v[i] : i \in 1 .. Len(ends)}]
    BY <2>1
  <2> QED
    BY <1>6, <2>2
<1>10. Len(v) = Len(ends)
  <2>1. DOMAIN v = 1 .. Len(ends)
    BY <1>6, <1>7
  <2> QED
    BY <1>6, <1>9, <2>1
<1>11. ASSUME NEW i \in 1 .. Len(v) PROVE v[i].kind # "ack"
  <2>1. v[i].kind = ends[i].kind
    BY <1>6, <1>7, <1>10 DEF Envelope
  <2> QED
    BY <1>3, <1>6, <1>10, <2>1
<1> QED
  BY <1>8, <1>9, <1>11 DEF Acks, AckFresh, IsSeq

-----------------------------------------------------------------------------
(* Both ends and the lanes between them.                                   *)

SourceOk(u, r) == IsHost(u) /\ Solid(u.gone, r) /\ Honest(r) /\ r.sent = <<>>

ThePort == [lane |-> down, held |-> delayed]

\* The cursor g is on its way to the viewer, or its acknowledgement on its way back.
Credit(g, l, v) == g = Empty \/ CarriedIn(g, l) \/ AnsweredIn(g, v)

LinkInv ==
  /\ SourceOk(upstream, src)
  /\ "encoded" \in DOMAIN budget /\ PortOk(src, ThePort)
  /\ DstOk(src, dst) /\ dst.failed \in {None, "closed"}
  /\ Acks(src, up)
  /\ dst.failed = None =>
       Routes(upstream.gone, dst.sessions, src.mappings, ThePort) /\ Credit(src.inflight, down, up)

SamePort == "encoded" \in DOMAIN budget' /\ budget'.encoded = budget.encoded

LEMMA SpendPort ==
  ASSUME LinkInv, NEW what, what # "encoded", Spend(what)
  PROVE  SamePort
BY DEF LinkInv, Spend, SamePort

LEMMA KeptPort ==
  ASSUME LinkInv, budget' = budget
  PROVE  SamePort
BY DEF LinkInv, SamePort

LEMMA PortHolds ==
  ASSUME SamePort, NEW p, p = [lane |-> down', held |-> delayed'], PortOk(src', p)
  PROVE  PortOk(src, ThePort)'
<1>1. p.lane = down' /\ p.held = delayed' /\ ThePort' = p
  BY DEF ThePort
<1>2. ~budget'.encoded => AllSent(p.held)
  BY DEF SamePort, PortOk
<1> QED
  BY <1>1, <1>2 DEF PortOk

\* What the source has sent is with the port.
LEMMA SentSolid ==
  ASSUME NEW G, NEW x, Solid(G, x), Honest(x), NEW y, y = [x EXCEPT !.sent = <<>>]
  PROVE  Solid(G, y) /\ Honest(y) /\ y.sent = <<>> /\ y.mappings = x.mappings /\ y.inflight = x.inflight /\ FreshAfter(x, y)
<1>1. IsRelay(x) /\ Shape(x) /\ Cur(G, x)
  BY DEF Solid, Cur
<1>2. IsRelay(y)
  BY <1>1 DEF IsRelay, IsMap, Fields
<1>3. y.sent = <<>> /\ \A k \in Fields \ {"sent"} : y[k] = x[k]
  BY <1>1 DEF IsRelay, Fields
<1>4. /\ y.mappings = x.mappings /\ y.cache = x.cache /\ y.claims = x.claims /\ y.updates = x.updates
      /\ y.effects = x.effects /\ y.ledger = x.ledger /\ y.cursors = x.cursors /\ y.inflight = x.inflight
      /\ y.nextCursor = x.nextCursor /\ y.failed = x.failed
  BY <1>3 DEF Fields
<1>5. Shape(y)
  BY <1>1, <1>2, <1>4 DEF Shape
<1>6. Cur(G, y)
  BY <1>1, <1>2, <1>3, <1>4, NilFacts DEF Cur
<1>7. FreshAfter(x, y)
  BY <1>4 DEF FreshAfter, Fresh
<1>8. Honest(y)
  BY <1>4 DEF Honest, Up
<1> QED
  BY <1>3, <1>4, <1>5, <1>6, <1>7, <1>8 DEF Solid

\* A call of the source.
LEMMA SourceStep ==
  ASSUME LinkInv, NEW x, NEW v, IsHost(v), upstream.gone \subseteq v.gone, Says(v.gone, src, x), Solid(v.gone, x), Honest(x),
         Become(x), upstream' = v, dst' = dst, SamePort, Acks(src, up'),
         dst.failed = None => Credit(x.inflight, down, up') \/ CarriedIn(x.inflight, x.sent)
  PROVE  LinkInv'
<1>1. PICK p : Speech(v.gone, src, x, p)
  BY DEF Says, Tells
<1>2. FreshAfter(src, x)
  BY DEF Says, Tells
<1>3. IsSeq(p) /\ x.sent = p
  <2>1. src.sent = <<>> /\ IsSeq(p) /\ x.sent = src.sent \o p
    BY <1>1 DEF Speech, LinkInv, SourceOk
  <2>2. <<>> \o p = p
    BY <2>1 DEF IsSeq
  <2> QED
    BY <2>1, <2>2
<1>4. Path(src.mappings, p, x.mappings) /\ \A i \in 1 .. Len(p) : Fair(v.gone, x, p[i])
  BY <1>1 DEF Speech
<1>5. PICK k : k = HoldEach(ThePort, p)
  OBVIOUS
<1>6. src' = [x EXCEPT !.sent = <<>>] /\ down' = k.lane /\ delayed' = k.held
  BY <1>3, <1>5 DEF Become, ThePort
<1>7. PortOk(x, ThePort)
  BY <1>2, PortOkAfter DEF LinkInv
<1>8. PortOk(x, k)
  BY <1>3, <1>4, <1>5, <1>7, HoldEachOk
<1>9. Solid(v.gone, src') /\ Honest(src') /\ src'.sent = <<>> /\ src'.mappings = x.mappings /\ src'.inflight = x.inflight
       /\ FreshAfter(x, src')
  BY <1>6, SentSolid
<1>10. PortOk(src', k)
  BY <1>8, <1>9, PortOkAfter
<1>11. k = [lane |-> down', held |-> delayed']
  BY <1>6, <1>8 DEF PortOk
<1>12. PortOk(src, ThePort)'
  BY <1>10, <1>11, PortHolds
<1>13. ASSUME dst.failed = None PROVE Routes(v.gone, dst.sessions, x.mappings, k)
  <2>1. Routes(v.gone, dst.sessions, src.mappings, ThePort)
    BY <1>13, RoutesMore DEF LinkInv
  <2> QED
    BY <1>3, <1>4, <1>5, <1>7, <2>1, HoldEachRoutes
<1>14. ThePort' = k
  BY <1>11 DEF ThePort
<1>15. Acks(src', up') /\ Acks(src', dst.sent)
  BY <1>2, <1>9, AcksAfter DEF LinkInv, DstOk
<1>16. DstOk(src', dst)
  BY <1>15 DEF LinkInv, DstOk
<1>17. SourceOk(v, src')
  BY <1>9 DEF SourceOk
<1>18. ASSUME dst.failed = None PROVE Credit(x.inflight, k.lane, up')
  <2>1. x.inflight = Empty \/ CarriedIn(x.inflight, down) \/ AnsweredIn(x.inflight, up') \/ CarriedIn(x.inflight, p)
    BY <1>3, <1>18 DEF Credit
  <2>2. ThePort.lane = down
    BY DEF ThePort
  <2>3. CarriedIn(x.inflight, down) \/ CarriedIn(x.inflight, p) => CarriedIn(x.inflight, k.lane)
    BY <1>3, <1>4, <1>5, <1>7, <2>2, HoldEachCarries
  <2> QED
    BY <2>1, <2>3 DEF Credit
<1>19. dst.failed = None => Credit(src'.inflight, down', up')
  BY <1>6, <1>9, <1>18
<1> QED
  BY <1>9, <1>12, <1>13, <1>14, <1>15, <1>16, <1>17, <1>19 DEF LinkInv, SamePort

\* A call that takes no message of the viewer
LEMMA SourceCall ==
  ASSUME LinkInv, NEW x, NEW v, IsHost(v), upstream.gone \subseteq v.gone, Says(v.gone, src, x), Solid(v.gone, x), Honest(x),
         Become(x), upstream' = v, dst' = dst, up' = up, SamePort
  PROVE  LinkInv'
<1>1. x.inflight \in {src.inflight, Empty} \/ CarriedIn(x.inflight, x.sent)
  BY SaidCarried DEF LinkInv, SourceOk, Solid, Cur
<1>2. dst.failed = None => Credit(x.inflight, down, up') \/ CarriedIn(x.inflight, x.sent)
  BY <1>1 DEF LinkInv, Credit
<1>3. Acks(src, up')
  BY DEF LinkInv
<1> QED
  BY <1>2, <1>3, SourceStep

\* A step of the source that sends nothing.
LEMMA QuietStep ==
  ASSUME LinkInv, SourceOk(upstream', src'), upstream'.gone = upstream.gone, src'.mappings = src.mappings,
         src'.inflight \in {src.inflight, Empty}, FreshAfter(src, src'), UNCHANGED <<dst, down, up, delayed>>, SamePort
  PROVE  LinkInv'
<1>1. PICK k : k = ThePort
  OBVIOUS
<1>2. k = [lane |-> down', held |-> delayed'] /\ ThePort' = k
  BY <1>1 DEF ThePort
<1>3. PortOk(src', k)
  BY <1>1, PortOkAfter DEF LinkInv
<1>4. PortOk(src, ThePort)'
  BY <1>2, <1>3, PortHolds
<1>5. Acks(src', up) /\ Acks(src', dst.sent)
  BY AcksAfter DEF LinkInv, DstOk
<1>6. DstOk(src', dst)
  BY <1>5 DEF LinkInv, DstOk
<1>7. dst.failed = None => Routes(upstream.gone, dst.sessions, src.mappings, k)
  BY <1>1 DEF LinkInv
<1>8. dst.failed = None => Credit(src'.inflight, down', up')
  BY DEF LinkInv, Credit
<1> QED
  BY <1>2, <1>4, <1>5, <1>6, <1>7, <1>8 DEF LinkInv, SamePort

\* A step of the viewer.
LEMMA ViewerStep ==
  ASSUME LinkInv, UNCHANGED <<src, upstream, down, delayed>>, SamePort, DstOk(src, dst'), dst'.failed \in {None, "closed"},
         dst'.failed = None => dst.failed = None /\ dst'.sessions = dst.sessions, Acks(src, up'),
         \A g : AnsweredIn(g, up) => AnsweredIn(g, up')
  PROVE  LinkInv'
<1>1. PICK k : k = ThePort
  OBVIOUS
<1>2. k = [lane |-> down', held |-> delayed'] /\ ThePort' = k
  BY <1>1 DEF ThePort
<1>3. PortOk(src', k)
  BY <1>1 DEF LinkInv
<1>4. PortOk(src, ThePort)'
  BY <1>2, <1>3, PortHolds
<1>5. dst'.failed = None => Routes(upstream.gone, dst'.sessions, src.mappings, k)
  BY <1>1 DEF LinkInv
<1>6. DstOk(src', dst') /\ Acks(src', up') /\ SourceOk(upstream', src')
  BY DEF LinkInv
<1>7. dst'.failed = None => Credit(src'.inflight, down', up')
  BY DEF LinkInv, Credit
<1> QED
  BY <1>2, <1>4, <1>5, <1>6, <1>7 DEF LinkInv, SamePort

-----------------------------------------------------------------------------
LEMMA CheckStays ==
  ASSUME NEW G, NEW r, Solid(G, r)
  PROVE  /\ CheckAccess(r).sent = r.sent /\ CheckAccess(r).mappings = r.mappings
         /\ CheckAccess(r).inflight \in {r.inflight, Empty}
         /\ Up(r) /\ ~Up(CheckAccess(r)) => CheckAccess(r).inflight = Empty
<1>1. CASE Up(r) /\ r.revoked
  <2>1. PICK v : v = [r EXCEPT !.effects = <<>>, !.updates = <<>>]
    OBVIOUS
  <2>2. IsRelay(r) /\ Shape(r)
    BY DEF Solid, Cur
  <2>3. IsRelay(v)
    BY <2>1, <2>2 DEF IsRelay, IsMap, Fields
  <2>4. /\ v.sent = r.sent /\ v.mappings = r.mappings /\ v.effects = <<>> /\ v.updates = <<>> /\ v.failed = r.failed
        /\ v.claims = r.claims /\ v.cache = r.cache /\ v.ledger = r.ledger
    BY <2>1, <2>2 DEF IsRelay, Fields
  <2>5. Shape(v) /\ Up(v) /\ DOMAIN v.claims \subseteq DOMAIN v.mappings
    BY <1>1, <2>2, <2>3, <2>4, NilFacts DEF Shape, Up, Solid
  <2>6. PICK x : x = Fail(v, "revoked")
    OBVIOUS
  <2>7. "revoked" # None
    BY DEF None
  <2>8. x.sent = v.sent /\ x.mappings = v.mappings /\ x.inflight = Empty
    BY <2>5, <2>6, <2>7, FailParts
  <2>9. CheckAccess(r) = x
    BY <1>1, <2>1, <2>6 DEF CheckAccess
  <2> QED
    BY <2>4, <2>8, <2>9
<1>2. CASE ~(Up(r) /\ r.revoked)
  BY <1>2 DEF CheckAccess
<1> QED
  BY <1>1, <1>2

LEMMA CheckedSays ==
  ASSUME LinkInv
  PROVE  LET c == CheckAccess(src)
         IN Says(upstream.gone, src, c) /\ Solid(upstream.gone, c) /\ Honest(c) /\ Cur(upstream.gone, src)
BY CheckSays DEF LinkInv, SourceOk, Solid

\* An event of a client that leaves the host alone
LEMMA EventLinked ==
  ASSUME RelayInv, LinkInv, NEW c, c = CheckAccess(src), NEW x,
         x = c \/ (Up(c) /\ Keeps(upstream, c, x) /\ Says(upstream.gone, c, x)),
         Become(x), Spend("events"), UNCHANGED <<dst, up, upstream>>
  PROVE  LinkInv'
<1>1. PICK G : G = upstream.gone
  OBVIOUS
<1>2. Says(G, src, c) /\ Solid(G, c) /\ Honest(c) /\ Cur(G, src)
  BY <1>1, CheckedSays
<1>3. Says(G, src, x) /\ Solid(G, x) /\ Honest(x)
  <2>1. CASE x = c
    BY <1>2, <2>1
  <2>2. CASE Up(c) /\ Keeps(upstream, c, x) /\ Says(G, c, x)
    <3>1. Settled(upstream, x) /\ SameFlags(c, x) /\ Cur(G, x)
      BY <2>2 DEF Keeps, Moves, Says
    <3>2. Solid(G, x)
      BY <3>1, SettledSolid
    <3>3. Honest(x)
      BY <1>2, <2>2, <3>1 DEF Honest, SameFlags, Up
    <3>4. Says(G, src, x)
      BY <1>2, <2>2, SaysTrans
    <3> QED
      BY <3>2, <3>3, <3>4
  <2> QED
    BY <1>1, <2>1, <2>2
<1>4. SamePort
  BY SpendPort
<1>5. Acks(src, up') /\ IsHost(upstream)
  BY DEF LinkInv, SourceOk
<1> QED
  BY <1>1, <1>3, <1>4, <1>5, SourceCall

LEMMA ClientLinked ==
  ASSUME RelayInv, LinkInv, NEW s \in Surfaces, ClientRole(s) \/ ClientCommit(s) \/ ClientCursor(s)
  PROVE  LinkInv'
<1>1. PICK c : c = CheckAccess(src)
  OBVIOUS
<1>2. Up(c) => c = src /\ Settled(upstream, c) /\ Cur(upstream.gone, c)
  BY <1>1, CheckedUp, CheckedSays DEF Solid
<1>3. CASE ClientRole(s)
  <2>1. PICK role : /\ Become(IF Up(c) THEN ObserveRole(c, s, role) ELSE c) /\ Spend("events")
                   /\ s \notin upstream.gone /\ UNCHANGED <<dst, up, upstream>>
    BY <1>1, <1>3 DEF ClientRole, Client, Checked
  <2>2. PICK x : x = IF Up(c) THEN ObserveRole(c, s, role) ELSE c
    OBVIOUS
  <2>3. Become(x) /\ s \notin upstream.gone
    BY <2>1, <2>2
  <2>4. Up(c) => Keeps(upstream, c, x) /\ Says(upstream.gone, c, x)
    BY <1>1, <1>2, <2>2, <2>3, CheckedUp, RoleMoves, RoleSays
  <2> QED
    BY <1>1, <2>1, <2>2, <2>3, <2>4, EventLinked
<1>4. CASE ClientCommit(s)
  <2>1. PICK commit : /\ Become(IF Up(c) THEN ObserveCommit(c, s, commit) ELSE c) /\ Spend("events")
                   /\ s \notin upstream.gone /\ UNCHANGED <<dst, up, upstream>>
    BY <1>1, <1>4 DEF ClientCommit, Client, Checked
  <2>2. PICK x : x = IF Up(c) THEN ObserveCommit(c, s, commit) ELSE c
    OBVIOUS
  <2>3. Become(x) /\ s \notin upstream.gone
    BY <2>1, <2>2
  <2>4. Up(c) => Keeps(upstream, c, x) /\ Says(upstream.gone, c, x)
    BY <1>1, <1>2, <2>2, <2>3, CheckedUp, CommitMoves, CommitSays
  <2> QED
    BY <1>1, <2>1, <2>2, <2>3, <2>4, EventLinked
<1>5. CASE ClientCursor(s)
  <2>1. PICK cursor : /\ Become(IF Up(c) THEN ObserveCursor(c, s, cursor) ELSE c) /\ Spend("events")
                   /\ s \notin upstream.gone /\ UNCHANGED <<dst, up, upstream>>
    BY <1>1, <1>5 DEF ClientCursor, Client, Checked
  <2>2. PICK x : x = IF Up(c) THEN ObserveCursor(c, s, cursor) ELSE c
    OBVIOUS
  <2>3. Become(x) /\ s \notin upstream.gone
    BY <2>1, <2>2
  <2>4. Up(c) => Keeps(upstream, c, x) /\ Says(upstream.gone, c, x)
    BY <1>1, <1>2, <2>2, <2>3, CheckedUp, CursorMoves, CursorSays
  <2> QED
    BY <1>1, <2>1, <2>2, <2>3, <2>4, EventLinked
<1> QED
  BY <1>3, <1>4, <1>5

LEMMA DestroyedLinked ==
  ASSUME RelayInv, LinkInv, NEW s \in Surfaces, ClientDestroyed(s)
  PROVE  LinkInv'
<1>1. PICK c : c = CheckAccess(src)
  OBVIOUS
<1>2. PICK x : x = IF Up(c) THEN ObserveDestroyed(c, s) ELSE c
  OBVIOUS
<1>3. Become(x) /\ upstream' = Forget(upstream, s) /\ UNCHANGED <<dst, up>> /\ Spend("events")
  BY <1>1, <1>2 DEF ClientDestroyed, Client, Checked
<1>4. PICK v : v = Forget(upstream, s)
  OBVIOUS
<1>5. PICK G, H : G = upstream.gone /\ H = G \union {s}
  OBVIOUS
<1>6. IsHost(v) /\ v.gone = H
  BY <1>4, <1>5, ForgetHost DEF LinkInv, SourceOk
<1>7. Says(G, src, c) /\ Solid(G, c) /\ Honest(c) /\ Cur(G, src)
  BY <1>1, <1>5, CheckedSays
<1>8. Says(H, src, x) /\ Solid(H, x) /\ Honest(x)
  <2>1. CASE Up(c)
    <3>1. c = src /\ Settled(upstream, src) /\ Up(src) /\ x = ObserveDestroyed(src, s)
      BY <1>1, <1>2, <2>1, CheckedUp
    <3>2. Says(H, src, x)
      BY <1>5, <1>7, <3>1, DestroyedSays
    <3>3. Settled(v, x) /\ SameFlags(src, x)
      BY <1>4, <3>1, DestroyedMoves
    <3>4. Solid(H, x)
      BY <1>6, <3>2, <3>3, SettledSolid DEF Says
    <3>5. Honest(x)
      BY <1>7, <3>1, <3>3 DEF Honest, SameFlags, Up
    <3> QED
      BY <3>2, <3>4, <3>5
  <2>2. CASE ~Up(c)
    <3>1. x = c /\ DOMAIN c.cache = {}
      BY <1>2, <1>7, <2>2 DEF Honest
    <3>2. Solid(H, c)
      BY <1>7, <3>1 DEF Solid, Cur
    <3>3. c.sent = src.sent /\ c.mappings = src.mappings /\ c.inflight \in {src.inflight, Empty}
      <4>1. Solid(G, src)
        BY <1>5 DEF LinkInv, SourceOk
      <4> QED
        BY <1>1, <4>1, CheckStays
    <3>4. FreshAfter(src, c) /\ IsSeq(src.sent)
      BY <1>7 DEF Says, Tells, Cur
    <3>5. Tells(H, src, c)
      BY <3>3, <3>4, NoneTells
    <3> QED
      BY <1>7, <3>1, <3>2, <3>5 DEF Says, Solid
  <2> QED
    BY <2>1, <2>2
<1>9. SamePort
  BY <1>3, SpendPort
<1>10. Acks(src, up') /\ upstream.gone \subseteq v.gone
  BY <1>3, <1>5, <1>6 DEF LinkInv
<1> QED
  BY <1>3, <1>4, <1>6, <1>8, <1>9, <1>10, SourceCall

LEMMA CommandLinked ==
  ASSUME RelayInv, LinkInv, NEW s \in Surfaces, CommandMap(s) \/ CommandUnmap(s)
  PROVE  LinkInv'
<1>0. PICK G : G = upstream.gone
  OBVIOUS
<1>1. Solid(G, src) /\ Honest(src) /\ Cur(G, src) /\ IsRelay(src) /\ Shape(src) /\ IsHost(upstream) /\ Acks(src, up)
  BY <1>0 DEF LinkInv, SourceOk, Solid, Cur
<1>2. CASE CommandMap(s)
  <2>1. PICK b : b = [src EXCEPT !.nextSession = @ + 1]
    OBVIOUS
  <2>2. Sound(upstream, b)
    BY <2>1, SentAlike, AlikeSound DEF RelayInv, Sound
  <2>3. PICK c : c = CheckAccess(b)
    OBVIOUS
  <2>4. Sound(upstream, c) /\ (Up(c) => c = b /\ ~b.revoked)
    BY <2>2, <2>3, CheckSound
  <2>5. PICK x : x = IF Up(c) THEN Map(c, src.nextSession, s) ELSE c
    OBVIOUS
  <2>6. Become(x) /\ UNCHANGED <<upstream, dst, up>> /\ Spend("commands")
    BY <1>2, <2>1, <2>3, <2>5 DEF CommandMap, Checked
  <2>7. IsRelay(b) /\ \A k \in Fields \ {"nextSession"} : b[k] = src[k]
    BY <1>1, <2>1 DEF IsRelay, IsMap, Fields
  <2>8. /\ b.mappings = src.mappings /\ b.cache = src.cache /\ b.claims = src.claims /\ b.updates = src.updates
        /\ b.effects = src.effects /\ b.ledger = src.ledger /\ b.cursors = src.cursors /\ b.inflight = src.inflight
        /\ b.nextCursor = src.nextCursor /\ b.failed = src.failed /\ b.sent = src.sent
    BY <2>7 DEF Fields
  <2>9. Silent(G, src, b)
    BY <1>1, <2>7, <2>8 DEF Silent, Cur
  <2>10. Says(G, src, b)
    BY <1>1, <2>9, SilentSays
  <2>11. Solid(G, b) /\ Honest(b)
    <3>1. Shape(b)
      BY <1>1, <2>7, <2>8 DEF Shape
    <3> QED
      BY <1>1, <2>8, <2>10, <3>1 DEF Solid, Says, Honest, Up
  <2>12. Says(G, b, c) /\ Solid(G, c) /\ Honest(c)
    BY <2>3, <2>11, CheckSays
  <2>13. Says(G, src, c)
    BY <1>1, <2>10, <2>12, SaysTrans
  <2>14. Says(G, src, x) /\ Solid(G, x) /\ Honest(x)
    <3>1. CASE Up(c)
      <4>1. Settled(upstream, c) /\ Cur(G, c)
        BY <2>2, <2>4, <2>12, <3>1 DEF Sound, Solid
      <4>2. PICK n : n = src.nextSession
        OBVIOUS
      <4>3. Moves(upstream, c, {}, Map(c, n, s), {} \ {s})
        BY <3>1, <4>1, MapMoves
      <4>4. Settled(upstream, x) /\ SameFlags(c, x)
        BY <2>5, <3>1, <4>2, <4>3 DEF Moves
      <4>5. Says(G, c, x)
        BY <1>0, <2>5, <3>1, <4>1, <4>2, MapSays
      <4>6. Solid(G, x)
        BY <4>4, <4>5, SettledSolid DEF Says
      <4>7. Honest(x)
        BY <2>12, <3>1, <4>4 DEF Honest, SameFlags, Up
      <4>8. Says(G, src, x)
        BY <1>1, <2>13, <4>5, SaysTrans
      <4> QED
        BY <4>6, <4>7, <4>8
    <3>2. CASE ~Up(c)
      BY <2>5, <2>12, <2>13, <3>2
    <3> QED
      BY <3>1, <3>2
  <2>15. SamePort
    BY <2>6, SpendPort
  <2> QED
    BY <1>0, <1>1, <2>6, <2>14, <2>15, SourceCall
<1>3. CASE CommandUnmap(s)
  <2>1. PICK x : x = Unmap(src, s)
    OBVIOUS
  <2>2. Become(x) /\ UNCHANGED <<upstream, dst, up>> /\ Spend("commands")
    BY <1>3, <2>1 DEF CommandUnmap
  <2>3. Says(G, src, x) /\ Solid(G, x) /\ DOMAIN x.cache = DOMAIN src.cache
    BY <1>1, <2>1, UnmapSays
  <2>4. SameFlags(src, x)
    BY <1>1, <2>1, UnmapRelay
  <2>5. Honest(x)
    BY <1>1, <2>3, <2>4 DEF Honest, SameFlags, Up
  <2>6. SamePort
    BY <2>2, SpendPort
  <2> QED
    BY <1>0, <1>1, <2>2, <2>3, <2>5, <2>6, SourceCall
<1> QED
  BY <1>2, <1>3

\* The flags, and what waits for the host, are of no account to the viewer.
Steady(r, x) ==
  /\ x.mappings = r.mappings /\ x.cache = r.cache /\ x.claims = r.claims /\ x.ledger = r.ledger /\ x.cursors = r.cursors
  /\ x.inflight = r.inflight /\ x.nextCursor = r.nextCursor /\ x.failed = r.failed /\ x.sent = r.sent

LEMMA SteadyOk ==
  ASSUME NEW u, NEW r, SourceOk(u, r), NEW x, IsRelay(x), Steady(r, x), IsSeq(x.effects), IsSeq(x.updates)
  PROVE  SourceOk(u, x) /\ FreshAfter(r, x)
<1>1. Shape(r) /\ Cur(u.gone, r)
  BY DEF SourceOk, Solid
<1>2. Shape(x)
  BY <1>1 DEF Shape, Steady
<1>3. Cur(u.gone, x)
  BY <1>1 DEF Cur, Steady
<1>4. Honest(x)
  BY DEF SourceOk, Honest, Steady, Up
<1>5. FreshAfter(r, x)
  BY DEF FreshAfter, Fresh, Steady
<1> QED
  BY <1>2, <1>3, <1>4, <1>5 DEF SourceOk, Solid, Steady

LEMMA AnsweredTail ==
  ASSUME NEW q, IsSeq(q), q # <<>>, NEW g, AnsweredIn(g, q)
  PROVE  Answers(g, Head(q)) \/ AnsweredIn(g, Tail(q))
<1>1. PICK E : q \in Seq(E)
  BY DEF IsSeq
<1>2. PICK m, w : m = Head(q) /\ w = Tail(q)
  OBVIOUS
<1>3. w \in Seq(E) /\ Len(w) = Len(q) - 1 /\ Len(q) \in Nat /\ Len(q) >= 1 /\ m = q[1]
  BY <1>1, <1>2
<1>4. \A i \in 1 .. Len(w) : w[i] = q[i + 1]
  BY <1>1, <1>2
<1>5. PICK i \in 1 .. Len(q) : Answers(g, q[i])
  BY DEF AnsweredIn
<1>6. CASE i = 1
  BY <1>2, <1>3, <1>5, <1>6
<1>7. CASE i # 1
  <2>1. i - 1 \in 1 .. Len(w) /\ w[i - 1] = q[i]
    BY <1>3, <1>4, <1>7
  <2> QED
    BY <1>2, <1>5, <2>1 DEF AnsweredIn
<1> QED
  BY <1>6, <1>7

LEMMA PollLinked ==
  ASSUME RelayInv, LinkInv, SourcePoll
  PROVE  LinkInv'
<1>0. PICK G : G = upstream.gone
  OBVIOUS
<1>1. PICK c : c = CheckAccess(src)
  OBVIOUS
<1>2. PICK d : d = Connect(c)
  OBVIOUS
<1>3. PICK m : m = Head(up)
  OBVIOUS
<1>4. PICK x : x = IF Up(c) THEN IF up = <<>> THEN d ELSE Accept(d, m) ELSE c
  OBVIOUS
<1>5. Become(x) /\ UNCHANGED <<upstream, dst, budget>> /\ up' = IF up = <<>> THEN up ELSE Tail(up)
  BY <1>1, <1>2, <1>3, <1>4 DEF SourcePoll, Checked
<1>6. Says(G, src, c) /\ Solid(G, c) /\ Honest(c) /\ Cur(G, src)
  BY <1>0, <1>1, CheckedSays
<1>7. /\ Acks(src, up')
      /\ up # <<>> => AckFresh(src, m)
  <2>1. IsSeq(up) /\ \A i \in 1 .. Len(up) : AckFresh(src, up[i])
    BY DEF LinkInv, Acks
  <2>2. CASE up = <<>>
    BY <1>5, <2>2 DEF LinkInv
  <2>3. CASE up # <<>>
    <3>1. PICK E : up \in Seq(E)
      BY <2>1 DEF IsSeq
    <3>2. PICK w : w = Tail(up)
      OBVIOUS
    <3>3. w \in Seq(E) /\ Len(w) = Len(up) - 1 /\ Len(up) \in Nat /\ Len(up) >= 1 /\ m = up[1]
      BY <1>3, <2>3, <3>1, <3>2
    <3>4. \A i \in 1 .. Len(w) : w[i] = up[i + 1]
      BY <2>3, <3>1, <3>2
    <3>5. ASSUME NEW i \in 1 .. Len(w) PROVE AckFresh(src, w[i])
      <4>1. i + 1 \in 1 .. Len(up) /\ w[i] = up[i + 1]
        BY <3>3, <3>4
      <4> QED
        BY <2>1, <4>1
    <3>6. Acks(src, w)
      BY <3>3, <3>5 DEF Acks, IsSeq
    <3>7. AckFresh(src, m)
      BY <2>1, <3>3
    <3> QED
      BY <1>5, <2>3, <3>2, <3>6, <3>7
  <2> QED
    BY <2>2, <2>3
<1>8. /\ Says(G, src, x) /\ Solid(G, x) /\ Honest(x)
      /\ Up(c) /\ up # <<>> => Says(G, src, d) /\ Says(G, d, x)
  <2>1. CASE Up(c)
    <3>1. c = src /\ ~src.revoked /\ Settled(upstream, src) /\ Up(src) /\ Sound(upstream, src)
      BY <1>1, <2>1, CheckedUp DEF RelayInv
    <3>2. Sound(upstream, d) /\ Up(d) /\ ~d.revoked
      BY <1>2, <3>1, ConnectSound
    <3>3. Settled(upstream, d)
      BY <3>2 DEF Sound
    <3>4. Says(G, src, d)
      BY <1>0, <1>2, <1>6, <3>1, ConnectSays
    <3>5. Cur(G, d)
      BY <3>4 DEF Says
    <3>6. Solid(G, d) /\ Honest(d)
      BY <3>2, <3>3, <3>5, SettledSolid DEF Honest, Up
    <3>7. CASE up = <<>>
      BY <1>4, <2>1, <3>4, <3>6, <3>7
    <3>8. CASE up # <<>>
      <4>1. x = Accept(d, m)
        BY <1>4, <2>1, <3>8
      <4>2. m.kind = "ack" => Fresh(d, m.session, m.surface, m.value)
        <5>1. FreshAfter(src, d)
          BY <3>4 DEF Says, Tells
        <5> QED
          BY <1>7, <3>8, <5>1 DEF AckFresh, FreshAfter
      <4>3. Says(G, d, x) /\ Honest(x)
        BY <3>2, <3>3, <3>5, <4>1, <4>2, AcceptSays
      <4>4. Or(upstream, d, x)
        BY <3>2, <3>3, <4>1, AcceptMoves
      <4>5. Solid(G, x)
        <5>1. CASE Keeps(upstream, d, x)
          BY <4>3, <5>1, SettledSolid DEF Keeps, Moves, Says
        <5>2. CASE \E why : why # None /\ x = Fail(d, why)
          BY <3>2, <3>6, <5>2, FailSays
        <5> QED
          BY <4>4, <5>1, <5>2 DEF Or
      <4>6. Says(G, src, x)
        BY <1>6, <3>4, <4>3, SaysTrans
      <4> QED
        BY <3>4, <4>3, <4>5, <4>6
    <3> QED
      BY <3>7, <3>8
  <2>2. CASE ~Up(c)
    BY <1>4, <1>6, <2>2
  <2> QED
    BY <2>1, <2>2
<1>9. SamePort /\ IsHost(upstream)
  BY <1>5, KeptPort DEF LinkInv, SourceOk
<1>10. Up(src)
  BY DEF SourcePoll
<1>11. ASSUME dst.failed = None PROVE Credit(x.inflight, down, up') \/ CarriedIn(x.inflight, x.sent)
  <2>1. x.inflight \in {src.inflight, Empty} \/ CarriedIn(x.inflight, x.sent)
    BY <1>6, <1>8, SaidCarried DEF Cur
  <2>2. Credit(src.inflight, down, up)
    BY <1>11 DEF LinkInv
  <2>3. CASE up = <<>>
    BY <1>5, <2>1, <2>2, <2>3 DEF Credit
  <2>4. CASE ~Up(c)
    <3>1. Solid(G, src)
      BY <1>0 DEF LinkInv, SourceOk
    <3>2. c.inflight = Empty
      BY <1>1, <1>10, <2>4, <3>1, CheckStays
    <3> QED
      BY <1>4, <2>4, <3>2 DEF Credit
  <2>5. CASE Up(c) /\ up # <<>>
    <3>1. x = Accept(d, m) /\ up' = Tail(up)
      BY <1>4, <1>5, <2>5
    <3>2. CASE AnsweredIn(src.inflight, up) /\ x.inflight = src.inflight
      <4>1. Answers(src.inflight, m) \/ AnsweredIn(src.inflight, up')
        BY <2>5, <3>1, <3>2, <1>3, AnsweredTail DEF LinkInv, Acks
      <4>2. CASE Answers(src.inflight, m)
        <5>2. Says(G, d, x) /\ Cur(G, d)
          BY <1>8, <2>5 DEF Says
        <5>3. x = AcceptCursor(d, m)
          BY <3>1, <4>2 DEF Answers, Accept
        <5>4. CASE d.inflight = src.inflight
          <6>1. Answers(d.inflight, m)
            BY <4>2, <5>4
          <6> QED
            BY <5>2, <5>3, <6>1, AckTakes DEF Credit
        <5>5. CASE d.inflight # src.inflight
          <6>1. x.inflight \in {d.inflight, Empty} \/ CarriedIn(x.inflight, x.sent)
            BY <5>2, SaidCarried DEF Cur
          <6> QED
            BY <3>2, <5>5, <6>1 DEF Credit
        <5> QED
          BY <5>4, <5>5
      <4> QED
        BY <3>2, <4>1, <4>2 DEF Credit
    <3> QED
      BY <2>1, <2>2, <3>2 DEF Credit
  <2> QED
    BY <2>3, <2>4, <2>5
<1> QED
  BY <1>0, <1>5, <1>7, <1>8, <1>9, <1>11, SourceStep

LEMMA FlagsLinked ==
  ASSUME RelayInv, LinkInv, Authorize \/ Revoke \/ SourceClosed \/ Drain
  PROVE  LinkInv'
<1>1. SourceOk(upstream, src) /\ IsRelay(src) /\ IsSeq(src.effects) /\ IsSeq(src.updates)
  BY DEF LinkInv, SourceOk, Solid, Shape
<1>2. CASE Authorize
  <2>1. src' = [src EXCEPT !.ready = TRUE] /\ UNCHANGED <<upstream, dst, down, up, delayed>>
    BY <1>2 DEF Authorize
  <2>2. IsRelay(src') /\ \A k \in Fields \ {"ready"} : src'[k] = src[k]
    BY <1>1, <2>1 DEF IsRelay, IsMap, Fields
  <2>3. Steady(src, src')
    BY <2>2 DEF Steady, Fields
  <2>4. /\ src'.effects = src.effects /\ src'.updates = src.updates
    BY <2>2 DEF Fields
  <2>5. SourceOk(upstream, src') /\ FreshAfter(src, src')
    BY <1>1, <2>2, <2>3, <2>4, SteadyOk
  <2>6. SamePort
    BY <1>2, SpendPort, KeptPort DEF Authorize
  <2> QED
    BY <2>1, <2>3, <2>5, <2>6, QuietStep DEF Steady
<1>3. CASE Revoke
  <2>1. src' = [src EXCEPT !.revoked = TRUE] /\ UNCHANGED <<upstream, dst, down, up, delayed>>
    BY <1>3 DEF Revoke
  <2>2. IsRelay(src') /\ \A k \in Fields \ {"revoked"} : src'[k] = src[k]
    BY <1>1, <2>1 DEF IsRelay, IsMap, Fields
  <2>3. Steady(src, src')
    BY <2>2 DEF Steady, Fields
  <2>4. /\ src'.effects = src.effects /\ src'.updates = src.updates
    BY <2>2 DEF Fields
  <2>5. SourceOk(upstream, src') /\ FreshAfter(src, src')
    BY <1>1, <2>2, <2>3, <2>4, SteadyOk
  <2>6. SamePort
    BY <1>3, SpendPort, KeptPort DEF Revoke
  <2> QED
    BY <2>1, <2>3, <2>5, <2>6, QuietStep DEF Steady
<1>4. CASE SourceClosed
  <2>1. PICK x : x = Fail(src, "closed")
    OBVIOUS
  <2>2. Become(x) /\ UNCHANGED <<upstream, dst, up>> /\ Up(src) /\ Spend("losses")
    BY <1>4, <2>1 DEF SourceClosed
  <2>3. PICK G : G = upstream.gone
    OBVIOUS
  <2>4. Solid(G, src) /\ IsHost(upstream) /\ Acks(src, up')
    BY <2>2, <2>3 DEF LinkInv, SourceOk
  <2>5. "closed" # None
    BY DEF None
  <2>6. Says(G, src, x) /\ Solid(G, x) /\ x.failed = "closed" /\ DOMAIN x.cache = {}
    BY <2>1, <2>2, <2>4, <2>5, FailSays
  <2>7. Honest(x)
    BY <2>6 DEF Honest
  <2>8. SamePort
    BY <2>2, SpendPort
  <2> QED
    BY <2>2, <2>3, <2>4, <2>6, <2>7, <2>8, SourceCall
<1>5. CASE Drain
  <2>1. PICK r : r = CheckAccess(src)
    OBVIOUS
  <2>2. PICK x, v : x = [r EXCEPT !.effects = <<>>, !.updates = <<>>] /\ v = Drained(upstream, r)
    OBVIOUS
  <2>3. src' = x /\ upstream' = v /\ UNCHANGED <<dst, down, up, delayed, budget>>
    BY <1>5, <2>1, <2>2 DEF Drain
  <2>4. PICK G : G = upstream.gone
    OBVIOUS
  <2>5. Says(G, src, r) /\ Solid(G, r) /\ Honest(r) /\ IsHost(upstream)
    BY <2>1, <2>4, CheckedSays DEF LinkInv, SourceOk
  <2>6. r.sent = <<>> /\ r.mappings = src.mappings /\ r.inflight \in {src.inflight, Empty}
    <3>1. Solid(G, src) /\ src.sent = <<>>
      BY <2>4 DEF LinkInv, SourceOk
    <3> QED
      BY <2>1, <3>1, CheckStays
  <2>7. SourceOk(upstream, r) /\ IsRelay(r) /\ IsSeq(r.effects) /\ IsSeq(r.updates)
    BY <2>4, <2>5, <2>6 DEF SourceOk, Solid, Shape
  <2>8. IsRelay(x) /\ x.effects = <<>> /\ x.updates = <<>> /\ \A k \in Fields \ {"effects", "updates"} : x[k] = r[k]
    BY <2>2, <2>7 DEF IsRelay, IsMap, Fields
  <2>9. Steady(r, x)
    BY <2>8 DEF Steady, Fields
  <2>10. SourceOk(upstream, x) /\ FreshAfter(r, x)
    BY <2>7, <2>8, <2>9, NilFacts, SteadyOk
  <2>11. IsHost(v) /\ v.gone = G
    <3>1. PICK a : a = AfterEffects(upstream, r.effects)
      OBVIOUS
    <3>2. IsHost(a) /\ a.gone = G
      BY <2>4, <2>5, <2>7, <3>1, EffectsHost
    <3>3. v = AfterClaims(a, r.updates)
      BY <2>2, <3>1 DEF Drained
    <3>4. PICK q : q = r.updates
      OBVIOUS
    <3>5. IsSeq(q)
      BY <2>7, <3>4
    <3> QED
      BY <3>2, <3>3, <3>4, <3>5, ClaimsHost
  <2>12. SourceOk(v, x)
    BY <2>4, <2>10, <2>11 DEF SourceOk
  <2>13. FreshAfter(src, x)
    BY <2>5, <2>10 DEF Says, Tells, FreshAfter
  <2>14. SamePort
    BY <2>3, KeptPort
  <2>15. x.mappings = src.mappings /\ x.inflight \in {src.inflight, Empty}
    BY <2>6, <2>9 DEF Steady
  <2> QED
    BY <2>3, <2>4, <2>11, <2>12, <2>13, <2>14, <2>15, QuietStep
<1> QED
  BY <1>2, <1>3, <1>4, <1>5

LEMMA NothingHeld == LedgerOk(NoInput)
<1>1. DOMAIN Empty = {}
  BY DEF Empty
<1>2. IsFiniteSet(DOMAIN Empty) /\ IsFiniteSet({})
  BY <1>1, FS_EmptySet
<1> QED
  BY <1>2, LedgerKind DEF NoInput

LEMMA PortLinked ==
  ASSUME LinkInv, NEW s \in Surfaces, PortSends(s)
  PROVE  LinkInv'
<1>1. PICK l, h, w : l = down /\ h = delayed /\ w = delayed[s]
  OBVIOUS
<1>2. PICK e, v : e = Head(w) /\ v = Tail(w)
  OBVIOUS
<1>3. PICK k, g : k = Append(l, e) /\ g = [h EXCEPT ![s] = Tail(@)]
  OBVIOUS
<1>4. w # <<>> /\ down' = k /\ delayed' = g /\ UNCHANGED <<src, dst, upstream, up, budget>>
  BY <1>1, <1>2, <1>3 DEF PortSends, relays
<1>5. /\ IsSeq(l) /\ h = [t \in Surfaces |-> h[t]]
      /\ \A i \in 1 .. Len(l) : l[i].kind = "cursor" => Fresh(src, l[i].session, l[i].surface, l[i].value.seq)
      /\ \A t \in Surfaces : IsSeq(h[t]) /\ \A i \in 1 .. Len(h[t]) : h[t][i].kind # "cursor"
      /\ ~budget.encoded => AllSent(h)
  <2>1. PICK p : p = ThePort
    OBVIOUS
  <2>2. p.lane = l /\ p.held = h /\ PortOk(src, p)
    BY <1>1, <2>1 DEF LinkInv, ThePort
  <2> QED
    BY <2>2 DEF PortOk
<1>6. w = h[s] /\ IsSeq(w) /\ \A i \in 1 .. Len(w) : w[i].kind # "cursor"
  BY <1>1, <1>5
<1>7. Len(w) # 0 /\ Len(w) \in Nat /\ e = w[1] /\ IsSeq(v) /\ Len(v) = Len(w) - 1 /\ \A i \in 1 .. Len(v) : v[i] = w[i + 1]
  <2>1. PICK E : w \in Seq(E)
    BY <1>6 DEF IsSeq
  <2>2. Len(w) # 0 /\ Len(w) \in Nat /\ v \in Seq(E) /\ Len(v) = Len(w) - 1 /\ e = w[1]
    BY <1>2, <1>4, <2>1
  <2>3. \A i \in 1 .. Len(v) : v[i] = w[i + 1]
    BY <1>2, <1>4, <2>1
  <2> QED
    BY <2>2, <2>3 DEF IsSeq
<1>8. e.kind # "cursor" /\ \A i \in 1 .. Len(v) : v[i].kind # "cursor"
  <2>1. e.kind # "cursor"
    BY <1>6, <1>7
  <2>2. ASSUME NEW i \in 1 .. Len(v) PROVE v[i].kind # "cursor"
    <3>1. i + 1 \in 1 .. Len(w) /\ v[i] = w[i + 1]
      BY <1>7
    <3> QED
      BY <1>6, <3>1
  <2> QED
    BY <2>1, <2>2
<1>9. g = [t \in Surfaces |-> g[t]] /\ g[s] = v /\ \A t \in Surfaces \ {s} : g[t] = h[t]
  BY <1>2, <1>3, <1>5, <1>6
<1>10. IsSeq(k) /\ \A i \in 1 .. Len(k) : k[i].kind = "cursor" => Fresh(src, k[i].session, k[i].surface, k[i].value.seq)
  BY <1>3, <1>5, <1>8, LaneAppend
<1>11. \A t \in Surfaces : IsSeq(g[t]) /\ \A i \in 1 .. Len(g[t]) : g[t][i].kind # "cursor"
  BY <1>5, <1>7, <1>8, <1>9
<1>12. budget.encoded
  BY <1>5, <1>6, <1>7 DEF AllSent
<1>13. PICK p : p = [lane |-> k, held |-> g]
  OBVIOUS
<1>14. PortOk(src, p)
  BY <1>9, <1>10, <1>11, <1>12, <1>13 DEF PortOk
<1>15. SamePort
  BY <1>4, KeptPort
<1>16. PortOk(src, ThePort)'
  BY <1>4, <1>13, <1>14, <1>15, PortHolds
<1>17. ASSUME dst.failed = None PROVE Routes(upstream.gone, dst.sessions, src.mappings, p)
  <2>1. PICK a : Path(dst.sessions, l, a) /\ Agrees(upstream.gone, a, src.mappings, h)
    BY <1>1, <1>17 DEF LinkInv, Routes, ThePort
  <2>2. PICK G, b, m : G = upstream.gone /\ b = dst.sessions /\ m = src.mappings
    OBVIOUS
  <2>3. PICK c : Legal(a, Head(h[s]), c) /\ Agrees(G, c, m, [h EXCEPT ![s] = Tail(@)])
    <3>1. Agrees(G, a, m, h) /\ Len(h[s]) # 0
      BY <1>6, <1>7, <2>1, <2>2
    <3> QED
      BY ONLY <3>1, s \in Surfaces, AgreesSends
  <2>4. Legal(a, e, c) /\ Agrees(G, c, m, g)
    BY <1>2, <1>3, <1>6, <2>3
  <2>5. Path(b, k, c)
    BY <1>3, <1>5, <2>1, <2>2, <2>4, PathAppend
  <2> QED
    BY <1>13, <2>2, <2>4, <2>5 DEF Routes
<1>18. ThePort' = p
  BY <1>4, <1>13 DEF ThePort
<1>19. dst.failed = None => Credit(src.inflight, down', up')
  <2>1. \A y : CarriedIn(y, l) => CarriedIn(y, k)
    BY <1>3, <1>5, CarriedAppend
  <2> QED
    BY <1>1, <1>4, <2>1 DEF LinkInv, Credit
<1> QED
  BY <1>4, <1>15, <1>16, <1>17, <1>18, <1>19 DEF LinkInv, SamePort

\* What the runtime takes leaves the relay as it is.
LEMMA DrainedOk ==
  ASSUME NEW x, NEW d, DstOk(x, d), NEW y, y = [d EXCEPT !.events = <<>>, !.updates = Empty, !.sent = <<>>]
  PROVE  DstOk(x, y) /\ y.failed = d.failed /\ y.sessions = d.sessions
<1>1. IsDst(y) /\ y.failed = d.failed /\ y.sessions = d.sessions /\ y.ledger = d.ledger /\ y.sent = <<>>
  BY DEF DstOk, IsDst, DstFields, IsMap
<1>2. IsSeq(<<>>) /\ 1 .. Len(<<>>) = {}
  BY NilFacts
<1> QED
  BY <1>1, <1>2 DEF DstOk, Acks

LEMMA DestinationLinked ==
  ASSUME LinkInv, DestinationPoll \/ DestinationClosed
  PROVE  LinkInv'
<1>1. CASE DestinationPoll
  <2>1. PICK n \in {1, Len(down)} \ {0} :
          /\ down # <<>> /\ dst.failed = None
          /\ DrainInto(ApplyEach(dst, SubSeq(down, 1, n))) /\ up' = up \o ApplyEach(dst, SubSeq(down, 1, n)).sent
          /\ down' = SubSeq(down, n + 1, Len(down))
          /\ UNCHANGED <<src, upstream, delayed, budget>>
    BY <1>1 DEF DestinationPoll
  <2>2. PICK l, h : l = down /\ h = delayed
    OBVIOUS
  <2>3. PICK p : p = ThePort
    OBVIOUS
  <2>4. p.lane = l /\ p.held = h /\ PortOk(src, p) /\ p = [lane |-> l, held |-> h]
    BY <2>2, <2>3 DEF LinkInv, ThePort
  <2>5. IsSeq(l) /\ \A i \in 1 .. Len(l) : l[i].kind = "cursor" => Fresh(src, l[i].session, l[i].surface, l[i].value.seq)
    BY <2>4 DEF PortOk
  <2>6. Len(l) \in Nat /\ n \in 0 .. Len(l)
    <3>1. PICK E : l \in Seq(E)
      BY <2>5 DEF IsSeq
    <3>2. Len(l) \in Nat /\ Len(l) # 0
      BY <2>1, <2>2, <3>1
    <3> QED
      BY <2>1, <2>2, <3>2
  <2>7. PICK d : d = ApplyEach(dst, SubSeq(l, 1, n))
    OBVIOUS
  <2>8. PICK a : Path(dst.sessions, l, a) /\ Agrees(upstream.gone, a, src.mappings, h)
    BY <2>1, <2>3, <2>4 DEF LinkInv, Routes
  <2>9. PICK f : PathBy(f, dst.sessions, l, a)
    BY <2>8 DEF Path
  <2>10. DstOk(src, dst)
    BY DEF LinkInv
  <2>11. /\ DstOk(src, d) /\ d.failed = None /\ d.sessions = f[n]
         /\ \A i \in 1 .. n : \A g : Carries(g, l[i]) => AnsweredIn(g, d.sent)
    <3>1. PICK x, o : x = src /\ o = dst
      OBVIOUS
    <3>2. DstOk(x, o) /\ o.failed = None /\ PathBy(f, o.sessions, l, a)
      BY <2>1, <2>9, <2>10, <3>1
    <3>3. CursorsFresh(x, l)
      BY <2>5, <3>1 DEF CursorsFresh
    <3>4. IsSeq(l) /\ n \in 0 .. Len(l)
      BY <2>5, <2>6
    <3>5. d = ApplyEach(o, SubSeq(l, 1, n))
      BY <2>7, <3>1
    <3>6. /\ DstOk(x, d) /\ d.failed = None /\ d.sessions = f[n]
          /\ \A i \in 1 .. n : \A g : Carries(g, l[i]) => AnsweredIn(g, d.sent)
      <4>1. Polls(x, o, l, f, a, n)
        BY <3>2, <3>3, <3>4 DEF Polls
      <4> QED
        BY <3>5, <4>1, PollOk
    <3> QED
      BY <3>1, <3>6
  <2>12. dst' = [d EXCEPT !.events = <<>>, !.updates = Empty, !.sent = <<>>] /\ up' = up \o d.sent
    BY <2>1, <2>2, <2>7 DEF DrainInto
  <2>13. DstOk(src, dst') /\ dst'.failed = None /\ dst'.sessions = f[n]
    BY <2>11, <2>12, DrainedOk
  <2>14. Acks(src, up')
    <3>1. PICK q : q = d.sent
      OBVIOUS
    <3>2. Acks(src, q) /\ Acks(src, up)
      BY <2>11, <3>1 DEF DstOk, LinkInv
    <3>3. Acks(src, up \o q)
      BY <3>2, AcksConcat
    <3> QED
      BY <2>12, <3>1, <3>3
  <2>15. PICK w : w = SubSeq(l, n + 1, Len(l))
    OBVIOUS
  <2>16. Path(f[n], w, a)
    BY <2>5, <2>6, <2>9, <2>15, PathRest
  <2>17. IsSeq(w) /\ Len(w) = Len(l) - n /\ \A i \in 1 .. Len(l) - n : w[i] = l[n + i]
    BY <2>5, <2>6, <2>15, PartFacts
  <2>18. ASSUME NEW i \in 1 .. Len(w), w[i].kind = "cursor"
         PROVE  Fresh(src, w[i].session, w[i].surface, w[i].value.seq)
    <3>1. n + i \in 1 .. Len(l) /\ w[i] = l[n + i]
      BY <2>6, <2>17
    <3> QED
      BY <2>5, <2>18, <3>1
  <2>19. PICK k : k = [lane |-> w, held |-> h]
    OBVIOUS
  <2>20. k.lane = w /\ k.held = h
    BY <2>19
  <2>21. PortOk(src, k)
    BY <2>4, <2>17, <2>18, <2>19, <2>20 DEF PortOk
  <2>22. down' = w /\ delayed' = h /\ SamePort
    BY <2>1, <2>2, <2>15, KeptPort
  <2>23. PortOk(src', k) /\ k = [lane |-> down', held |-> delayed']
    BY <2>1, <2>19, <2>21, <2>22
  <2>24. PortOk(src, ThePort)'
    BY <2>22, <2>23, PortHolds
  <2>25. Routes(upstream.gone, dst'.sessions, src.mappings, k)
    BY <2>8, <2>13, <2>16, <2>20 DEF Routes
  <2>26. ThePort' = k
    BY <2>19, <2>22 DEF ThePort
  <2>27. Credit(src.inflight, down', up')
    <3>1. PICK g, q : g = src.inflight /\ q = d.sent
      OBVIOUS
    <3>2. IsSeq(up) /\ IsSeq(q)
      BY <2>11, <3>1 DEF LinkInv, DstOk, Acks
    <3>3. AnsweredIn(g, up) \/ AnsweredIn(g, q) => AnsweredIn(g, up \o q)
      BY <3>2, AnsweredConcat
    <3>4. ASSUME CarriedIn(g, l) PROVE CarriedIn(g, w) \/ AnsweredIn(g, q)
      <4>1. PICK i \in 1 .. Len(l) : Carries(g, l[i])
        BY <3>4 DEF CarriedIn
      <4>2. CASE i <= n
        <5>1. i \in 1 .. n
          BY <2>6, <4>2
        <5> QED
          BY <2>11, <3>1, <4>1, <5>1
      <4>3. CASE ~(i <= n)
        <5>1. i - n \in 1 .. Len(w) /\ w[i - n] = l[n + (i - n)] /\ n + (i - n) = i
          BY <2>6, <2>17, <4>3
        <5> QED
          BY <4>1, <5>1 DEF CarriedIn
      <4> QED
        BY <4>2, <4>3
    <3>5. g = Empty \/ CarriedIn(g, l) \/ AnsweredIn(g, up)
      BY <2>1, <2>2, <3>1 DEF LinkInv, Credit
    <3> QED
      BY <2>12, <2>22, <3>1, <3>3, <3>4, <3>5 DEF Credit
  <2> QED
    BY <2>1, <2>13, <2>14, <2>22, <2>24, <2>25, <2>26, <2>27 DEF LinkInv, SamePort
<1>2. CASE DestinationClosed
  <2>1. PICK d : d = FailDestination(dst, "closed")
    OBVIOUS
  <2>2. /\ dst.failed = None /\ dst' = [d EXCEPT !.events = <<>>, !.updates = Empty, !.sent = <<>>]
        /\ UNCHANGED <<src, upstream, down, up, delayed, budget>>
    BY <1>2, <2>1 DEF DestinationClosed, DrainInto
  <2>3. DstOk(src, d) /\ d.failed = "closed"
    BY <2>1, <2>2, FailDestinationOk DEF LinkInv
  <2>4. DstOk(src, dst') /\ dst'.failed = "closed"
    BY <2>2, <2>3, DrainedOk
  <2>5. SamePort /\ Acks(src, up') /\ "closed" # None
    BY <2>2, KeptPort DEF LinkInv, None
  <2> QED
    BY <2>2, <2>4, <2>5, ViewerStep
<1> QED
  BY <1>1, <1>2

\* A message of the user, who may have changed what is held.
LEMMA UserLinked ==
  ASSUME LinkInv, NEW q, Acks(src, q), User(q), NEW l, LedgerOk(l), dst' = dst \/ dst' = [dst EXCEPT !.ledger = l]
  PROVE  LinkInv'
<1>1. DstOk(src, dst)
  BY DEF LinkInv
<1>2. DstOk(src, dst') /\ dst'.failed = dst.failed /\ dst'.sessions = dst.sessions
  <2>1. CASE dst' = dst
    BY <1>1, <2>1
  <2>2. CASE dst' = [dst EXCEPT !.ledger = l]
    <3>1. IsDst(dst') /\ dst'.failed = dst.failed /\ dst'.sessions = dst.sessions /\ dst'.ledger = l /\ dst'.sent = dst.sent
      BY <1>1, <2>2 DEF DstOk, IsDst, DstFields, IsMap
    <3> QED
      BY <1>1, <3>1 DEF DstOk
  <2> QED
    BY <2>1, <2>2
<1>3. Acks(src, up')
  BY AcksConcat DEF LinkInv, User
<1>4. SamePort
  BY SpendPort DEF User
<1>5. UNCHANGED <<src, upstream, down, delayed>>
  BY DEF User
<1>6. dst.failed \in {None, "closed"}
  BY DEF LinkInv
<1>7. \A g : AnsweredIn(g, up) => AnsweredIn(g, up')
  <2>1. IsSeq(up) /\ IsSeq(q) /\ up' = up \o q
    BY DEF LinkInv, User, Acks
  <2> QED
    BY <2>1, AnsweredConcat
<1> QED
  BY <1>2, <1>3, <1>4, <1>5, <1>6, <1>7, ViewerStep

LEMMA OneAck ==
  ASSUME NEW x, NEW kind, kind # "ack", NEW n, NEW s, NEW value
  PROVE  Acks(x, <<Envelope(kind, n, s, value)>>)
<1>1. PICK m : m = Envelope(kind, n, s, value)
  OBVIOUS
<1>2. m.kind # "ack"
  BY <1>1 DEF Envelope
<1>3. IsSeq(<<m>>) /\ Len(<<m>>) = 1 /\ <<m>>[1] = m
  BY OneFacts
<1>4. \A i \in 1 .. Len(<<m>>) : <<m>>[i] = m
  BY <1>3
<1> QED
  BY <1>1, <1>2, <1>3, <1>4 DEF Acks, AckFresh

LEMMA InputLinked ==
  ASSUME LinkInv, NEW s \in Surfaces, UserInput(s) \/ UserFocus(s) \/ UserPresents(s)
  PROVE  LinkInv'
<1>1. LedgerOk(dst.ledger) /\ IsDst(dst)
  BY DEF LinkInv, DstOk
<1>2. CASE UserInput(s)
  <2>1. PICK e : ApplyInput(e) /\ User(<<Envelope("input", dst.sessions[s], s, e)>>)
    BY <1>2 DEF UserInput
  <2>2. PICK l : l = Observe(dst.ledger, e)
    OBVIOUS
  <2>3. dst' = [dst EXCEPT !.ledger = l]
    BY <1>1, <2>1, <2>2 DEF ApplyInput, IsDst, DstFields
  <2>4. LedgerOk(l)
    BY <1>1, <2>2, ObserveOk
  <2>5. Acks(src, <<Envelope("input", dst.sessions[s], s, e)>>)
    BY OneAck
  <2> QED
    BY <2>1, <2>3, <2>4, <2>5, UserLinked
<1>3. CASE UserFocus(s)
  <2>1. ApplyFocus(s) /\ User(<<Envelope("focus", dst.sessions[s], s, None)>>)
    BY <1>3 DEF UserFocus
  <2>2. PICK l : l = Focused(dst.ledger, s)
    OBVIOUS
  <2>3. dst' = [dst EXCEPT !.ledger = l]
    BY <1>1, <2>1, <2>2 DEF ApplyFocus, IsDst, DstFields
  <2>4. LedgerOk(l)
    BY <1>1, <2>2, FocusedOk
  <2>5. Acks(src, <<Envelope("focus", dst.sessions[s], s, None)>>)
    BY OneAck
  <2> QED
    BY <2>1, <2>3, <2>4, <2>5, UserLinked
<1>4. CASE UserPresents(s)
  <2>1. PICK claim, kind : /\ kind \in {"claim", "scale"} /\ dst' = dst
                           /\ User(<<Envelope(kind, dst.sessions[s], s, claim)>>)
    BY <1>4 DEF UserPresents
  <2>2. Acks(src, <<Envelope(kind, dst.sessions[s], s, claim)>>)
    BY <2>1, OneAck
  <2>3. PICK q, l : q = <<Envelope(kind, dst.sessions[s], s, claim)>> /\ l = dst.ledger
    OBVIOUS
  <2>4. Acks(src, q) /\ User(q) /\ LedgerOk(l) /\ dst' = dst
    BY <1>1, <2>1, <2>2, <2>3
  <2> QED
    BY <2>4, UserLinked
<1> QED
  BY <1>2, <1>3, <1>4

LEMMA AwayLinked ==
  ASSUME LinkInv, UserUnfocus \/ UserFocusLost
  PROVE  LinkInv'
<1>1. LedgerOk(dst.ledger) /\ IsDst(dst)
  BY DEF LinkInv, DstOk
<1>2. CASE UserUnfocus
  <2>1. PICK n : ApplyFocus(None) /\ User(<<Envelope("focus", n, None, None)>>)
    BY <1>2 DEF UserUnfocus
  <2>2. PICK l : l = Focused(dst.ledger, None)
    OBVIOUS
  <2>3. dst' = [dst EXCEPT !.ledger = l]
    BY <1>1, <2>1, <2>2 DEF ApplyFocus, IsDst, DstFields
  <2>4. LedgerOk(l)
    BY <1>1, <2>2, FocusedOk
  <2>5. Acks(src, <<Envelope("focus", n, None, None)>>)
    BY OneAck
  <2> QED
    BY <2>1, <2>3, <2>4, <2>5, UserLinked
<1>3. CASE UserFocusLost
  <2>1. dst' = [dst EXCEPT !.ledger = NoInput] /\ User(FocusLostMessages)
    BY <1>3 DEF UserFocusLost
  <2>2. LedgerOk(NoInput)
    BY NothingHeld
  <2>3. Acks(src, FocusLostMessages)
    BY <1>1, FocusLostAcks
  <2> QED
    BY <2>1, <2>2, <2>3, UserLinked
<1> QED
  BY <1>2, <1>3

LEMMA InitLinked == Init => LinkInv
<1> SUFFICES ASSUME Init PROVE LinkInv
  OBVIOUS
<1>1. PICK e \in Environments : SourceRelayInit(e.admission, e.ready, e.inventory) /\ budget = e
  BY DEF Init
<1>2. "encoded" \in DOMAIN budget
  BY <1>1, LinkAssumption
<1>3. PICK g : src = [admission |-> e.admission, failed |-> None, revoked |-> FALSE, ready |-> e.ready, connected |-> FALSE,
                      admitting |-> FALSE, mappings |-> Empty, reserved |-> Empty, cache |-> g, claims |-> Empty,
                      updates |-> <<>>, ledger |-> NoInput, effects |-> <<>>, inflight |-> Empty, nextCursor |-> 1,
                      cursors |-> <<>>, nextSession |-> 1, sent |-> <<>>]
  BY <1>1 DEF SourceRelayInit
<1>4. upstream = [seat |-> NoSeat, claims |-> Empty, scaled |-> {}, gone |-> {}]
  BY <1>1 DEF SourceRelayInit
<1>5. DOMAIN Empty = {} /\ IsMap(Empty)
  BY DEF Empty, IsMap
<1>6. IsHost(upstream) /\ upstream.gone = {}
  BY <1>4, <1>5 DEF IsHost
<1>7. /\ src.mappings = Empty /\ src.cache = g /\ src.sent = <<>> /\ src.cursors = <<>> /\ src.inflight = Empty
      /\ src.nextCursor = 1 /\ src.failed = None /\ src.revoked = FALSE /\ src.claims = Empty
  BY <1>3
<1>8. Shape(src) /\ IsRelay(src)
  BY <1>7, InitSound DEF RelayInv, Sound, Settled, Told
<1>9. Cur({}, src)
  BY <1>5, <1>7, <1>8, NilFacts DEF Cur, Shape, CacheOk
<1>10. SourceOk(upstream, src)
  BY <1>5, <1>6, <1>7, <1>8, <1>9 DEF SourceOk, Solid, Honest, Up
<1>11. IsSeq(<<>>) /\ Len(<<>>) = 0 /\ 1 .. Len(<<>>) = {}
  BY NilFacts
<1>12. PICK h : h = [s \in Surfaces |-> <<>>]
  OBVIOUS
<1>13. h = [s \in Surfaces |-> h[s]] /\ \A s \in Surfaces : h[s] = <<>>
  BY <1>12
<1>14. PICK p : p = ThePort
  OBVIOUS
<1>15. p = [lane |-> <<>>, held |-> h] /\ p.lane = <<>> /\ p.held = h
  BY <1>12, <1>14 DEF Init, ThePort
<1>16. PortOk(src, p)
  BY <1>11, <1>13, <1>15 DEF PortOk, AllSent
<1>17. dst = [failed |-> None, sessions |-> Empty, roles |-> Empty, ledger |-> NoInput, updates |-> Empty,
              events |-> <<>>, sent |-> <<>>]
  BY DEF Init, DestinationRelayInit
<1>18. IsDst(dst) /\ dst.ledger = NoInput /\ dst.sent = <<>> /\ dst.failed = None /\ dst.sessions = Empty
  BY <1>17 DEF IsDst, IsMap, DstFields
<1>19. Acks(src, <<>>)
  BY <1>11 DEF Acks
<1>20. DstOk(src, dst)
  BY <1>18, <1>19, NothingHeld DEF DstOk
<1>21. Agrees({}, Empty, Empty, h)
  BY <1>5, <1>11, <1>13 DEF Agrees, Behind
<1>22. Routes({}, Empty, Empty, p)
  BY <1>15, <1>21, NoPath DEF Routes
<1>23. up = <<>>
  BY DEF Init
<1>24. Credit(src.inflight, down, up)
  BY <1>7 DEF Credit
<1> QED
  BY <1>2, <1>6, <1>7, <1>10, <1>14, <1>16, <1>18, <1>19, <1>20, <1>22, <1>23, <1>24 DEF LinkInv

LEMMA NextLinked == RelayInv /\ LinkInv /\ [Next]_vars => LinkInv'
<1> SUFFICES ASSUME RelayInv, LinkInv, [Next]_vars PROVE LinkInv'
  OBVIOUS
<1>1. CASE Authorize \/ Revoke \/ SourceClosed \/ Drain
  BY <1>1, FlagsLinked
<1>2. CASE SourcePoll
  BY <1>2, PollLinked
<1>3. ASSUME NEW s \in Surfaces, CommandMap(s) \/ CommandUnmap(s)
      PROVE  LinkInv'
  BY <1>3, CommandLinked
<1>4. ASSUME NEW s \in Surfaces, ClientRole(s) \/ ClientCommit(s) \/ ClientCursor(s)
      PROVE  LinkInv'
  BY <1>4, ClientLinked
<1>5. ASSUME NEW s \in Surfaces, ClientDestroyed(s)
      PROVE  LinkInv'
  BY <1>5, DestroyedLinked
<1>6. ASSUME NEW s \in Surfaces, PortSends(s)
      PROVE  LinkInv'
  BY <1>6, PortLinked
<1>7. CASE DestinationPoll \/ DestinationClosed
  BY <1>7, DestinationLinked
<1>8. CASE UserUnfocus \/ UserFocusLost
  BY <1>8, AwayLinked
<1>9. ASSUME NEW s \in Surfaces, UserInput(s) \/ UserFocus(s) \/ UserPresents(s)
      PROVE  LinkInv'
  BY <1>9, InputLinked
<1>10. CASE UNCHANGED vars
  BY <1>10 DEF vars, relays, LinkInv, SourceOk, ThePort, PortOk, AllSent
<1> QED
  BY <1>1, <1>2, <1>3, <1>4, <1>5, <1>6, <1>7, <1>8, <1>9, <1>10 DEF Next, SourceNext, DestinationNext

-----------------------------------------------------------------------------
\* Neither end reports a protocol error for any order of mapping, withdrawal,
\* destruction, cursors and acknowledgements, over an ordered transport or behind
\* an encoded port, except for messages of a session that has ended.
THEOREM OnlyStaleSessionsEverFail == Spec => []OnlyStaleSessionsFail
<1>1. LinkInv => OnlyStaleSessionsFail
  BY DEF LinkInv, SourceOk, Honest, OnlyStaleSessionsFail
<1> QED
  BY <1>1, InitSound, NextSound, InitLinked, NextLinked, PTL DEF Spec

\* The one credit for cursors is never lost: while the destination lives, a cursor
\* in flight is on its way there or its acknowledgement is on its way back, whatever
\* was mapped, withdrawn, destroyed or revoked meanwhile and over any transport; so
\* nothing is in flight when both lanes are empty.
THEOREM CreditAlwaysReturns == Spec => []CreditReturned
<1>1. LinkInv => CreditReturned
  <2> SUFFICES ASSUME LinkInv, down = <<>>, up = <<>>, dst.failed = None PROVE src.inflight = Empty
    BY DEF CreditReturned
  <2>1. 1 .. Len(<<>>) = {}
    BY NilFacts
  <2>2. ~CarriedIn(src.inflight, down) /\ ~AnsweredIn(src.inflight, up)
    BY <2>1 DEF CarriedIn, AnsweredIn
  <2> QED
    BY <2>2 DEF LinkInv, Credit
<1> QED
  BY <1>1, InitSound, NextSound, InitLinked, NextLinked, PTL DEF Spec
=============================================================================
