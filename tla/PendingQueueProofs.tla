------------------------- MODULE PendingQueueProofs -------------------------
(***************************************************************************)
(* RepaintsCoalesce and QueueIsTransparent for any surfaces, layers, limit *)
(* of the queue and number of pushes. What an insertion does to a queue is *)
(* an append, a replacement in place, or a move to the back, and each      *)
(* keeps the queue coalesced; the plan read from the back says that        *)
(* nothing the new commit passes over is of its surface. For a consumer,   *)
(* a record moved or merged this way does what the superseded record and   *)
(* the new one would have done, since what lies between them touches other *)
(* surfaces or another part of the view.                                   *)
(***************************************************************************)
EXTENDS PendingQueue, SequenceTheorems, WellFoundedInduction, TLAPS

\* What repaints may not cross, and which commits they supersede.
Blocks(r) == IsControl(r.event) \/ r.barrier
Alike(r, s) ==
  /\ r.event.kind = "commit" /\ s.event.kind = "commit" /\ r.event.surface = s.event.surface
  /\ r.event.session = s.event.session /\ r.event.mapped = s.event.mapped

Coalesced(q) ==
  \A i, j \in DOMAIN q : i < j /\ Alike(q[i], q[j]) => \E k \in i + 1 .. j : Blocks(q[k])

Records(E) == [event : E, barrier : BOOLEAN]

OkQueue(q) == (\E E : q \in Seq(Records(E))) /\ Coalesced(q)

QueueInv == OkQueue(queue)

-----------------------------------------------------------------------------
(* Sequences.                                                              *)

Less == {p \in Nat \X Nat : p[1] < p[2]}

LEMMA LessWellFounded == IsWellFoundedOn(Less, Nat)
BY NatLessThanWellFounded DEF OpToRel, Less

LEMMA NotLess ==
  ASSUME NEW x \in Nat, NEW y \in Nat, ~(<<y, x>> \in Less)
  PROVE  x <= y
BY DEF Less

LEMMA MinimalOf ==
  ASSUME NEW T, T \subseteq Nat, T # {}
  PROVE  \E x \in T : \A y \in T : ~(<<y, x>> \in Less)
BY LessWellFounded, WFMin, Zenon

LEMMA LeastOf ==
  ASSUME NEW T, T \subseteq Nat, T # {}
  PROVE  \E x \in T : \A y \in T : x <= y
<1>1. PICK x \in T : \A y \in T : ~(<<y, x>> \in Less)
  BY MinimalOf
<1>2. \A y \in T : x <= y
  BY <1>1, NotLess
<1> QED
  BY <1>2

\* Induction over the indices of a sequence, from the least counterexample.
LEMMA Induct ==
  ASSUME NEW N \in Nat, NEW a \in 0 .. N, NEW P, a \in P,
         \A n \in a + 1 .. N : n - 1 \in P => n \in P
  PROVE  \A n \in a .. N : n \in P
<1> DEFINE T == {n \in a .. N : n \notin P}
<1> SUFFICES ASSUME T # {} PROVE FALSE
  OBVIOUS
<1>1. T \subseteq Nat
  OBVIOUS
<1> HIDE DEF T
<1>2. PICK x \in T : \A y \in T : x <= y
  BY <1>1, LeastOf
<1>3. x \in a .. N /\ x \notin P
  BY <1>2 DEF T
<1>4. x # a
  BY <1>3
<1>5. x \in a + 1 .. N /\ x - 1 \in a .. N
  BY <1>3, <1>4
<1>6. x - 1 \notin P
  BY <1>3, <1>5
<1>7. x - 1 \in T
  BY <1>5, <1>6 DEF T
<1>8. x <= x - 1
  BY <1>2, <1>7
<1> QED
  BY <1>3, <1>8

\* SelectLastInSeq takes the greatest index of a bounded set.
LEMMA MaxIndex ==
  ASSUME NEW n \in Nat, NEW I \in SUBSET (1 .. n), I # {}
  PROVE  Max(I) \in I /\ \A i \in I : i <= Max(I)
<1> DEFINE T == {x \in Nat : \E i \in I : x = n - i}
<1>1. T # {}
  <2>1. PICK i \in I : TRUE
    OBVIOUS
  <2>2. n - i \in Nat
    OBVIOUS
  <2> QED
    BY <2>2
<1>2. PICK x \in T : \A y \in T : x <= y
  <2>1. T \subseteq Nat
    OBVIOUS
  <2> HIDE DEF T
  <2> QED
    BY <1>1, <2>1, LeastOf
<1>3. PICK m \in I : x = n - m
  BY <1>2
<1>4. \A i \in I : m >= i
  BY <1>2, <1>3
<1>5. Max(I) \in I /\ \A i \in I : Max(I) >= i
  BY <1>4 DEF Max
<1> QED
  BY <1>5

LEMMA TailAt ==
  ASSUME NEW S, NEW q \in Seq(S), q # <<>>
  PROVE  /\ Tail(q) \in Seq(S) /\ DOMAIN Tail(q) = 1 .. Len(q) - 1
         /\ \A i \in 1 .. Len(q) - 1 : Tail(q)[i] = q[i + 1]
OBVIOUS

LEMMA RemoveAtAt ==
  ASSUME NEW S, NEW q \in Seq(S), NEW i \in 1 .. Len(q)
  PROVE  /\ RemoveAt(q, i) \in Seq(S) /\ Len(RemoveAt(q, i)) = Len(q) - 1
         /\ \A j \in 1 .. i - 1 : RemoveAt(q, i)[j] = q[j]
         /\ \A j \in i .. Len(q) - 1 : RemoveAt(q, i)[j] = q[j + 1]
<1> DEFINE f == SubSeq(q, 1, i - 1)
           b == SubSeq(q, i + 1, Len(q))
<1>1. f \in Seq(S) /\ Len(f) = i - 1 /\ \A j \in 1 .. i - 1 : f[j] = q[j]
  BY SubSeqProperties
<1>2. b \in Seq(S) /\ Len(b) = Len(q) - i /\ \A j \in 1 .. Len(q) - i : b[j] = q[j + i]
  BY SubSeqProperties
<1> HIDE DEF f, b
<1>3. /\ f \o b \in Seq(S) /\ Len(f \o b) = Len(q) - 1
      /\ \A j \in 1 .. Len(q) - 1 : (f \o b)[j] = IF j <= i - 1 THEN f[j] ELSE b[j - (i - 1)]
  BY <1>1, <1>2, ConcatProperties
<1>4. RemoveAt(q, i) = f \o b
  BY DEF RemoveAt, f, b
<1>5. \A j \in 1 .. i - 1 : (f \o b)[j] = q[j]
  BY <1>1, <1>3
<1>6. ASSUME NEW j \in i .. Len(q) - 1
      PROVE  (f \o b)[j] = q[j + 1]
  <2>1. (f \o b)[j] = b[j - (i - 1)] /\ j - (i - 1) \in 1 .. Len(q) - i
    BY <1>3
  <2>2. j - (i - 1) + i = j + 1
    OBVIOUS
  <2> QED
    BY <1>2, <2>1, <2>2
<1> QED
  BY <1>3, <1>4, <1>5, <1>6

-----------------------------------------------------------------------------
(* What keeps a queue coalesced.                                           *)

LEMMA TailCoalesced ==
  ASSUME NEW S, NEW q \in Seq(S), q # <<>>, Coalesced(q)
  PROVE  Coalesced(Tail(q))
<1> SUFFICES ASSUME NEW i \in 1 .. Len(q) - 1, NEW j \in 1 .. Len(q) - 1, i < j,
                    Alike(Tail(q)[i], Tail(q)[j])
             PROVE  \E k \in i + 1 .. j : Blocks(Tail(q)[k])
  BY TailAt, Zenon DEF Coalesced
<1>1. Alike(q[i + 1], q[j + 1]) /\ i + 1 \in DOMAIN q /\ j + 1 \in DOMAIN q /\ i + 1 < j + 1
  BY TailAt
<1>2. PICK k \in i + 2 .. j + 1 : Blocks(q[k])
  BY <1>1 DEF Coalesced
<1>3. k - 1 \in i + 1 .. j /\ Tail(q)[k - 1] = q[k]
  BY TailAt
<1> QED
  BY <1>2, <1>3

LEMMA AppendCoalesced ==
  ASSUME NEW S, NEW q \in Seq(S), NEW r \in S, Coalesced(q),
         \A a \in 1 .. Len(q) : Alike(q[a], r) =>
            Blocks(r) \/ \E k \in a + 1 .. Len(q) : Blocks(q[k])
  PROVE  Coalesced(Append(q, r))
<1> DEFINE p == Append(q, r)
<1>1. DOMAIN p = 1 .. Len(q) + 1 /\ p[Len(q) + 1] = r /\ \A i \in 1 .. Len(q) : p[i] = q[i]
  OBVIOUS
<1> HIDE DEF p
<1> SUFFICES ASSUME NEW i \in 1 .. Len(q) + 1, NEW j \in 1 .. Len(q) + 1, i < j, Alike(p[i], p[j])
             PROVE  \E k \in i + 1 .. j : Blocks(p[k])
  BY <1>1 DEF Coalesced, p
<1>2. CASE j = Len(q) + 1
  BY <1>1, <1>2
<1>3. CASE j # Len(q) + 1
  <2>1. i \in DOMAIN q /\ j \in DOMAIN q /\ Alike(q[i], q[j])
    BY <1>1, <1>3
  <2>2. PICK k \in i + 1 .. j : Blocks(q[k])
    BY <2>1 DEF Coalesced
  <2> QED
    BY <1>1, <1>3, <2>2
<1> QED
  BY <1>2, <1>3

LEMMA RemoveCoalesced ==
  ASSUME NEW S, NEW q \in Seq(S), NEW i \in 1 .. Len(q), Coalesced(q), ~Blocks(q[i])
  PROVE  Coalesced(RemoveAt(q, i))
<1> DEFINE p == RemoveAt(q, i)
           old(a) == IF a < i THEN a ELSE a + 1
<1>1. DOMAIN p = 1 .. Len(q) - 1 /\ \A a \in 1 .. Len(q) - 1 : p[a] = q[old(a)]
  <2>1. p \in Seq(S) /\ Len(p) = Len(q) - 1
    BY RemoveAtAt
  <2>2. \A a \in 1 .. i - 1 : p[a] = q[a]
    BY RemoveAtAt
  <2>3. \A a \in i .. Len(q) - 1 : p[a] = q[a + 1]
    BY RemoveAtAt
  <2> HIDE DEF p
  <2> QED
    BY <2>1, <2>2, <2>3
<1> HIDE DEF p
<1> SUFFICES ASSUME NEW a \in 1 .. Len(q) - 1, NEW b \in 1 .. Len(q) - 1, a < b, Alike(p[a], p[b])
             PROVE  \E k \in a + 1 .. b : Blocks(p[k])
  BY <1>1 DEF Coalesced, p
<1>2. old(a) \in DOMAIN q /\ old(b) \in DOMAIN q /\ old(a) < old(b) /\ Alike(q[old(a)], q[old(b)])
  BY <1>1
<1>3. PICK k \in old(a) + 1 .. old(b) : Blocks(q[k])
  BY <1>2 DEF Coalesced
<1>4. k # i
  BY <1>3
<1>5. CASE k < i
  <2>1. k \in a + 1 .. b /\ p[k] = q[k]
    BY <1>1, <1>5
  <2> QED
    BY <1>3, <2>1
<1>6. CASE k > i
  <2>1. k - 1 \in a + 1 .. b /\ p[k - 1] = q[k]
    BY <1>1, <1>6
  <2> QED
    BY <1>3, <2>1
<1> QED
  BY <1>4, <1>5, <1>6

\* The event of a record replaced.
Updated(q, i, m) == [q EXCEPT ![i].event = m]

IsUpdate(p, q, i, m) ==
  /\ DOMAIN p = 1 .. Len(q) /\ p[i].event = m /\ p[i].barrier = q[i].barrier
  /\ \A j \in 1 .. Len(q) : j # i => p[j] = q[j]

LEMMA RecordsGrow ==
  ASSUME NEW E, NEW F, E \subseteq F, NEW r \in Records(E)
  PROVE  r \in Records(F)
BY DEF Records

LEMMA RecordOf ==
  ASSUME NEW E, NEW m \in E, NEW b \in BOOLEAN
  PROVE  [event |-> m, barrier |-> b] \in Records(E)
BY DEF Records

LEMMA UpdatedAt ==
  ASSUME NEW E, NEW q \in Seq(Records(E)), NEW i \in 1 .. Len(q), NEW m
  PROVE  Updated(q, i, m) \in Seq(Records(E \union {m})) /\ IsUpdate(Updated(q, i, m), q, i, m)
<1> DEFINE p == [q EXCEPT ![i] = [event |-> m, barrier |-> q[i].barrier]]
<1>1. q[i] \in Records(E)
  OBVIOUS
<1>2. [q[i] EXCEPT !.event = m] = [event |-> m, barrier |-> q[i].barrier]
  BY <1>1 DEF Records
<1>3. Updated(q, i, m) = p
  BY <1>2, Zenon DEF Updated
<1>4. [event |-> m, barrier |-> q[i].barrier] \in Records(E \union {m})
  <2>1. q[i].barrier \in BOOLEAN
    BY <1>1 DEF Records
  <2> QED
    BY <2>1, RecordOf
<1>5. Records(E) \subseteq Records(E \union {m})
  BY RecordsGrow
<1>6. q \in Seq(Records(E \union {m}))
  BY <1>5, SeqMonotonic
<1>7. p \in Seq(Records(E \union {m})) /\ DOMAIN p = 1 .. Len(q)
  BY <1>4, <1>6
<1>8. /\ p[i].event = m /\ p[i].barrier = q[i].barrier
      /\ \A j \in 1 .. Len(q) : j # i => p[j] = q[j]
  OBVIOUS
<1>9. IsUpdate(p, q, i, m)
  BY <1>7, <1>8 DEF IsUpdate
<1> QED
  BY <1>3, <1>7, <1>9

LEMMA UpdateCoalesced ==
  ASSUME NEW E, NEW q \in Seq(Records(E)), NEW i \in 1 .. Len(q), NEW m, Coalesced(q),
         m.kind = q[i].event.kind,
         m.kind = "commit" => /\ m.surface = q[i].event.surface /\ m.session = q[i].event.session
                              /\ m.mapped = q[i].event.mapped
  PROVE  Coalesced(Updated(q, i, m))
<1> DEFINE p == Updated(q, i, m)
<1> HIDE DEF p
<1>1. /\ DOMAIN p = 1 .. Len(q) /\ p[i].event = m /\ p[i].barrier = q[i].barrier
      /\ \A j \in 1 .. Len(q) : j # i => p[j] = q[j]
  <2>1. IsUpdate(p, q, i, m)
    BY UpdatedAt DEF p
  <2> QED
    BY <2>1 DEF IsUpdate
<1> HIDE DEF p
<1>2. \A a \in DOMAIN q : Blocks(p[a]) <=> Blocks(q[a])
  <2>1. Blocks(p[i]) <=> Blocks(q[i])
    BY <1>1 DEF Blocks, IsControl
  <2> QED
    BY <1>1, <2>1
<1>3. \A a, b \in DOMAIN q : a < b => (Alike(p[a], p[b]) <=> Alike(q[a], q[b]))
  <2>1. \A a \in DOMAIN q :
          /\ p[a].event.kind = q[a].event.kind
          /\ p[a].event.kind = "commit" =>
               /\ p[a].event.surface = q[a].event.surface /\ p[a].event.session = q[a].event.session
               /\ p[a].event.mapped = q[a].event.mapped
    BY <1>1
  <2> QED
    BY <2>1 DEF Alike
<1>4. ASSUME NEW a \in DOMAIN q, NEW b \in DOMAIN q, a < b, Alike(p[a], p[b])
      PROVE  \E k \in a + 1 .. b : Blocks(p[k])
  <2>1. PICK k \in a + 1 .. b : Blocks(q[k])
    BY <1>3, <1>4 DEF Coalesced
  <2> QED
    BY <1>2, <2>1
<1>5. Coalesced(p)
  BY <1>1, <1>4 DEF Coalesced
<1> QED
  BY <1>5 DEF p

-----------------------------------------------------------------------------
(* The plans.                                                              *)

Passed(q, e, from) == \A a \in from .. Len(q) : ~OwnCommit(q[a], e) /\ ~IsControl(q[a].event)
NoControlAfter(q, i) == \A a \in i + 1 .. Len(q) : ~IsControl(q[a].event)
Compatible(r, e) == OwnCommit(r, e) /\ r.event.session = e.session /\ r.event.mapped = e.mapped
Separated(q, e) ==
  \A a \in 1 .. Len(q) : Compatible(q[a], e) => \E k \in a + 1 .. Len(q) : Blocks(q[k])

\* A commit that supersedes nothing is ordered, or separated from every older
\* compatible commit; otherwise it supersedes the last of them, which is
\* like it.
LEMMA CommitPlanned ==
  ASSUME NEW E, NEW q \in Seq(Records(E)), NEW e, e.mapped \in BOOLEAN
  PROVE  LET p == CommitPlan(q, e)
         IN /\ p.barrier \in BOOLEAN
            /\ \/ p.at = 0 /\ (p.barrier \/ Separated(q, e))
               \/ /\ p.at \in 1 .. Len(q) /\ Compatible(q[p.at], e) /\ Passed(q, e, p.at + 1)
                  /\ p.barrier = q[p.at].barrier
<1> DEFINE I == {i \in 1 .. Len(q) : OwnCommit(q[i], e) \/ StopsCommit(q[i])}
           last == IF I # {} THEN Max(I) ELSE 0
           compatible == q[last].event.session = e.session /\ q[last].event.mapped = e.mapped
           p == CommitPlan(q, e)
<1>1. p = IF last = 0 \/ ~OwnCommit(q[last], e)
            THEN [at |-> 0, barrier |-> ~e.mapped]
            ELSE [at |-> IF compatible THEN last ELSE 0, barrier |-> ~compatible \/ q[last].barrier]
  BY DEF CommitPlan, SelectLastInSeq
<1>2. I \in SUBSET (1 .. Len(q)) /\ Len(q) \in Nat
  OBVIOUS
<1>3. \A a \in 1 .. Len(q) : OwnCommit(q[a], e) \/ IsControl(q[a].event) => a \in I
  BY DEF StopsCommit
<1>4. \A a \in I : ~OwnCommit(q[a], e) => Blocks(q[a])
  BY DEF StopsCommit, Blocks
<1> HIDE DEF I
<1>5. IF I # {} THEN last \in I /\ (\A a \in I : a <= last) ELSE last = 0
  BY <1>2, MaxIndex
<1> HIDE DEF last
<1>6. last \in 0 .. Len(q) /\ Passed(q, e, last + 1)
  <2>1. last \in 0 .. Len(q)
    <3>1. \A a \in I : a \in 0 .. Len(q)
      BY <1>2
    <3>2. 0 \in 0 .. Len(q)
      BY <1>2
    <3> QED
      BY <1>5, <3>1, <3>2
  <2>2. ASSUME NEW a \in last + 1 .. Len(q), a \in I
        PROVE  FALSE
    <3>1. a <= last
      BY <1>5, <2>2
    <3> QED
      BY <2>1, <3>1
  <2>3. \A a \in last + 1 .. Len(q) : a \in 1 .. Len(q)
    BY <2>1
  <2> QED
    BY <1>3, <2>1, <2>2, <2>3 DEF Passed
<1>7. \A a \in 1 .. Len(q) : q[a].barrier \in BOOLEAN
  <2>1. \A a \in 1 .. Len(q) : q[a] \in Records(E)
    OBVIOUS
  <2> QED
    BY <2>1 DEF Records
<1> HIDE DEF p
<1>8. CASE last = 0 \/ ~OwnCommit(q[last], e)
  <2>1. p.at = 0 /\ p.barrier = ~e.mapped
    BY <1>1, <1>8
  <2>2. ASSUME NEW a \in 1 .. Len(q), OwnCommit(q[a], e)
        PROVE  last \in a + 1 .. Len(q) /\ Blocks(q[last])
    <3>1. a \in I /\ last \in I /\ a <= last
      BY <1>3, <1>5, <2>2
    <3>2. last \in 1 .. Len(q) /\ ~OwnCommit(q[last], e)
      BY <1>2, <1>8, <3>1
    <3>3. a # last
      BY <2>2, <3>2
    <3> QED
      BY <1>4, <3>1, <3>2, <3>3
  <2>3. Separated(q, e)
    BY <2>2 DEF Separated, Compatible
  <2> QED
    BY <2>1, <2>3 DEF p
<1>9. CASE ~(last = 0 \/ ~OwnCommit(q[last], e))
  <2>1. p.at = (IF compatible THEN last ELSE 0) /\ p.barrier = (~compatible \/ q[last].barrier)
    BY <1>1, <1>9
  <2>2. last \in 1 .. Len(q)
    BY <1>6, <1>9
  <2>3. CASE compatible
    BY <1>6, <1>7, <1>9, <2>1, <2>2, <2>3 DEF p, Compatible
  <2>4. CASE ~compatible
    BY <2>1, <2>4 DEF p
  <2> QED
    BY <2>3, <2>4
<1> QED
  BY <1>8, <1>9

\* Metadata supersedes metadata of its surface, and crosses no control.
MetadataPlanOk(q, e, p) ==
  /\ p.barrier = FALSE
  /\ \/ p.at = 0
     \/ /\ p.at \in 1 .. Len(q) /\ q[p.at].event.kind = "metadata"
        /\ q[p.at].event.surface = e.surface /\ NoControlAfter(q, p.at)

LEMMA MetadataPlanned ==
  ASSUME NEW E, NEW q \in Seq(Records(E)), NEW e
  PROVE  MetadataPlanOk(q, e, MetadataPlan(q, e))
<1> DEFINE own(r) == /\ r.event.kind = "metadata" /\ r.event.surface = e.surface
                     /\ r.event.session = e.session
           I == {i \in 1 .. Len(q) : own(q[i]) \/ StopsMetadata(q[i])}
           last == IF I # {} THEN Max(I) ELSE 0
<1>1. MetadataPlan(q, e) = [at |-> IF last # 0 /\ own(q[last]) THEN last ELSE 0, barrier |-> FALSE]
  BY DEF MetadataPlan, SelectLastInSeq
<1>2. I \in SUBSET (1 .. Len(q)) /\ Len(q) \in Nat
  OBVIOUS
<1>3. \A a \in 1 .. Len(q) : IsControl(q[a].event) => a \in I
  BY DEF StopsMetadata
<1> HIDE DEF I
<1>4. IF I # {} THEN last \in I /\ (\A a \in I : a <= last) ELSE last = 0
  BY <1>2, MaxIndex
<1> HIDE DEF last
<1>5. last \in 0 .. Len(q)
  <2>1. \A a \in I : a \in 0 .. Len(q)
    BY <1>2
  <2>2. 0 \in 0 .. Len(q)
    BY <1>2
  <2> QED
    BY <1>4, <2>1, <2>2
<1>6. ASSUME NEW a \in last + 1 .. Len(q), IsControl(q[a].event)
      PROVE  FALSE
  <2>1. a \in 1 .. Len(q)
    BY <1>5
  <2>2. a \in I
    BY <1>3, <1>6, <2>1
  <2>3. a <= last
    BY <1>4, <2>2
  <2> QED
    BY <1>5, <2>3
<1>7. NoControlAfter(q, last)
  BY <1>6 DEF NoControlAfter
<1> QED
  BY <1>1, <1>5, <1>7 DEF MetadataPlanOk

-----------------------------------------------------------------------------
(* PendingClientEvents::insert                                             *)

LEMMA AppendNew ==
  ASSUME NEW E, NEW q \in Seq(Records(E)), Coalesced(q), NEW e, NEW b \in BOOLEAN,
         e.kind = "commit" => b \/ Separated(q, e)
  PROVE  OkQueue(Append(q, [event |-> e, barrier |-> b]))
<1> DEFINE r == [event |-> e, barrier |-> b]
           S == Records(E \union {e})
<1>1. r \in S
  BY RecordOf
<1>2. q \in Seq(S)
  BY RecordsGrow, SeqMonotonic
<1>3. r.event = e /\ r.barrier = b
  OBVIOUS
<1> HIDE DEF r
<1>4. \A a \in 1 .. Len(q) : Alike(q[a], r) => Blocks(r) \/ \E k \in a + 1 .. Len(q) : Blocks(q[k])
  BY <1>3 DEF Alike, Blocks, Separated, Compatible, OwnCommit
<1> HIDE DEF S
<1>5. Append(q, r) \in Seq(S)
  BY <1>1, <1>2
<1>6. Coalesced(Append(q, r))
  BY <1>1, <1>2, <1>4, AppendCoalesced
<1> QED
  BY <1>5, <1>6 DEF OkQueue, r, S

\* Whatever kept a superseded commit from an older one like it keeps its
\* successor from it, and nothing later is of its surface.
LEMMA MoveToBack ==
  ASSUME NEW E, NEW q \in Seq(Records(E)), Coalesced(q), NEW m, NEW i \in 1 .. Len(q), ~Blocks(q[i]),
         m.kind = "commit" => Compatible(q[i], m) /\ Passed(q, m, i + 1)
  PROVE  OkQueue(Append(RemoveAt(q, i), [event |-> m, barrier |-> FALSE]))
<1> DEFINE p == RemoveAt(q, i)
<1>1. p \in Seq(Records(E)) /\ Len(p) = Len(q) - 1
  BY RemoveAtAt
<1>2. \A j \in 1 .. i - 1 : p[j] = q[j]
  BY RemoveAtAt
<1>3. \A j \in i .. Len(q) - 1 : p[j] = q[j + 1]
  BY RemoveAtAt
<1>4. Coalesced(p)
  BY RemoveCoalesced
<1> HIDE DEF p
<1>5. m.kind = "commit" => Separated(p, m)
  <2> SUFFICES ASSUME m.kind = "commit", NEW a \in 1 .. Len(p), Compatible(p[a], m)
               PROVE  \E k \in a + 1 .. Len(p) : Blocks(p[k])
    BY DEF Separated
  <2>1. a < i
    <3> SUFFICES ASSUME a >= i PROVE FALSE
      BY <1>1
    <3>1. a + 1 \in i + 1 .. Len(q) /\ OwnCommit(q[a + 1], m)
      BY <1>1, <1>3 DEF Compatible
    <3> QED
      BY <3>1 DEF Passed
  <2>2. Compatible(q[a], m) /\ Compatible(q[i], m)
    BY <1>2, <2>1
  <2>3. Alike(q[a], q[i])
    BY <2>2 DEF Alike, Compatible, OwnCommit
  <2>4. PICK k \in a + 1 .. i : Blocks(q[k])
    BY <1>1, <2>1, <2>3 DEF Coalesced
  <2>5. k # i
    BY <2>4
  <2>6. k \in a + 1 .. Len(p) /\ p[k] = q[k]
    BY <1>1, <1>2, <2>5
  <2> QED
    BY <2>4, <2>6
<1> QED
  BY <1>1, <1>4, <1>5, AppendNew DEF p

LEMMA ReplaceInPlace ==
  ASSUME NEW E, NEW q \in Seq(Records(E)), Coalesced(q), NEW m, NEW i \in 1 .. Len(q),
         m.kind = q[i].event.kind, m.kind = "commit" => Compatible(q[i], m)
  PROVE  OkQueue(Updated(q, i, m))
<1>1. Coalesced(Updated(q, i, m))
  BY UpdateCoalesced DEF Compatible, OwnCommit
<1>2. Updated(q, i, m) \in Seq(Records(E \union {m}))
  BY UpdatedAt
<1> QED
  BY <1>1, <1>2 DEF OkQueue

\* The content a commit takes over does not change what it is.
LEMMA CarryKeeps ==
  ASSUME NEW s, NEW session, NEW mapped, NEW inv, NEW bufs, NEW at, NEW old
  PROVE  LET e == [kind |-> "commit", surface |-> s, session |-> session, mapped |-> mapped,
                   layers |-> inv, buffers |-> bufs, at |-> at]
             c == Carry(e, old)
         IN /\ c.kind = "commit" /\ c.surface = s /\ c.session = session /\ c.mapped = mapped
BY DEF Carry

LEMMA InsertOk ==
  ASSUME NEW q, OkQueue(q), NEW e,
         e.kind = "commit" =>
           /\ e.mapped \in BOOLEAN
           /\ \A old : /\ Carry(e, old).kind = "commit" /\ Carry(e, old).surface = e.surface
                       /\ Carry(e, old).session = e.session /\ Carry(e, old).mapped = e.mapped
  PROVE  OkQueue(Insert(q, e))
<1>1. PICK E : q \in Seq(Records(E))
  BY DEF OkQueue
<1>2. Coalesced(q)
  BY DEF OkQueue
<1> DEFINE p == Plan(q, e)
           c == Carry(e, q[p.at].event)
<1>3. Insert(q, e) = IF p.at = 0 THEN Append(q, [event |-> e, barrier |-> p.barrier])
                     ELSE IF q[p.at].barrier
                       THEN Updated(q, p.at, IF e.kind = "commit" THEN c ELSE e)
                     ELSE Append(RemoveAt(q, p.at),
                                 [event |-> IF e.kind = "commit" THEN c ELSE e, barrier |-> p.barrier])
  BY DEF Insert, Updated
<1>4. CASE e.kind = "commit"
  <2>1. p = CommitPlan(q, e)
    BY <1>4 DEF Plan
  <2>2. /\ p.barrier \in BOOLEAN
        /\ \/ p.at = 0 /\ (p.barrier \/ Separated(q, e))
           \/ /\ p.at \in 1 .. Len(q) /\ Compatible(q[p.at], e) /\ Passed(q, e, p.at + 1)
              /\ p.barrier = q[p.at].barrier
    BY <1>1, <1>4, <2>1, CommitPlanned
  <2>3. c.kind = "commit" /\ (Compatible(q[p.at], e) => Compatible(q[p.at], c))
        /\ (Passed(q, e, p.at + 1) => Passed(q, c, p.at + 1))
    BY <1>4 DEF Compatible, OwnCommit, Passed
  <2> HIDE DEF p, c
  <2>4. CASE p.at = 0
    BY <1>1, <1>2, <1>3, <2>2, <2>4, AppendNew
  <2>5. CASE p.at # 0 /\ q[p.at].barrier
    BY <1>1, <1>2, <1>3, <1>4, <2>2, <2>3, <2>5, ReplaceInPlace DEF Compatible, OwnCommit
  <2>6. CASE p.at # 0 /\ ~q[p.at].barrier
    <3>1. ~Blocks(q[p.at]) /\ p.barrier = FALSE
      BY <2>2, <2>6 DEF Blocks, IsControl, Compatible, OwnCommit
    <3> QED
      BY <1>1, <1>2, <1>3, <1>4, <2>2, <2>3, <2>6, <3>1, MoveToBack
  <2> QED
    BY <2>4, <2>5, <2>6
<1>5. CASE e.kind = "metadata"
  <2>1. p = MetadataPlan(q, e)
    BY <1>5 DEF Plan
  <2>2. p.barrier = FALSE /\ (p.at = 0 \/ (p.at \in 1 .. Len(q) /\ q[p.at].event.kind = "metadata"))
    <3>1. MetadataPlanOk(q, e, p)
      BY <1>1, <2>1, MetadataPlanned
    <3> HIDE DEF p
    <3> QED
      BY <3>1 DEF MetadataPlanOk
  <2> HIDE DEF p, c
  <2>3. CASE p.at = 0
    BY <1>1, <1>2, <1>3, <1>5, <2>2, <2>3, AppendNew
  <2>4. CASE p.at # 0 /\ q[p.at].barrier
    BY <1>1, <1>2, <1>3, <1>5, <2>2, <2>4, ReplaceInPlace
  <2>5. CASE p.at # 0 /\ ~q[p.at].barrier
    <3>1. ~Blocks(q[p.at])
      BY <2>2, <2>5 DEF Blocks, IsControl
    <3> QED
      BY <1>1, <1>2, <1>3, <1>5, <2>2, <2>5, <3>1, MoveToBack
  <2> QED
    BY <2>3, <2>4, <2>5
<1>6. CASE e.kind \notin {"commit", "metadata"}
  <2>1. p.at = 0 /\ p.barrier = FALSE
    BY <1>6 DEF Plan
  <2> HIDE DEF p
  <2> QED
    BY <1>1, <1>2, <1>3, <1>6, <2>1, AppendNew
<1> QED
  BY <1>4, <1>5, <1>6

-----------------------------------------------------------------------------
LEMMA QueuePreserved == QueueInv /\ [QueueNext]_queueVars => QueueInv'
<1> SUFFICES ASSUME QueueInv, [QueueNext]_queueVars PROVE QueueInv'
  OBVIOUS
<1>1. ASSUME NEW s \in QueuedSurfaces, NEW inv, NEW rep, NEW mapped \in BOOLEAN, NEW session,
             PushCommit(s, session, inv, rep, mapped)
      PROVE  QueueInv'
  <2> DEFINE e == [kind |-> "commit", surface |-> s, session |-> session, mapped |-> mapped, layers |-> inv,
                   buffers |-> [l \in rep |-> pushes + 1], at |-> pushes + 1]
  <2>1. queue' = Insert(queue, e)
    BY <1>1 DEF PushCommit, Push
  <2>2. /\ e.kind = "commit" /\ e.mapped \in BOOLEAN
        /\ \A old : /\ Carry(e, old).kind = "commit" /\ Carry(e, old).surface = e.surface
                    /\ Carry(e, old).session = e.session /\ Carry(e, old).mapped = e.mapped
    BY CarryKeeps
  <2> HIDE DEF e
  <2> QED
    BY <2>1, <2>2, InsertOk DEF QueueInv
<1>2. ASSUME NEW s \in QueuedSurfaces, PushMetadata(s) \/ PushControl(s)
      PROVE  QueueInv'
  <2>1. PICK e : e.kind \in {"metadata", "control"} /\ queue' = Insert(queue, e)
    BY <1>2 DEF PushMetadata, PushControl, Push
  <2> QED
    BY <2>1, InsertOk DEF QueueInv
<1>3. CASE PopFront
  <2>1. PICK E : queue \in Seq(Records(E))
    BY DEF QueueInv, OkQueue
  <2>2. queue # <<>> /\ queue' = Tail(queue) /\ Coalesced(queue)
    BY <1>3 DEF PopFront, QueueInv, OkQueue
  <2>3. Tail(queue) \in Seq(Records(E)) /\ Coalesced(Tail(queue))
    BY <2>1, <2>2, TailAt, TailCoalesced
  <2> QED
    BY <2>2, <2>3 DEF QueueInv, OkQueue
<1>4. CASE UNCHANGED queueVars
  BY <1>4 DEF queueVars, QueueInv
<1> QED
  BY <1>1, <1>2, <1>3, <1>4 DEF QueueNext

\* However slowly a queue of pending client events is consumed, two commits of
\* one surface, session and mapping stay in it only where a control or an
\* ordered transition has to be kept between them.
THEOREM RepaintsAreCoalesced == QueueSpec => []RepaintsCoalesce
<1>1. QueueInit => QueueInv
  <2> SUFFICES ASSUME QueueInit PROVE OkQueue(queue)
    BY DEF QueueInv
  <2>1. queue = <<>> /\ <<>> \in Seq(Records({}))
    BY DEF QueueInit
  <2> QED
    BY <2>1 DEF OkQueue, Coalesced
<1>2. QueueInv => RepaintsCoalesce
  BY DEF QueueInv, OkQueue, Coalesced, RepaintsCoalesce, Alike, Blocks
<1> QED
  BY <1>1, <1>2, QueuePreserved, PTL DEF QueueSpec

-----------------------------------------------------------------------------
(* Consuming an event.                                                     *)

\* A record with the fields of a view.
IsView(v) ==
  v = [session |-> v.session, mapped |-> v.mapped, layers |-> v.layers, meta |-> v.meta,
       control |-> v.control]

Painted(c, e) ==
  [l \in e.layers |-> IF l \in DOMAIN e.buffers THEN e.buffers[l] ELSE IF l \in DOMAIN c THEN c[l] ELSE 0]

LEMMA ConsumeMetadata ==
  ASSUME NEW v, IsView(v), NEW e, e.kind = "metadata"
  PROVE  Consume(v, e) = [session |-> v.session, mapped |-> v.mapped, layers |-> v.layers,
                          meta |-> e.at, control |-> v.control]
BY DEF IsView, Consume

LEMMA ConsumeControl ==
  ASSUME NEW v, IsView(v), NEW e, e.kind = "control"
  PROVE  Consume(v, e) = [session |-> v.session, mapped |-> v.mapped, layers |-> v.layers,
                          meta |-> v.meta, control |-> e.at]
BY DEF IsView, Consume

LEMMA ConsumeCommit ==
  ASSUME NEW v, IsView(v), NEW e, e.kind = "commit"
  PROVE  Consume(v, e) = [session |-> e.session, mapped |-> e.mapped, layers |-> Painted(v.layers, e),
                          meta |-> v.meta, control |-> v.control]
BY DEF IsView, Consume, Painted

Kinds == {"commit", "metadata", "control"}

LEMMA ConsumeView ==
  ASSUME NEW v, IsView(v), NEW e, e.kind \in Kinds
  PROVE  IsView(Consume(v, e))
<1>1. CASE e.kind = "commit"
  BY <1>1, ConsumeCommit DEF IsView
<1>2. CASE e.kind = "metadata"
  BY <1>2, ConsumeMetadata DEF IsView
<1>3. CASE e.kind = "control"
  BY <1>3, ConsumeControl DEF IsView
<1> QED
  BY <1>1, <1>2, <1>3 DEF Kinds

\* Metadata and commits touch different parts of a view.
LEMMA Commute ==
  ASSUME NEW v, IsView(v), NEW c, c.kind = "commit", NEW d, d.kind = "metadata"
  PROVE  Consume(Consume(v, c), d) = Consume(Consume(v, d), c)
<1>1. IsView(Consume(v, c)) /\ IsView(Consume(v, d))
  BY ConsumeView DEF Kinds
<1> QED
  BY <1>1, ConsumeCommit, ConsumeMetadata

LEMMA Overwrite ==
  ASSUME NEW v, IsView(v), NEW c, c.kind = "metadata", NEW d, d.kind = "metadata"
  PROVE  Consume(Consume(v, c), d) = Consume(v, d)
<1>1. IsView(Consume(v, c))
  BY ConsumeView DEF Kinds
<1> QED
  BY <1>1, ConsumeMetadata

IsCommit(e) ==
  e = [kind |-> "commit", surface |-> e.surface, session |-> e.session, mapped |-> e.mapped,
       layers |-> e.layers, buffers |-> e.buffers, at |-> e.at]

CarriedBuffers(e, old) ==
  [l \in DOMAIN e.buffers \union (e.layers \cap DOMAIN old.buffers) |->
     IF l \in DOMAIN e.buffers THEN e.buffers[l] ELSE old.buffers[l]]

LEMMA CarryIs ==
  ASSUME NEW e, IsCommit(e), NEW old
  PROVE  Carry(e, old) = [kind |-> "commit", surface |-> e.surface, session |-> e.session, mapped |-> e.mapped,
                          layers |-> e.layers, buffers |-> CarriedBuffers(e, old), at |-> e.at]
BY DEF IsCommit, Carry, CarriedBuffers

\* What a commit takes over from the one it supersedes is what a consumer of
\* both would have: provided it retains only layers that one had.
LEMMA Merge ==
  ASSUME NEW v, IsView(v), NEW e, IsCommit(e), NEW old, old.kind = "commit",
         e.layers \ DOMAIN e.buffers \subseteq old.layers
  PROVE  Consume(v, Carry(e, old)) = Consume(Consume(v, old), e)
<1> DEFINE m == Carry(e, old)
<1>1. m.kind = "commit" /\ m.session = e.session /\ m.mapped = e.mapped /\ m.layers = e.layers
      /\ m.buffers = CarriedBuffers(e, old)
  BY CarryIs
<1>2. e.kind = "commit"
  BY DEF IsCommit
<1> HIDE DEF m
<1>3. Painted(v.layers, m) = Painted(Painted(v.layers, old), e)
  <2>1. ASSUME NEW l \in e.layers
        PROVE  Painted(v.layers, m)[l] = Painted(Painted(v.layers, old), e)[l]
    BY <1>1 DEF Painted, CarriedBuffers
  <2> QED
    BY <1>1, <2>1 DEF Painted
<1>4. IsView(Consume(v, old))
  BY ConsumeView DEF Kinds
<1>5. Consume(v, m) = [session |-> e.session, mapped |-> e.mapped, layers |-> Painted(v.layers, m),
                       meta |-> v.meta, control |-> v.control]
  BY <1>1, ConsumeCommit
<1>6. Consume(Consume(v, old), e) =
        [session |-> e.session, mapped |-> e.mapped, layers |-> Painted(Painted(v.layers, old), e),
         meta |-> v.meta, control |-> v.control]
  BY <1>2, <1>4, ConsumeCommit
<1> QED
  BY <1>3, <1>5, <1>6 DEF m

-----------------------------------------------------------------------------
(* Consuming a queue, record by record.                                    *)

After(v, r, s) == IF r.event.surface = s THEN Consume(v, r.event) ELSE v

IsRun(f, n, v, q, s) == f = [m \in 0 .. n |-> IF m = 0 THEN v ELSE After(f[m - 1], q[m], s)]

Steps(f, v, q, s) ==
  f[0] = v /\ \A n \in 1 .. Len(q) : f[n] = After(f[n - 1], q[n], s)

LEMMA RunExists ==
  ASSUME NEW v, NEW q, Len(q) \in Nat, NEW s
  PROVE  \E f : IsRun(f, Len(q), v, q, s)
<1> DEFINE P == {n \in 0 .. Len(q) : \E f : IsRun(f, n, v, q, s)}
<1>1. 0 \in P
  <2>1. IsRun([m \in 0 .. 0 |-> v], 0, v, q, s)
    BY DEF IsRun
  <2> QED
    BY <2>1
<1>2. ASSUME NEW n \in 0 + 1 .. Len(q), n - 1 \in P
      PROVE  n \in P
  <2>1. PICK f : IsRun(f, n - 1, v, q, s)
    BY <1>2
  <2> DEFINE g == [m \in 0 .. n |-> IF m = n THEN After(f[n - 1], q[n], s) ELSE f[m]]
  <2>2. \A m \in 0 .. n - 1 : f[m] = IF m = 0 THEN v ELSE After(f[m - 1], q[m], s)
    BY <2>1 DEF IsRun
  <2>3. g[n] = After(f[n - 1], q[n], s) /\ \A m \in 0 .. n - 1 : g[m] = f[m]
    OBVIOUS
  <2>4. g = [m \in 0 .. n |-> g[m]]
    OBVIOUS
  <2> HIDE DEF g
  <2>5. ASSUME NEW m \in 0 .. n
        PROVE  g[m] = IF m = 0 THEN v ELSE After(g[m - 1], q[m], s)
    <3>1. CASE m = n
      BY <2>3, <3>1
    <3>2. CASE m = 0
      BY <2>2, <2>3, <3>2
    <3>3. CASE m # n /\ m # 0
      <4>1. m \in 0 .. n - 1 /\ m - 1 \in 0 .. n - 1
        BY <3>3
      <4> QED
        BY <2>2, <2>3, <3>3, <4>1
    <3> QED
      BY <3>1, <3>2, <3>3
  <2>6. IsRun(g, n, v, q, s)
    BY <2>4, <2>5 DEF IsRun
  <2> QED
    BY <2>6
<1>3. 0 \in 0 .. Len(q)
  OBVIOUS
<1> HIDE DEF P
<1>4. Len(q) \in P
  <2>1. \A n \in 0 .. Len(q) : n \in P
    BY <1>1, <1>2, <1>3, Induct
  <2> QED
    BY <2>1
<1> QED
  BY <1>4 DEF P

LEMMA ConsumedSteps ==
  ASSUME NEW v, NEW q, Len(q) \in Nat, NEW s
  PROVE  Steps(Consumed(v, q, s), v, q, s)
<1> DEFINE f == Consumed(v, q, s)
<1>1. f = CHOOSE g : IsRun(g, Len(q), v, q, s)
  BY DEF Consumed, IsRun, After
<1> HIDE DEF f
<1>2. IsRun(f, Len(q), v, q, s)
  BY <1>1, RunExists
<1>3. \A n \in 0 .. Len(q) : f[n] = IF n = 0 THEN v ELSE After(f[n - 1], q[n], s)
  BY <1>2 DEF IsRun
<1>4. Steps(f, v, q, s)
  BY <1>3 DEF Steps
<1> QED
  BY <1>4 DEF f

Agree(p, q, k) ==
  /\ Len(q) \in Nat /\ Len(p) \in Nat /\ k \in Nat /\ k <= Len(q) /\ k <= Len(p)
  /\ \A n \in 1 .. k : p[n] = q[n]

\* Queues that agree on their first k records are consumed alike up to there.
LEMMA SamePrefix ==
  ASSUME NEW v, NEW s, NEW q, NEW p, NEW k, Agree(p, q, k),
         NEW f, Steps(f, v, q, s), NEW g, Steps(g, v, p, s)
  PROVE  \A n \in 0 .. k : g[n] = f[n]
<1> DEFINE P == {n \in 0 .. k : g[n] = f[n]}
<1>1. 0 \in P
  BY DEF Steps, Agree
<1>2. \A n \in 0 + 1 .. k : n - 1 \in P => n \in P
  BY DEF Steps, Agree
<1>3. k \in Nat /\ 0 \in 0 .. k
  BY DEF Agree
<1> HIDE DEF P
<1>4. \A n \in 0 .. k : n \in P
  BY <1>1, <1>2, <1>3, Induct
<1> QED
  BY <1>4 DEF P

KnownKinds(q) == \A i \in 1 .. Len(q) : q[i].event.kind \in Kinds

LEMMA ViewsAll ==
  ASSUME NEW v, IsView(v), NEW s, NEW q, Len(q) \in Nat, KnownKinds(q), NEW f, Steps(f, v, q, s)
  PROVE  \A n \in 0 .. Len(q) : IsView(f[n])
<1> DEFINE P == {n \in 0 .. Len(q) : IsView(f[n])}
<1>1. 0 \in P
  BY DEF Steps
<1>2. ASSUME NEW n \in 0 + 1 .. Len(q), n - 1 \in P
      PROVE  n \in P
  <2>1. IsView(f[n - 1]) /\ n \in 1 .. Len(q) /\ q[n].event.kind \in Kinds
    BY <1>2 DEF KnownKinds
  <2>2. f[n] = f[n - 1] \/ f[n] = Consume(f[n - 1], q[n].event)
    BY <2>1 DEF Steps, After
  <2>3. IsView(f[n])
    BY <2>1, <2>2, ConsumeView
  <2> QED
    BY <2>3
<1>3. 0 \in 0 .. Len(q)
  OBVIOUS
<1> HIDE DEF P
<1>4. \A n \in 0 .. Len(q) : n \in P
  BY <1>1, <1>2, <1>3, Induct
<1> QED
  BY <1>4 DEF P

-----------------------------------------------------------------------------
(* What the three ways to insert do to a consumer.                         *)

Bare(e) == [event |-> e]

\* What an insertion promises a consumer of the surface s: it ends where one
\* that takes the event after the old queue does, and it meets every control
\* where it would have met it.
Grown(g, p, f, q, e, s) ==
  /\ g[Len(p)] = After(f[Len(q)], Bare(e), s)
  /\ \A j \in 1 .. Len(p) : IsControl(p[j].event) =>
       \/ j \in 1 .. Len(q) /\ p[j] = q[j] /\ g[j - 1] = f[j - 1]
       \/ p[j].event = e /\ g[j - 1] = f[Len(q)]

LEMMA AppendGrows ==
  ASSUME NEW S, NEW q \in Seq(S), NEW r \in S, NEW v, NEW s,
         NEW f, Steps(f, v, q, s), NEW g, Steps(g, v, Append(q, r), s)
  PROVE  Grown(g, Append(q, r), f, q, r.event, s)
<1> DEFINE p == Append(q, r)
           e == r.event
<1>1. Len(p) = Len(q) + 1 /\ Len(q) \in Nat /\ p[Len(q) + 1] = r /\ \A n \in 1 .. Len(q) : p[n] = q[n]
  OBVIOUS
<1>2. Steps(g, v, p, s)
  OBVIOUS
<1> HIDE DEF p
<1>3. \A n \in 0 .. Len(q) : g[n] = f[n]
  <2>1. Agree(p, q, Len(q))
    BY <1>1 DEF Agree
  <2> QED
    BY <1>2, <2>1, SamePrefix
<1>4. g[Len(p)] = After(g[Len(q)], r, s) /\ g[Len(q)] = f[Len(q)]
  BY <1>1, <1>2, <1>3 DEF Steps
<1>5. g[Len(p)] = After(f[Len(q)], Bare(e), s)
  BY <1>4 DEF After, Bare
<1>6. ASSUME NEW j \in 1 .. Len(p)
      PROVE  \/ j \in 1 .. Len(q) /\ p[j] = q[j] /\ g[j - 1] = f[j - 1]
             \/ p[j].event = e /\ g[j - 1] = f[Len(q)]
  BY <1>1, <1>3, <1>4
<1> QED
  BY <1>5, <1>6 DEF Grown, p

\* r alone does to `a' what e does to `b'.
Stands(a, r, b, e, s) == After(a, r, s) = After(b, Bare(e), s)

\* Moving to the back: r takes the place of q[i] and of e, wherever it is
\* consumed between the place of the one and the place of the other.
LEMMA MoveGrows ==
  ASSUME NEW S, NEW q \in Seq(S), NEW i \in 1 .. Len(q), NEW r \in S, NEW v, NEW s,
         ~IsControl(r.event), NoControlAfter(q, i), KnownKinds(q), r.event.kind \in Kinds, IsView(v),
         NEW f, Steps(f, v, q, s), NEW g, Steps(g, v, Append(RemoveAt(q, i), r), s),
         NEW e, Stands(f[i - 1], r, f[i], e, s),
         \A n \in i + 1 .. Len(q) : \A a, b : IsView(a) /\ IsView(b) /\ Stands(a, r, b, e, s) =>
             Stands(After(a, q[n], s), r, After(b, q[n], s), e, s)
  PROVE  Grown(g, Append(RemoveAt(q, i), r), f, q, e, s)
<1> DEFINE h == RemoveAt(q, i)
           p == Append(h, r)
<1>1. h \in Seq(S) /\ Len(h) = Len(q) - 1
  BY RemoveAtAt
<1>2. \A j \in 1 .. i - 1 : h[j] = q[j]
  BY RemoveAtAt
<1>3. \A j \in i .. Len(q) - 1 : h[j] = q[j + 1]
  BY RemoveAtAt
<1> HIDE DEF h
<1>4. Len(q) \in Nat /\ Len(p) = Len(q) /\ p[Len(q)] = r /\ \A j \in 1 .. Len(q) - 1 : p[j] = h[j]
  BY <1>1
<1>5. Steps(g, v, p, s)
  BY DEF h
<1> HIDE DEF p
<1>6. \A n \in 0 .. i - 1 : g[n] = f[n]
  <2>1. \A n \in 1 .. i - 1 : p[n] = q[n]
    BY <1>2, <1>4
  <2>2. Agree(p, q, i - 1)
    BY <1>4, <2>1 DEF Agree
  <2> QED
    BY <1>5, <2>2, SamePrefix
<1>7. \A n \in 1 .. Len(q) : f[n] = After(f[n - 1], q[n], s)
  BY DEF Steps
<1>8. \A n \in 1 .. Len(q) : g[n] = After(g[n - 1], p[n], s)
  BY <1>4, <1>5 DEF Steps
<1>9. \A n \in 0 .. Len(q) : IsView(f[n])
  BY <1>4, ViewsAll
<1>10. \A n \in 0 .. Len(q) : IsView(g[n])
  <2>1. KnownKinds(p)
    BY <1>2, <1>3, <1>4 DEF KnownKinds
  <2> QED
    BY <1>4, <1>5, <2>1, ViewsAll
<1> DEFINE P == {n \in i .. Len(q) : Stands(g[n - 1], r, f[n], e, s)}
<1>11. i \in P
  BY <1>6
<1>12. ASSUME NEW n \in i + 1 .. Len(q), n - 1 \in P
       PROVE  n \in P
  <2>1. n \in 1 .. Len(q) /\ n - 1 \in 1 .. Len(q) /\ p[n - 1] = q[n]
    BY <1>3, <1>4
  <2>2. Stands(g[n - 2], r, f[n - 1], e, s)
    <3>1. (n - 1) - 1 = n - 2
      OBVIOUS
    <3> QED
      BY <1>12, <3>1
  <2>3. g[n - 1] = After(g[n - 2], q[n], s)
    BY <1>8, <2>1
  <2>4. f[n] = After(f[n - 1], q[n], s)
    BY <1>7, <2>1
  <2>5. IsView(g[n - 2]) /\ IsView(f[n - 1])
    BY <1>9, <1>10, <2>1
  <2>6. Stands(g[n - 1], r, f[n], e, s)
    BY <2>2, <2>3, <2>4, <2>5
  <2> QED
    BY <2>1, <2>6
<1>13. Stands(g[Len(q) - 1], r, f[Len(q)], e, s)
  <2>1. i \in 0 .. Len(q)
    OBVIOUS
  <2> HIDE DEF P
  <2>2. \A n \in i .. Len(q) : n \in P
    BY <1>4, <1>11, <1>12, <2>1, Induct
  <2>3. Len(q) \in P
    BY <2>2
  <2> QED
    BY <2>3 DEF P
<1>14. g[Len(p)] = After(f[Len(q)], Bare(e), s)
  <2>1. g[Len(q)] = After(g[Len(q) - 1], r, s)
    BY <1>4, <1>8
  <2> QED
    BY <1>4, <1>13, <2>1 DEF Stands
<1>15. ASSUME NEW j \in 1 .. Len(p), IsControl(p[j].event)
       PROVE  j \in 1 .. Len(q) /\ p[j] = q[j] /\ g[j - 1] = f[j - 1]
  <2>1. j < i
    <3> SUFFICES ASSUME j >= i PROVE FALSE
      BY <1>4
    <3>1. j # Len(q)
      BY <1>4, <1>15
    <3>2. j + 1 \in i + 1 .. Len(q) /\ p[j] = q[j + 1]
      BY <1>3, <1>4, <3>1
    <3> QED
      BY <1>15, <3>2 DEF NoControlAfter
  <2> QED
    BY <1>2, <1>4, <1>6, <2>1
<1> QED
  BY <1>14, <1>15 DEF Grown, p, h

\* Replacing in place: e is consumed at the place of q[i].
LEMMA ReplaceGrows ==
  ASSUME NEW E, NEW q \in Seq(Records(E)), NEW i \in 1 .. Len(q), NEW m, NEW v, NEW s,
         ~IsControl(m), NoControlAfter(q, i), KnownKinds(q), IsView(v),
         NEW f, Steps(f, v, q, s), NEW g, Steps(g, v, Updated(q, i, m), s),
         NEW e, Stands(f[i - 1], Bare(m), f[i], e, s),
         \A n \in i + 1 .. Len(q) : \A a : IsView(a) =>
             After(After(a, Bare(e), s), q[n], s) = After(After(a, q[n], s), Bare(e), s)
  PROVE  Grown(g, Updated(q, i, m), f, q, e, s)
<1> DEFINE p == Updated(q, i, m)
<1>1. Len(q) \in Nat /\ Len(p) = Len(q) /\ p[i].event = m /\ \A j \in 1 .. Len(q) : j # i => p[j] = q[j]
  <2>1. p \in Seq(Records(E \union {m})) /\ IsUpdate(p, q, i, m)
    BY UpdatedAt
  <2> HIDE DEF p
  <2>2. Len(p) = Len(q) /\ Len(q) \in Nat
    BY <2>1 DEF IsUpdate
  <2> QED
    BY <2>1, <2>2 DEF IsUpdate
<1>2. Steps(g, v, p, s)
  OBVIOUS
<1> HIDE DEF p
<1>3. \A n \in 0 .. i - 1 : g[n] = f[n]
  <2>1. \A n \in 1 .. i - 1 : p[n] = q[n]
    BY <1>1
  <2>2. Agree(p, q, i - 1)
    BY <1>1, <2>1 DEF Agree
  <2> QED
    BY <1>2, <2>2, SamePrefix
<1>4. \A n \in 1 .. Len(q) : f[n] = After(f[n - 1], q[n], s)
  BY DEF Steps
<1>5. \A n \in 1 .. Len(q) : g[n] = After(g[n - 1], p[n], s)
  BY <1>1, <1>2 DEF Steps
<1>6. \A n \in 0 .. Len(q) : IsView(f[n])
  BY <1>1, ViewsAll
<1> DEFINE P == {n \in i .. Len(q) : g[n] = After(f[n], Bare(e), s)}
<1>7. i \in P
  <2>1. g[i] = After(f[i - 1], p[i], s)
    BY <1>3, <1>5
  <2>2. After(f[i - 1], p[i], s) = After(f[i - 1], Bare(m), s)
    BY <1>1 DEF After, Bare
  <2> QED
    BY <2>1, <2>2 DEF Stands
<1>8. ASSUME NEW n \in i + 1 .. Len(q), n - 1 \in P
      PROVE  n \in P
  <2>1. n \in 1 .. Len(q) /\ n - 1 \in 0 .. Len(q) /\ p[n] = q[n] /\ n \in i .. Len(q)
    BY <1>1
  <2>2. g[n - 1] = After(f[n - 1], Bare(e), s)
    BY <1>8
  <2>3. g[n] = After(g[n - 1], q[n], s) /\ f[n] = After(f[n - 1], q[n], s)
    BY <1>4, <1>5, <2>1
  <2>4. g[n] = After(f[n], Bare(e), s)
    BY <1>6, <2>1, <2>2, <2>3
  <2> QED
    BY <2>1, <2>4
<1>9. g[Len(p)] = After(f[Len(q)], Bare(e), s)
  <2>1. i \in 0 .. Len(q)
    OBVIOUS
  <2> HIDE DEF P
  <2>2. \A n \in i .. Len(q) : n \in P
    BY <1>1, <1>7, <1>8, <2>1, Induct
  <2>3. Len(q) \in P
    BY <2>2
  <2> QED
    BY <1>1, <2>3 DEF P
<1>10. ASSUME NEW j \in 1 .. Len(p), IsControl(p[j].event)
       PROVE  j \in 1 .. Len(q) /\ p[j] = q[j] /\ g[j - 1] = f[j - 1]
  <2>1. j # i
    BY <1>1, <1>10
  <2>2. ~(j > i)
    BY <1>1, <1>10, <2>1 DEF NoControlAfter
  <2> QED
    BY <1>1, <1>3, <2>1, <2>2
<1> QED
  BY <1>9, <1>10 DEF Grown, p

-----------------------------------------------------------------------------
(* What an insertion supersedes, and why nothing is lost by it.            *)

Sound(q) ==
  \A i \in 1 .. Len(q) : q[i].event.kind \in Kinds /\ (q[i].barrier => q[i].event.kind = "commit")

\* The four things an insertion may do.
Appends(q, e, p) ==
  \E b \in BOOLEAN : (b => e.kind = "commit") /\ p = Append(q, [event |-> e, barrier |-> b])
SupersedesCommit(q, e, i) ==
  e.kind = "commit" /\ i \in 1 .. Len(q) /\ Compatible(q[i], e) /\ Passed(q, e, i + 1)
SupersedesMetadata(q, e, i) ==
  /\ e.kind = "metadata" /\ i \in 1 .. Len(q) /\ q[i].event.kind = "metadata"
  /\ q[i].event.surface = e.surface /\ NoControlAfter(q, i)

LEMMA InsertShape ==
  ASSUME NEW E, NEW q \in Seq(Records(E)), Sound(q), NEW e, e.kind \in Kinds,
         e.kind = "commit" => e.mapped \in BOOLEAN
  PROVE  \/ Appends(q, e, Insert(q, e))
         \/ \E i : /\ SupersedesCommit(q, e, i)
                   /\ \/ Insert(q, e) = Updated(q, i, Carry(e, q[i].event))
                      \/ Insert(q, e) = Append(RemoveAt(q, i), [event |-> Carry(e, q[i].event), barrier |-> FALSE])
         \/ \E i : /\ SupersedesMetadata(q, e, i)
                   /\ Insert(q, e) = Append(RemoveAt(q, i), [event |-> e, barrier |-> FALSE])
<1> DEFINE p == Plan(q, e)
           c == Carry(e, q[p.at].event)
<1>1. Insert(q, e) = IF p.at = 0 THEN Append(q, [event |-> e, barrier |-> p.barrier])
                     ELSE IF q[p.at].barrier
                       THEN Updated(q, p.at, IF e.kind = "commit" THEN c ELSE e)
                     ELSE Append(RemoveAt(q, p.at),
                                 [event |-> IF e.kind = "commit" THEN c ELSE e, barrier |-> p.barrier])
  BY DEF Insert, Updated
<1>2. CASE e.kind = "commit"
  <2>1. p = CommitPlan(q, e)
    BY <1>2 DEF Plan
  <2>2. /\ p.barrier \in BOOLEAN
        /\ \/ p.at = 0 /\ (p.barrier \/ Separated(q, e))
           \/ /\ p.at \in 1 .. Len(q) /\ Compatible(q[p.at], e) /\ Passed(q, e, p.at + 1)
              /\ p.barrier = q[p.at].barrier
    BY <1>2, <2>1, CommitPlanned
  <2> HIDE DEF p
  <2>3. CASE p.at = 0
    BY <1>1, <1>2, <2>2, <2>3 DEF Appends
  <2>4. CASE p.at # 0
    <3>1. SupersedesCommit(q, e, p.at)
      BY <1>2, <2>2, <2>4 DEF SupersedesCommit
    <3>2. p.barrier = q[p.at].barrier /\ p.barrier \in BOOLEAN
      BY <2>2, <2>4
    <3>3. Insert(q, e) = IF p.barrier THEN Updated(q, p.at, c)
                         ELSE Append(RemoveAt(q, p.at), [event |-> c, barrier |-> p.barrier])
      BY <1>1, <1>2, <2>4, <3>2
    <3>4. \/ Insert(q, e) = Updated(q, p.at, c)
          \/ Insert(q, e) = Append(RemoveAt(q, p.at), [event |-> c, barrier |-> FALSE])
      BY <3>2, <3>3
    <3> QED
      BY <3>1, <3>4
  <2> QED
    BY <2>3, <2>4
<1>3. CASE e.kind = "metadata"
  <2>1. p = MetadataPlan(q, e)
    BY <1>3 DEF Plan
  <2>2. /\ p.barrier = FALSE
        /\ \/ p.at = 0
           \/ /\ p.at \in 1 .. Len(q) /\ q[p.at].event.kind = "metadata"
              /\ q[p.at].event.surface = e.surface /\ NoControlAfter(q, p.at)
    <3>1. MetadataPlanOk(q, e, p)
      BY <2>1, MetadataPlanned
    <3> HIDE DEF p
    <3> QED
      BY <3>1 DEF MetadataPlanOk
  <2> HIDE DEF p, c
  <2>3. CASE p.at = 0
    BY <1>1, <2>2, <2>3 DEF Appends
  <2>4. CASE p.at # 0
    <3>1. SupersedesMetadata(q, e, p.at)
      BY <1>3, <2>2, <2>4 DEF SupersedesMetadata
    <3>2. ~q[p.at].barrier
      BY <3>1 DEF SupersedesMetadata, Sound
    <3>3. Insert(q, e) = Append(RemoveAt(q, p.at), [event |-> e, barrier |-> FALSE])
      BY <1>1, <1>3, <2>2, <2>4, <3>2
    <3> QED
      BY <3>1, <3>3
  <2> QED
    BY <2>3, <2>4
<1>4. CASE e.kind = "control"
  <2>1. p.at = 0 /\ p.barrier = FALSE
    BY <1>4 DEF Plan
  <2> HIDE DEF p, c
  <2> QED
    BY <1>1, <2>1 DEF Appends
<1> QED
  BY <1>2, <1>3, <1>4 DEF Kinds

\* Behind the commit a plan found, the surface only had metadata: the views
\* still have its session and its layers.
LEMMA CommitStays ==
  ASSUME NEW q, Len(q) \in Nat, Sound(q), NEW e, NEW i, SupersedesCommit(q, e, i),
         NEW v, IsView(v), NEW f, Steps(f, v, q, e.surface)
  PROVE  f[Len(q)].session = e.session /\ DOMAIN f[Len(q)].layers = q[i].event.layers
<1> DEFINE good(n) == f[n].session = e.session /\ DOMAIN f[n].layers = q[i].event.layers
           P == {n \in i .. Len(q) : good(n)}
           old == q[i].event
<1>1. KnownKinds(q)
  BY DEF Sound, KnownKinds
<1>2. \A n \in 0 .. Len(q) : IsView(f[n])
  BY <1>1, ViewsAll
<1>3. i \in 1 .. Len(q) /\ i \in 0 .. Len(q) /\ i - 1 \in 0 .. Len(q)
  BY DEF SupersedesCommit
<1>4. old.kind = "commit" /\ old.surface = e.surface /\ old.session = e.session
  BY DEF SupersedesCommit, Compatible, OwnCommit
<1>5. f[i] = Consume(f[i - 1], old)
  BY <1>3, <1>4 DEF Steps, After
<1>6. good(i)
  <2>1. f[i] = [session |-> old.session, mapped |-> old.mapped, layers |-> Painted(f[i - 1].layers, old),
                meta |-> f[i - 1].meta, control |-> f[i - 1].control]
    BY <1>2, <1>3, <1>4, <1>5, ConsumeCommit
  <2> QED
    BY <1>4, <2>1 DEF Painted
<1>7. ASSUME NEW n \in i + 1 .. Len(q), n - 1 \in P
      PROVE  n \in P
  <2>1. n \in 1 .. Len(q) /\ n - 1 \in 0 .. Len(q) /\ good(n - 1) /\ n \in i .. Len(q)
    BY <1>3, <1>7
  <2>2. ~OwnCommit(q[n], e) /\ ~IsControl(q[n].event)
    BY DEF SupersedesCommit, Passed
  <2>3. f[n] = f[n - 1] \/ (q[n].event.kind = "metadata" /\ f[n] = Consume(f[n - 1], q[n].event))
    BY <2>1, <2>2 DEF Steps, After, OwnCommit, IsControl
  <2>4. good(n)
    <3>1. CASE f[n] = f[n - 1]
      BY <2>1, <3>1
    <3>2. CASE q[n].event.kind = "metadata" /\ f[n] = Consume(f[n - 1], q[n].event)
      <4>1. f[n].session = f[n - 1].session /\ f[n].layers = f[n - 1].layers
        BY <1>2, <2>1, <3>2, ConsumeMetadata
      <4> QED
        BY <2>1, <4>1
    <3> QED
      BY <2>3, <3>1, <3>2
  <2> QED
    BY <2>1, <2>4
<1>8. i \in P
  BY <1>3, <1>6
<1> HIDE DEF P
<1>9. \A n \in i .. Len(q) : n \in P
  BY <1>3, <1>7, <1>8, Induct
<1>10. Len(q) \in P
  BY <1>3, <1>9
<1> QED
  BY <1>10 DEF P

\* A commit retains only layers of the view it follows in its session.
Retains(e, v) == e.session = v.session => e.layers \ DOMAIN e.buffers \subseteq DOMAIN v.layers

\* It makes no difference whether r is consumed before or after what is behind i.
Commutes(q, i, r, s) ==
  \A n \in i + 1 .. Len(q) : \A a : IsView(a) =>
    After(After(a, r, s), q[n], s) = After(After(a, q[n], s), r, s)

\* What a merged commit does is what the superseded commit and it would do, and
\* the metadata in between does not see the difference.
LEMMA MergedCommit ==
  ASSUME NEW q, Len(q) \in Nat, Sound(q), NEW e, IsCommit(e), NEW i, SupersedesCommit(q, e, i),
         NEW s, NEW v, IsView(v), NEW f, Steps(f, v, q, s),
         e.surface = s => Retains(e, f[Len(q)]),
         NEW r, r.event = Carry(e, q[i].event)
  PROVE  Stands(f[i - 1], r, f[i], e, s) /\ Commutes(q, i, Bare(e), s) /\ Commutes(q, i, r, s)
<1> DEFINE old == q[i].event
           m == r.event
<1>1. /\ m.kind = "commit" /\ m.surface = e.surface /\ e.kind = "commit"
      /\ old.kind = "commit" /\ old.surface = e.surface /\ i \in 1 .. Len(q)
  BY CarryIs DEF IsCommit, SupersedesCommit, Compatible, OwnCommit
<1>2. Bare(e).event = e
  BY DEF Bare
<1>3. Stands(f[i - 1], r, f[i], e, s)
  <2>1. CASE e.surface # s
    <3>1. f[i] = f[i - 1]
      BY <1>1, <2>1 DEF Steps, After
    <3> QED
      BY <1>1, <1>2, <2>1, <3>1 DEF Stands, After
  <2>2. CASE e.surface = s
    <3>1. f[i] = Consume(f[i - 1], old)
      BY <1>1, <2>2 DEF Steps, After
    <3>2. e.layers \ DOMAIN e.buffers \subseteq old.layers
      BY <2>2, CommitStays DEF Retains
    <3>3. IsView(f[i - 1])
      <4>1. KnownKinds(q)
        BY DEF Sound, KnownKinds
      <4>2. i - 1 \in 0 .. Len(q)
        BY <1>1
      <4> QED
        BY <4>1, <4>2, ViewsAll
    <3>4. Consume(f[i - 1], m) = Consume(f[i], e)
      BY <1>1, <3>1, <3>2, <3>3, Merge
    <3> QED
      BY <1>1, <1>2, <2>2, <3>4 DEF Stands, After
  <2> QED
    BY <2>1, <2>2
<1>4. ASSUME NEW n \in i + 1 .. Len(q), NEW a, IsView(a), NEW w, w.event.kind = "commit",
             w.event.surface = e.surface
      PROVE  After(After(a, w, s), q[n], s) = After(After(a, q[n], s), w, s)
  <2>1. n \in 1 .. Len(q) /\ ~OwnCommit(q[n], e) /\ ~IsControl(q[n].event)
    BY <1>1 DEF SupersedesCommit, Passed
  <2>2. CASE e.surface = s /\ q[n].event.surface = s
    <3>1. q[n].event.kind = "metadata"
      BY <2>1, <2>2 DEF OwnCommit, IsControl
    <3>2. Consume(Consume(a, w.event), q[n].event) = Consume(Consume(a, q[n].event), w.event)
      BY <1>4, <3>1, Commute
    <3> QED
      BY <1>4, <2>2, <3>2 DEF After
  <2>3. CASE ~(e.surface = s /\ q[n].event.surface = s)
    BY <1>4, <2>3 DEF After
  <2> QED
    BY <2>2, <2>3
<1>5. \A w : w.event.kind = "commit" /\ w.event.surface = e.surface => Commutes(q, i, w, s)
  BY <1>4 DEF Commutes
<1> QED
  BY <1>1, <1>2, <1>3, <1>5

\* Newer metadata of a surface hides the older, whatever came in between.
LEMMA NewerMetadata ==
  ASSUME NEW q, Len(q) \in Nat, Sound(q), NEW e, NEW i, SupersedesMetadata(q, e, i),
         NEW s, NEW v, IsView(v), NEW f, Steps(f, v, q, s), NEW r, r.event = e
  PROVE  /\ Stands(f[i - 1], r, f[i], e, s)
         /\ \A n \in i + 1 .. Len(q) : \A a, b : IsView(a) /\ IsView(b) /\ Stands(a, r, b, e, s) =>
              Stands(After(a, q[n], s), r, After(b, q[n], s), e, s)
<1> DEFINE old == q[i].event
<1>1. /\ e.kind = "metadata" /\ old.kind = "metadata" /\ old.surface = e.surface /\ i \in 1 .. Len(q)
      /\ Bare(e).event = e
  BY DEF SupersedesMetadata, Bare
<1>2. Stands(f[i - 1], r, f[i], e, s)
  <2>1. CASE e.surface # s
    <3>1. f[i] = f[i - 1]
      BY <1>1, <2>1 DEF Steps, After
    <3> QED
      BY <1>1, <2>1, <3>1 DEF Stands, After
  <2>2. CASE e.surface = s
    <3>1. f[i] = Consume(f[i - 1], old)
      BY <1>1, <2>2 DEF Steps, After
    <3>2. IsView(f[i - 1])
      <4>1. KnownKinds(q)
        BY DEF Sound, KnownKinds
      <4>2. i - 1 \in 0 .. Len(q)
        BY <1>1
      <4> QED
        BY <4>1, <4>2, ViewsAll
    <3>3. Consume(f[i - 1], e) = Consume(f[i], e)
      BY <1>1, <3>1, <3>2, Overwrite
    <3> QED
      BY <1>1, <2>2, <3>3 DEF Stands, After
  <2> QED
    BY <2>1, <2>2
<1>3. ASSUME NEW n \in i + 1 .. Len(q), NEW a, IsView(a), NEW b, IsView(b), Stands(a, r, b, e, s)
      PROVE  Stands(After(a, q[n], s), r, After(b, q[n], s), e, s)
  <2> DEFINE d == q[n].event
  <2>1. d.kind \in {"commit", "metadata"}
    BY <1>1 DEF SupersedesMetadata, NoControlAfter, IsControl
  <2>2. CASE e.surface = s /\ d.surface = s
    <3>1. Consume(a, e) = Consume(b, e)
      BY <1>1, <1>3, <2>2 DEF Stands, After
    <3>2. Consume(Consume(a, d), e) = Consume(Consume(b, d), e)
      <4>1. CASE d.kind = "metadata"
        BY <1>1, <1>3, <3>1, <4>1, Overwrite
      <4>2. CASE d.kind = "commit"
        <5>1. Consume(Consume(a, d), e) = Consume(Consume(a, e), d)
          BY <1>1, <1>3, <4>2, Commute
        <5>2. Consume(Consume(b, d), e) = Consume(Consume(b, e), d)
          BY <1>1, <1>3, <4>2, Commute
        <5> QED
          BY <3>1, <5>1, <5>2
      <4> QED
        BY <2>1, <4>1, <4>2
    <3> QED
      BY <1>1, <2>2, <3>2 DEF Stands, After
  <2>3. CASE e.surface = s /\ d.surface # s
    BY <1>1, <1>3, <2>3 DEF Stands, After
  <2>4. CASE e.surface # s
    BY <1>1, <1>3, <2>4 DEF Stands, After
  <2> QED
    BY <2>2, <2>3, <2>4
<1> QED
  BY <1>2, <1>3

\* An insertion is what a consumer of any surface would make of the event after
\* everything queued.
LEMMA InsertGrows ==
  ASSUME NEW E, NEW q \in Seq(Records(E)), Sound(q), NEW e, e.kind \in Kinds,
         e.kind = "commit" => IsCommit(e) /\ e.mapped \in BOOLEAN,
         NEW s, NEW v, IsView(v), NEW f, Steps(f, v, q, s), NEW g, Steps(g, v, Insert(q, e), s),
         e.kind = "commit" /\ e.surface = s => Retains(e, f[Len(q)])
  PROVE  Grown(g, Insert(q, e), f, q, e, s)
<1> DEFINE p == Insert(q, e)
<1>1. Len(q) \in Nat /\ KnownKinds(q)
  BY DEF Sound, KnownKinds
<1>2. Steps(g, v, p, s)
  OBVIOUS
<1>3. /\ Records(E) \subseteq Records(E \union {e}) /\ q \in Seq(Records(E \union {e}))
      /\ \A b \in BOOLEAN : [event |-> e, barrier |-> b] \in Records(E \union {e})
  <2>1. Records(E) \subseteq Records(E \union {e})
    BY RecordsGrow
  <2>2. q \in Seq(Records(E \union {e}))
    BY <2>1, SeqMonotonic
  <2> QED
    BY <2>1, <2>2, RecordOf
<1>4. \/ Appends(q, e, p)
      \/ \E i : /\ SupersedesCommit(q, e, i)
                /\ \/ p = Updated(q, i, Carry(e, q[i].event))
                   \/ p = Append(RemoveAt(q, i), [event |-> Carry(e, q[i].event), barrier |-> FALSE])
      \/ \E i : /\ SupersedesMetadata(q, e, i)
                /\ p = Append(RemoveAt(q, i), [event |-> e, barrier |-> FALSE])
  BY InsertShape
<1> HIDE DEF p
<1>5. CASE Appends(q, e, p)
  <2>1. PICK b \in BOOLEAN : p = Append(q, [event |-> e, barrier |-> b])
    BY <1>5 DEF Appends
  <2>2. PICK r : r = [event |-> e, barrier |-> b]
    OBVIOUS
  <2>3. r \in Records(E \union {e}) /\ r.event = e /\ p = Append(q, r)
    BY <1>3, <2>1, <2>2
  <2>4. Grown(g, p, f, q, r.event, s)
    BY <1>2, <1>3, <2>3, AppendGrows
  <2> QED
    BY <2>3, <2>4 DEF p
<1>6. ASSUME NEW i, SupersedesCommit(q, e, i),
             \/ p = Updated(q, i, Carry(e, q[i].event))
             \/ p = Append(RemoveAt(q, i), [event |-> Carry(e, q[i].event), barrier |-> FALSE])
      PROVE  Grown(g, p, f, q, e, s)
  <2>1. PICK c : c = Carry(e, q[i].event)
    OBVIOUS
  <2>2. /\ IsCommit(e) /\ c.kind = "commit" /\ ~IsControl(c) /\ i \in 1 .. Len(q) /\ NoControlAfter(q, i)
        /\ e.kind = "commit"
    BY <1>6, <2>1, CarryIs DEF SupersedesCommit, IsControl, NoControlAfter, Passed
  <2>3. CASE p = Updated(q, i, Carry(e, q[i].event))
    <3>1. Steps(g, v, Updated(q, i, c), s)
      BY <1>2, <2>1, <2>3
    <3>2. Bare(c).event = Carry(e, q[i].event)
      BY <2>1 DEF Bare
    <3>3. e.surface = s => Retains(e, f[Len(q)])
      BY <2>2
    <3>4. Stands(f[i - 1], Bare(c), f[i], e, s) /\ Commutes(q, i, Bare(e), s)
      BY <1>1, <1>6, <2>2, <3>2, <3>3, MergedCommit
    <3>5. Grown(g, Updated(q, i, c), f, q, e, s)
      BY <1>1, <2>2, <3>1, <3>4, ReplaceGrows DEF Commutes
    <3> QED
      BY <2>1, <2>3, <3>5
  <2>4. CASE p = Append(RemoveAt(q, i), [event |-> Carry(e, q[i].event), barrier |-> FALSE])
    <3>1. PICK r : r = [event |-> c, barrier |-> FALSE]
      OBVIOUS
    <3>2. r.event = c /\ r.event = Carry(e, q[i].event) /\ p = Append(RemoveAt(q, i), r)
      BY <2>1, <2>4, <3>1
    <3>3. PICK S : r \in S /\ q \in Seq(S)
      <4>1. r \in Records(E \union {c})
        BY <3>1, RecordOf
      <4>2. Records(E) \subseteq Records(E \union {c})
        BY RecordsGrow
      <4>3. q \in Seq(Records(E \union {c}))
        BY <4>2, SeqMonotonic
      <4> QED
        BY <4>1, <4>3
    <3>4. e.surface = s => Retains(e, f[Len(q)])
      BY <2>2
    <3>5. Stands(f[i - 1], r, f[i], e, s) /\ Commutes(q, i, Bare(e), s) /\ Commutes(q, i, r, s)
      BY <1>1, <1>6, <2>2, <3>2, <3>4, MergedCommit
    <3>6. \A n \in i + 1 .. Len(q) : \A a, b : IsView(a) /\ IsView(b) /\ Stands(a, r, b, e, s) =>
             Stands(After(a, q[n], s), r, After(b, q[n], s), e, s)
      BY <3>5 DEF Stands, Commutes
    <3>7. r.event.kind \in Kinds /\ ~IsControl(r.event)
      BY <2>2, <3>2 DEF Kinds
    <3>8. Steps(g, v, Append(RemoveAt(q, i), r), s)
      BY <1>2, <3>2
    <3>9. Grown(g, Append(RemoveAt(q, i), r), f, q, e, s)
      BY <1>1, <2>2, <3>3, <3>5, <3>6, <3>7, <3>8, MoveGrows
    <3> QED
      BY <3>2, <3>9
  <2> QED
    BY <1>6, <2>3, <2>4
<1>7. ASSUME NEW i, SupersedesMetadata(q, e, i),
             p = Append(RemoveAt(q, i), [event |-> e, barrier |-> FALSE])
      PROVE  Grown(g, p, f, q, e, s)
  <2>1. PICK r : r = [event |-> e, barrier |-> FALSE]
    OBVIOUS
  <2>2. r.event = e /\ p = Append(RemoveAt(q, i), r) /\ r \in Records(E \union {e})
    BY <1>3, <1>7, <2>1
  <2>3. e.kind = "metadata" /\ i \in 1 .. Len(q) /\ NoControlAfter(q, i)
    BY <1>7 DEF SupersedesMetadata
  <2>4. r.event.kind \in Kinds /\ ~IsControl(r.event)
    BY <2>2, <2>3 DEF IsControl
  <2>5. /\ Stands(f[i - 1], r, f[i], e, s)
        /\ \A n \in i + 1 .. Len(q) : \A a, b : IsView(a) /\ IsView(b) /\ Stands(a, r, b, e, s) =>
             Stands(After(a, q[n], s), r, After(b, q[n], s), e, s)
    BY <1>1, <1>7, <2>2, NewerMetadata
  <2>6. Steps(g, v, Append(RemoveAt(q, i), r), s)
    BY <1>2, <2>2
  <2>7. Grown(g, Append(RemoveAt(q, i), r), f, q, e, s)
    BY <1>1, <1>3, <2>2, <2>3, <2>4, <2>5, <2>6, MoveGrows
  <2> QED
    BY <2>2, <2>7
<1>8. Grown(g, p, f, q, e, s)
  BY <1>4, <1>5, <1>6, <1>7 DEF p
<1> QED
  BY <1>8 DEF p

LEMMA InsertSound ==
  ASSUME NEW E, NEW q \in Seq(Records(E)), Sound(q), NEW e, e.kind \in Kinds,
         e.kind = "commit" => IsCommit(e) /\ e.mapped \in BOOLEAN
  PROVE  Sound(Insert(q, e))
<1> DEFINE p == Insert(q, e)
<1>1. \/ Appends(q, e, p)
      \/ \E i : /\ SupersedesCommit(q, e, i)
                /\ \/ p = Updated(q, i, Carry(e, q[i].event))
                   \/ p = Append(RemoveAt(q, i), [event |-> Carry(e, q[i].event), barrier |-> FALSE])
      \/ \E i : /\ SupersedesMetadata(q, e, i)
                /\ p = Append(RemoveAt(q, i), [event |-> e, barrier |-> FALSE])
  BY InsertShape
<1> HIDE DEF p
<1>2. ASSUME NEW h, NEW S, h \in Seq(S), Sound(h), NEW r, r.event.kind \in Kinds,
             r.barrier => r.event.kind = "commit"
      PROVE  Sound(Append(h, r))
  <2>1. /\ Len(Append(h, r)) = Len(h) + 1 /\ Append(h, r)[Len(h) + 1] = r /\ Len(h) \in Nat
        /\ \A n \in 1 .. Len(h) : Append(h, r)[n] = h[n]
    BY <1>2
  <2>2. ASSUME NEW n \in 1 .. Len(h) + 1
        PROVE  Append(h, r)[n] = r \/ (n \in 1 .. Len(h) /\ Append(h, r)[n] = h[n])
    BY <2>1
  <2> QED
    BY <1>2, <2>1, <2>2 DEF Sound
<1>3. ASSUME NEW i \in 1 .. Len(q)
      PROVE  RemoveAt(q, i) \in Seq(Records(E)) /\ Sound(RemoveAt(q, i))
  <2> DEFINE h == RemoveAt(q, i)
  <2>1. h \in Seq(Records(E)) /\ Len(h) = Len(q) - 1
    BY RemoveAtAt
  <2>2. \A j \in 1 .. i - 1 : h[j] = q[j]
    BY RemoveAtAt
  <2>3. \A j \in i .. Len(q) - 1 : h[j] = q[j + 1]
    BY RemoveAtAt
  <2> HIDE DEF h
  <2>4. Sound(h)
    BY <2>1, <2>2, <2>3 DEF Sound
  <2> QED
    BY <2>1, <2>4 DEF h
<1>4. CASE Appends(q, e, p)
  <2>1. PICK b \in BOOLEAN : (b => e.kind = "commit") /\ p = Append(q, [event |-> e, barrier |-> b])
    BY <1>4 DEF Appends
  <2>2. PICK r : r = [event |-> e, barrier |-> b]
    OBVIOUS
  <2>3. r.event = e /\ r.event.kind \in Kinds /\ p = Append(q, r)
    BY <2>1, <2>2
  <2>4. r.barrier => r.event.kind = "commit"
    BY <2>1, <2>2
  <2>5. Sound(Append(q, r))
    BY <1>2, <2>3, <2>4
  <2> QED
    BY <2>3, <2>5 DEF p
<1>5. ASSUME NEW i, SupersedesCommit(q, e, i),
             \/ p = Updated(q, i, Carry(e, q[i].event))
             \/ p = Append(RemoveAt(q, i), [event |-> Carry(e, q[i].event), barrier |-> FALSE])
      PROVE  Sound(p)
  <2>1. PICK c : c = Carry(e, q[i].event)
    OBVIOUS
  <2>2. c.kind = "commit" /\ c.kind \in Kinds /\ i \in 1 .. Len(q)
    BY <1>5, <2>1, CarryIs DEF SupersedesCommit, Kinds
  <2>3. CASE p = Updated(q, i, c)
    <3>1. IsUpdate(p, q, i, c) /\ Len(p) = Len(q)
      <4>1. p \in Seq(Records(E \union {c})) /\ IsUpdate(p, q, i, c)
        BY <2>2, <2>3, UpdatedAt
      <4> QED
        BY <4>1 DEF IsUpdate
    <3> QED
      BY <2>2, <3>1 DEF IsUpdate, Sound
  <2>4. CASE p = Append(RemoveAt(q, i), [event |-> c, barrier |-> FALSE])
    <3>1. PICK r : r.event = c /\ r.barrier = FALSE /\ p = Append(RemoveAt(q, i), r)
      BY <2>4
    <3> QED
      BY <1>2, <1>3, <2>2, <3>1
  <2> QED
    BY <1>5, <2>1, <2>3, <2>4
<1>6. ASSUME NEW i, SupersedesMetadata(q, e, i),
             p = Append(RemoveAt(q, i), [event |-> e, barrier |-> FALSE])
      PROVE  Sound(p)
  <2>1. i \in 1 .. Len(q)
    BY <1>6 DEF SupersedesMetadata
  <2>2. PICK r : r.event = e /\ r.barrier = FALSE /\ p = Append(RemoveAt(q, i), r)
    BY <1>6
  <2> QED
    BY <1>2, <1>3, <2>1, <2>2
<1> QED
  BY <1>1, <1>4, <1>5, <1>6 DEF p

LEMMA TailSteps ==
  ASSUME NEW S, NEW q \in Seq(S), q # <<>>, NEW v, NEW s, NEW f, Steps(f, v, q, s),
         NEW g, Steps(g, f[1], Tail(q), s)
  PROVE  \A n \in 0 .. Len(q) - 1 : g[n] = f[n + 1]
<1>1. Len(q) \in Nat \ {0} /\ Len(Tail(q)) = Len(q) - 1 /\ \A n \in 1 .. Len(q) - 1 : Tail(q)[n] = q[n + 1]
  OBVIOUS
<1> DEFINE P == {n \in 0 .. Len(q) - 1 : g[n] = f[n + 1]}
<1>2. 0 \in P
  BY <1>1 DEF Steps
<1>3. ASSUME NEW n \in 0 + 1 .. Len(q) - 1, n - 1 \in P
      PROVE  n \in P
  <2>1. g[n - 1] = f[n] /\ n \in 1 .. Len(q) - 1 /\ n + 1 \in 1 .. Len(q)
    BY <1>1, <1>3
  <2>2. g[n] = After(g[n - 1], q[n + 1], s)
    BY <1>1, <2>1 DEF Steps
  <2>3. f[n + 1] = After(f[n], q[n + 1], s)
    <3>1. (n + 1) - 1 = n
      BY <2>1
    <3> QED
      BY <2>1, <3>1 DEF Steps
  <2> QED
    BY <2>1, <2>2, <2>3
<1>4. Len(q) - 1 \in Nat /\ 0 \in 0 .. Len(q) - 1
  BY <1>1
<1> HIDE DEF P
<1>5. \A n \in 0 .. Len(q) - 1 : n \in P
  BY <1>2, <1>3, <1>4, Induct
<1> QED
  BY <1>5 DEF P

-----------------------------------------------------------------------------
(* QueueIsTransparent.                                                     *)

\* The inductive invariant: the queue's records and views are what they should
\* be, and the promise itself.
ViewInv ==
  /\ OkQueue(queue) /\ Sound(queue)
  /\ seen = [s \in QueuedSurfaces |-> seen[s]] /\ truth = [s \in QueuedSurfaces |-> truth[s]]
  /\ \A s \in QueuedSurfaces : IsView(seen[s])
  /\ QueueIsTransparent

LEMMA PushKeepsViews ==
  ASSUME ViewInv, NEW s0 \in QueuedSurfaces, NEW e, e.kind \in Kinds, e.surface = s0,
         e.kind = "commit" => IsCommit(e) /\ e.mapped \in BOOLEAN /\ Retains(e, truth[s0]),
         e.kind = "control" => e.then = truth, Push(e)
  PROVE  ViewInv'
<1> DEFINE p == Insert(queue, e)
<1>1. queue' = p /\ seen' = seen /\ truth' = [truth EXCEPT ![s0] = Consume(@, e)]
  BY DEF Push
<1>2. PICK E : queue \in Seq(Records(E))
  BY DEF ViewInv, OkQueue
<1>3. OkQueue(p)
  <2>1. e.kind = "commit" =>
           \A old : /\ Carry(e, old).kind = "commit" /\ Carry(e, old).surface = e.surface
                    /\ Carry(e, old).session = e.session /\ Carry(e, old).mapped = e.mapped
    BY CarryIs
  <2> QED
    BY <2>1, InsertOk DEF ViewInv
<1>4. Sound(p)
  BY <1>2, InsertSound DEF ViewInv
<1>5. Len(queue) \in Nat /\ Len(p) \in Nat
  BY <1>2, <1>3 DEF OkQueue
<1>6. ASSUME NEW s \in QueuedSurfaces
      PROVE  /\ Consumed(seen[s], p, s)[Len(p)] = truth'[s]
             /\ \A j \in DOMAIN p : IsControl(p[j].event) =>
                  Consumed(seen[s], p, s)[j - 1] = p[j].event.then[s]
  <2>1. PICK f : f = Consumed(seen[s], queue, s)
    OBVIOUS
  <2>2. PICK g : g = Consumed(seen[s], p, s)
    OBVIOUS
  <2>3. Steps(f, seen[s], queue, s) /\ Steps(g, seen[s], p, s)
    BY <1>5, <2>1, <2>2, ConsumedSteps
  <2>4. /\ f[Len(queue)] = truth[s]
        /\ \A j \in 1 .. Len(queue) : IsControl(queue[j].event) => f[j - 1] = queue[j].event.then[s]
    BY <1>2, <2>1 DEF ViewInv, QueueIsTransparent, QueueHoldsTheRest, ControlsSeeTheirMoment
  <2>5. e.kind = "commit" /\ e.surface = s => Retains(e, f[Len(queue)])
    BY <2>4
  <2>6. Grown(g, p, f, queue, e, s)
    <3>1. IsView(seen[s]) /\ Sound(queue)
      BY DEF ViewInv
    <3> QED
      BY <1>2, <2>3, <2>5, <3>1, InsertGrows
  <2> HIDE DEF p
  <2>7. g[Len(p)] = truth'[s]
    <3>1. g[Len(p)] = After(truth[s], Bare(e), s)
      BY <2>4, <2>6 DEF Grown
    <3>2. truth'[s] = IF s = s0 THEN Consume(truth[s], e) ELSE truth[s]
      BY <1>1 DEF ViewInv
    <3> QED
      BY <3>1, <3>2 DEF After, Bare
  <2>8. ASSUME NEW j \in 1 .. Len(p), IsControl(p[j].event)
        PROVE  g[j - 1] = p[j].event.then[s]
    <3>1. CASE j \in 1 .. Len(queue) /\ p[j] = queue[j] /\ g[j - 1] = f[j - 1]
      BY <2>4, <2>8, <3>1
    <3>2. CASE p[j].event = e /\ g[j - 1] = f[Len(queue)]
      <4>1. e.kind = "control"
        BY <2>8, <3>2 DEF IsControl, Kinds
      <4> QED
        BY <2>4, <3>2, <4>1
    <3> QED
      BY <2>6, <2>8, <3>1, <3>2 DEF Grown
  <2>9. DOMAIN p = 1 .. Len(p)
    BY <1>3 DEF OkQueue
  <2> QED
    BY <2>2, <2>7, <2>8, <2>9
<1>7. QueueIsTransparent'
  BY <1>1, <1>6 DEF QueueIsTransparent, QueueHoldsTheRest, ControlsSeeTheirMoment
<1>8. truth' = [s \in QueuedSurfaces |-> truth'[s]]
  BY <1>1 DEF ViewInv
<1> HIDE DEF p
<1> QED
  BY <1>1, <1>3, <1>4, <1>7, <1>8 DEF ViewInv

LEMMA PopKeepsViews ==
  ASSUME ViewInv, PopFront
  PROVE  ViewInv'
<1> DEFINE p == Tail(queue)
           e == Head(queue).event
<1>1. queue # <<>> /\ queue' = p /\ truth' = truth /\ seen' = [seen EXCEPT ![e.surface] = Consume(@, e)]
  BY DEF PopFront
<1>2. PICK E : queue \in Seq(Records(E))
  BY DEF ViewInv, OkQueue
<1>3. /\ Len(queue) \in Nat \ {0} /\ Len(p) = Len(queue) - 1 /\ Len(p) \in Nat /\ DOMAIN p = 1 .. Len(queue) - 1
      /\ e = queue[1].event /\ p \in Seq(Records(E))
      /\ \A n \in 1 .. Len(queue) - 1 : p[n] = queue[n + 1]
  BY <1>1, <1>2
<1>4. OkQueue(p)
  <2>1. Coalesced(p)
    BY <1>1, <1>2, TailCoalesced DEF ViewInv, OkQueue
  <2> QED
    BY <1>3, <2>1 DEF OkQueue
<1>5. Sound(p)
  BY <1>3 DEF Sound, ViewInv
<1> HIDE DEF p, e
<1>6. ASSUME NEW s \in QueuedSurfaces
      PROVE  /\ IsView(seen'[s])
             /\ Consumed(seen'[s], p, s)[Len(p)] = truth[s]
             /\ \A j \in DOMAIN p : IsControl(p[j].event) =>
                  Consumed(seen'[s], p, s)[j - 1] = p[j].event.then[s]
  <2>1. PICK f : f = Consumed(seen[s], queue, s)
    OBVIOUS
  <2>2. Steps(f, seen[s], queue, s)
    BY <1>3, <2>1, ConsumedSteps
  <2>3. seen'[s] = IF e.surface = s THEN Consume(seen[s], e) ELSE seen[s]
    BY <1>1 DEF ViewInv
  <2>4. f[1] = seen'[s]
    BY <1>3, <2>2, <2>3 DEF Steps, After
  <2>5. PICK g : g = Consumed(seen'[s], p, s)
    OBVIOUS
  <2>6. Steps(g, f[1], p, s)
    BY <1>3, <2>4, <2>5, ConsumedSteps
  <2>7. \A n \in 0 .. Len(queue) - 1 : g[n] = f[n + 1]
    BY <1>1, <1>2, <2>2, <2>6, TailSteps DEF p
  <2>8. /\ f[Len(queue)] = truth[s]
        /\ \A j \in 1 .. Len(queue) : IsControl(queue[j].event) => f[j - 1] = queue[j].event.then[s]
    BY <1>2, <2>1 DEF ViewInv, QueueIsTransparent, QueueHoldsTheRest, ControlsSeeTheirMoment
  <2>9. g[Len(p)] = truth[s]
    BY <1>3, <2>7, <2>8
  <2>10. ASSUME NEW j \in DOMAIN p, IsControl(p[j].event)
         PROVE  g[j - 1] = p[j].event.then[s]
    <3>1. j + 1 \in 1 .. Len(queue) /\ p[j] = queue[j + 1] /\ j - 1 \in 0 .. Len(queue) - 1
      BY <1>3
    <3>2. (j + 1) - 1 = j /\ (j - 1) + 1 = j
      BY <3>1
    <3> QED
      BY <2>7, <2>8, <2>10, <3>1, <3>2
  <2>11. IsView(seen'[s])
    <3>1. IsView(seen[s]) /\ e.kind \in Kinds
      BY <1>3 DEF ViewInv, Sound
    <3> QED
      BY <2>3, <3>1, ConsumeView
  <2> QED
    BY <2>5, <2>9, <2>10, <2>11
<1>7. QueueIsTransparent'
  BY <1>1, <1>6 DEF QueueIsTransparent, QueueHoldsTheRest, ControlsSeeTheirMoment
<1>8. seen' = [s \in QueuedSurfaces |-> seen'[s]]
  BY <1>1 DEF ViewInv
<1> QED
  BY <1>1, <1>4, <1>5, <1>6, <1>7, <1>8 DEF ViewInv

LEMMA ViewsPreserved == ViewInv /\ [QueueNext]_queueVars => ViewInv'
<1> SUFFICES ASSUME ViewInv, [QueueNext]_queueVars PROVE ViewInv'
  OBVIOUS
<1>1. ASSUME NEW s \in QueuedSurfaces, NEW inv, NEW rep, NEW mapped \in BOOLEAN, NEW session,
             PushCommit(s, session, inv, rep, mapped)
      PROVE  ViewInv'
  <2>1. PICK e : e = [kind |-> "commit", surface |-> s, session |-> session, mapped |-> mapped, layers |-> inv,
                      buffers |-> [l \in rep |-> pushes + 1], at |-> pushes + 1]
    OBVIOUS
  <2>2. e.kind \in Kinds /\ e.surface = s /\ e.kind = "commit" /\ IsCommit(e) /\ e.mapped \in BOOLEAN
    BY <2>1 DEF Kinds, IsCommit
  <2>3. e.layers = inv /\ DOMAIN e.buffers = rep /\ e.session = session
    BY <2>1
  <2>4. Retains(e, truth[s])
    BY <1>1, <2>3 DEF Retains, PushCommit
  <2>5. Push(e)
    BY <1>1, <2>1 DEF PushCommit
  <2> QED
    BY <2>2, <2>4, <2>5, PushKeepsViews
<1>2. ASSUME NEW s \in QueuedSurfaces, PushMetadata(s)
      PROVE  ViewInv'
  <2>1. PICK e : e = [kind |-> "metadata", surface |-> s, session |-> truth[s].session, at |-> pushes + 1]
    OBVIOUS
  <2>2. e.kind \in Kinds /\ e.surface = s /\ e.kind = "metadata" /\ Push(e)
    BY <1>2, <2>1 DEF Kinds, PushMetadata
  <2> QED
    BY <2>2, PushKeepsViews
<1>3. ASSUME NEW s \in QueuedSurfaces, PushControl(s)
      PROVE  ViewInv'
  <2>1. PICK e : e = [kind |-> "control", surface |-> s, session |-> truth[s].session, at |-> pushes + 1,
                      then |-> truth]
    OBVIOUS
  <2>2. e.kind \in Kinds /\ e.surface = s /\ e.kind = "control" /\ e.then = truth /\ Push(e)
    BY <1>3, <2>1 DEF Kinds, PushControl
  <2> QED
    BY <2>2, PushKeepsViews
<1>4. CASE PopFront
  BY <1>4, PopKeepsViews
<1>5. CASE UNCHANGED queueVars
  BY <1>5 DEF queueVars, ViewInv, QueueIsTransparent, QueueHoldsTheRest, ControlsSeeTheirMoment
<1> QED
  BY <1>1, <1>2, <1>3, <1>4, <1>5 DEF QueueNext

\* Whatever is pushed, and however slowly it is consumed, a consumer of the
\* coalescing queue of pending client events cannot tell it from one that
\* coalesces nothing, neither at its end nor at the controls it meets.
THEOREM QueueAlwaysTransparent == QueueSpec => []QueueIsTransparent
<1>1. QueueInit => ViewInv
  <2> SUFFICES ASSUME QueueInit PROVE ViewInv
    OBVIOUS
  <2>1. queue = <<>> /\ <<>> \in Seq(Records({})) /\ Len(queue) = 0 /\ DOMAIN queue = {}
    BY DEF QueueInit
  <2>2. OkQueue(queue) /\ Sound(queue)
    BY <2>1 DEF OkQueue, Coalesced, Sound
  <2>3. \A s \in QueuedSurfaces : seen[s] = Blank /\ truth[s] = Blank
    BY DEF QueueInit
  <2>4. seen = [s \in QueuedSurfaces |-> seen[s]] /\ truth = [s \in QueuedSurfaces |-> truth[s]]
    BY DEF QueueInit
  <2>5. \A s \in QueuedSurfaces : IsView(seen[s])
    BY <2>3 DEF IsView, Blank
  <2>6. \A s \in QueuedSurfaces : Consumed(seen[s], queue, s)[0] = seen[s]
    BY <2>1, ConsumedSteps DEF Steps
  <2>7. QueueIsTransparent
    BY <2>1, <2>3, <2>6 DEF QueueIsTransparent, QueueHoldsTheRest, ControlsSeeTheirMoment
  <2> QED
    BY <2>2, <2>4, <2>5, <2>7 DEF ViewInv
<1>2. ViewInv => QueueIsTransparent
  BY DEF ViewInv
<1> QED
  BY <1>1, <1>2, ViewsPreserved, PTL DEF QueueSpec

=============================================================================
