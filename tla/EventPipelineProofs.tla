------------------------ MODULE EventPipelineProofs ------------------------
(***************************************************************************)
(* The history and the stream, for any stacks, statuses, sizes, numbers of  *)
(* events, connections and faults: a standing failure takes one entry of    *)
(* the history, a browser that has read everything sent to it holds the     *)
(* history, the audit file loads to the records in memory, and a success    *)
(* that links a rollback links one of its own stack.                        *)
(***************************************************************************)
EXTENDS EventPipeline, SequenceTheorems, FiniteSetTheorems, NaturalsInduction,
        WellFoundedInduction, TLAPS

-----------------------------------------------------------------------------
(* Numbers                                                                  *)

\* A set of numbers that has a member has a least one.
LEMMA LeastNat ==
  ASSUME NEW S, S \subseteq Nat, S # {}
  PROVE  \E n \in S : \A m \in Nat : m < n => m \notin S
<1>1. PICK n \in S : \A m \in S : ~(<<m, n>> \in OpToRel(<, Nat))
  BY NatLessThanWellFounded, WFMin, Zenon
<1>2. ASSUME NEW m \in Nat, m < n
      PROVE  m \notin S
  BY <1>1, <1>2 DEF OpToRel
<1>3. QED
  BY <1>2

\* A set of numbers up to n that has a member has a greatest one.
LEMMA GreatestUpTo ==
  ASSUME NEW n \in Nat, NEW S, S \subseteq 0 .. n, S # {}
  PROVE  Max(S) \in S /\ \A k \in S : k <= Max(S)
<1> DEFINE T == {n - k : k \in S}
<1>1. PICK m \in T : \A k \in Nat : k < m => k \notin T
  <2>1. T \subseteq Nat /\ T # {}
    <3>1. \A k \in S : k \in 0 .. n /\ n - k \in Nat
      BY SMT
    <3>2. QED
      BY <3>1
  <2>2. QED
    BY <2>1, LeastNat
<1>2. PICK x \in S : m = n - x
  BY <1>1
<1>3. ASSUME NEW k \in S
      PROVE  x >= k
  <2>0. k \in 0 .. n /\ x \in 0 .. n
    BY <1>2
  <2>1. n - k \in T /\ n - k \in Nat /\ n - x \in Nat /\ k \in Nat /\ x \in Nat
    BY <2>0
  <2>2. ~(n - k < n - x)
    BY <1>1, <1>2, <2>1
  <2>3. QED
    BY <2>1, <2>2
<1>4. /\ Max(S) \in S
      /\ \A k \in S : Max(S) >= k
  BY <1>3 DEF Max
<1>5. QED
  BY <1>4

\* The smaller and the larger of two numbers.
LEMMA MinMaxOfTwo ==
  ASSUME NEW a \in Nat, NEW b \in Nat
  PROVE  /\ Min({a, b}) \in Nat
         /\ Max({a, b}) = IF a <= b THEN b ELSE a
<1>1. Min({a, b}) \in {a, b}
  <2>1. \E x \in {a, b} : \A y \in {a, b} : x =< y
    BY SMT
  <2>2. QED
    BY <2>1 DEF Min
<1>2. /\ Max({a, b}) \in {a, b}
      /\ \A y \in {a, b} : Max({a, b}) >= y
  <2>1. \E x \in {a, b} : \A y \in {a, b} : x >= y
    BY SMT
  <2>2. QED
    BY <2>1, Zenon DEF Max
<1>3. QED
  BY <1>1, <1>2

-----------------------------------------------------------------------------
(* Drawing a sequence from another                                          *)

\* The elements of a sequence of events.
LEMMA Elems ==
  ASSUME NEW q \in Seq(Event)
  PROVE  /\ ToSet(q) = {q[j] : j \in 1 .. Len(q)} /\ Len(q) \in Nat
         /\ ToSet(q) \subseteq Event
         /\ \A j \in DOMAIN q : q[j].id \in Nat
<1>1. ToSet(q) = {q[j] : j \in 1 .. Len(q)} /\ Len(q) \in Nat /\ ToSet(q) \subseteq Event
  BY DEF ToSet
<1>2. \A j \in DOMAIN q : q[j] \in Event
  OBVIOUS
<1>3. \A x \in Event : x.id \in Nat
  BY DEF Event
<1>4. QED
  BY <1>1, <1>2, <1>3

\* The elements of r are those of q at the positions phi, in the order of q.
Drawn(q, r, phi) ==
    /\ r \in Seq(Event) /\ phi \in [1 .. Len(r) -> 1 .. Len(q)]
    /\ \A j, k \in 1 .. Len(r) : j < k => phi[j] < phi[k]
    /\ \A k \in 1 .. Len(r) : r[k] = q[phi[k]]

\* r is what is left of the first n events of q: those at I.
LeftOf(q, I, n, r) ==
    \E phi : /\ Drawn(q, r, phi)
             /\ \A i : (\E k \in 1 .. Len(r) : i = phi[k]) <=> i \in I /\ i \in 1 .. n

\* The values of the recursive function of `kept`.
UpTo(q, I, n, f) ==
    f = [k \in 0 .. n |-> IF k = 0 THEN <<>>
                          ELSE IF k \in I THEN Append(f[k - 1], q[k]) ELSE f[k - 1]]

\* One event more of q is kept, or left out.
LEMMA NextLeft ==
  ASSUME NEW q \in Seq(Event), NEW I, NEW n \in 1 .. Len(q), NEW r, LeftOf(q, I, n - 1, r)
  PROVE  LeftOf(q, I, n, IF n \in I THEN Append(r, q[n]) ELSE r)
<1> DEFINE s == Append(r, q[n])
<1>0. PICK phi : /\ Drawn(q, r, phi)
                 /\ \A i : (\E k \in 1 .. Len(r) : i = phi[k]) <=> i \in I /\ i \in 1 .. n - 1
  BY DEF LeftOf
<1>1. q[n] \in Event /\ r \in Seq(Event) /\ Len(q) \in Nat /\ Len(r) \in Nat
  BY <1>0 DEF Drawn
<1>2. /\ s \in Seq(Event) /\ Len(s) = Len(r) + 1 /\ s[Len(r) + 1] = q[n]
      /\ \A j \in 1 .. Len(r) : s[j] = r[j]
  BY <1>1
<1>3. /\ phi \in [1 .. Len(r) -> 1 .. Len(q)]
      /\ \A j, k \in 1 .. Len(r) : j < k => phi[j] < phi[k]
      /\ \A k \in 1 .. Len(r) : r[k] = q[phi[k]]
  BY <1>0 DEF Drawn
<1>4. \A k \in 1 .. Len(r) : phi[k] \in 1 .. n - 1
  BY <1>0
<1> HIDE DEF s
<1>5. CASE n \in I
  <2> DEFINE psi == [k \in 1 .. Len(r) + 1 |-> IF k = Len(r) + 1 THEN n ELSE phi[k]]
  <2>1. psi \in [1 .. Len(s) -> 1 .. Len(q)] /\ psi[Len(r) + 1] = n
    BY <1>1, <1>2, <1>3
  <2>2. \A k \in 1 .. Len(r) : psi[k] = phi[k] /\ k \in 1 .. Len(s)
    BY <1>1, <1>2
  <2>3. \A k \in 1 .. Len(s) : k \in 1 .. Len(r) \/ k = Len(r) + 1
    BY <1>1, <1>2
  <2> HIDE DEF psi
  <2>4. ASSUME NEW j \in 1 .. Len(s), NEW k \in 1 .. Len(s), j < k
        PROVE  psi[j] < psi[k]
    <3>1. j \in 1 .. Len(r)
      BY <1>1, <2>3, <2>4
    <3>2. CASE k \in 1 .. Len(r)
      BY <1>3, <2>2, <2>4, <3>1, <3>2
    <3>3. CASE k = Len(r) + 1
      <4>1. psi[k] = n /\ psi[j] = phi[j] /\ phi[j] \in 1 .. n - 1
        BY <1>4, <2>1, <2>2, <3>1, <3>3
      <4>2. QED
        BY <1>1, <4>1
    <3>4. QED
      BY <2>3, <3>2, <3>3
  <2>5. ASSUME NEW k \in 1 .. Len(s)
        PROVE  s[k] = q[psi[k]]
    BY <1>2, <1>3, <2>1, <2>2, <2>3
  <2>6. Drawn(q, s, psi)
    BY <1>2, <2>1, <2>4, <2>5 DEF Drawn
  <2>7. ASSUME NEW i
        PROVE  (\E k \in 1 .. Len(s) : i = psi[k]) <=> i \in I /\ i \in 1 .. n
    <3>1. (\E k \in 1 .. Len(s) : i = psi[k]) <=> i = n \/ \E k \in 1 .. Len(r) : i = phi[k]
      <4>1. Len(r) + 1 \in 1 .. Len(s)
        BY <1>1, <1>2
      <4>2. QED
        BY <2>1, <2>2, <2>3, <4>1
    <3>2. i \in 1 .. n <=> i = n \/ i \in 1 .. n - 1
      BY <1>1
    <3>3. QED
      BY <1>0, <1>5, <3>1, <3>2
  <2>8. LeftOf(q, I, n, s)
    BY <2>6, <2>7 DEF LeftOf
  <2>9. QED
    BY <1>5, <2>8 DEF s
<1>6. CASE n \notin I
  <2>1. \A i : i \in I /\ i \in 1 .. n <=> i \in I /\ i \in 1 .. n - 1
    BY <1>1, <1>6
  <2>2. LeftOf(q, I, n, r)
    BY <1>0, <2>1 DEF LeftOf
  <2>3. QED
    BY <1>6, <2>2
<1>7. QED
  BY <1>5, <1>6

\* The recursive function of `kept` exists.
LEMMA UpToExists ==
  ASSUME NEW q, NEW I, Len(q) \in Nat
  PROVE  \E f : UpTo(q, I, Len(q), f)
<1> DEFINE Bad == {n \in Nat : ~\E f : UpTo(q, I, n, f)}
<1>1. ASSUME NEW n \in Bad, \A m \in Nat : m < n => m \notin Bad
      PROVE  FALSE
  <2>1. CASE n = 0
    <3>1. UpTo(q, I, 0, [k \in 0 .. 0 |-> <<>>])
      BY DEF UpTo
    <3>2. QED
      BY <2>1, <3>1
  <2>2. CASE n # 0
    <3>1. PICK g : UpTo(q, I, n - 1, g)
      BY <1>1, <2>2
    <3> DEFINE last == IF n \in I THEN Append(g[n - 1], q[n]) ELSE g[n - 1]
               h == [k \in 0 .. n |-> IF k = n THEN last ELSE g[k]]
    <3>2. \A k \in 0 .. n - 1 : h[k] = g[k]
      BY <2>2
    <3>3. \A k \in 0 .. n - 1 : g[k] =
            IF k = 0 THEN <<>> ELSE IF k \in I THEN Append(g[k - 1], q[k]) ELSE g[k - 1]
      BY <3>1 DEF UpTo
    <3>4. ASSUME NEW k \in 0 .. n
          PROVE  h[k] = IF k = 0 THEN <<>>
                        ELSE IF k \in I THEN Append(h[k - 1], q[k]) ELSE h[k - 1]
      <4>1. CASE k = n
        BY <2>2, <3>2, <4>1
      <4>2. CASE k # n
        BY <2>2, <3>2, <3>3, <4>2
      <4>3. QED
        BY <4>1, <4>2
    <3>5. UpTo(q, I, n, h)
      BY <3>4, Zenon DEF UpTo
    <3>6. QED
      BY <3>5
  <2>3. QED
    BY <2>1, <2>2
<1>2. Bad = {}
  BY <1>1, LeastNat
<1>3. QED
  BY <1>2

\* `kept` is what is left of the whole sequence.
LEMMA Kept ==
  ASSUME NEW q \in Seq(Event), NEW I
  PROVE  LeftOf(q, I, Len(q), kept(q, I))
<1> DEFINE f == CHOOSE f : UpTo(q, I, Len(q), f)
           Bad == {n \in 0 .. Len(q) : ~LeftOf(q, I, n, f[n])}
<1>0. Len(q) \in Nat
  OBVIOUS
<1>1. UpTo(q, I, Len(q), f)
  BY <1>0, UpToExists
<1>2. kept(q, I) = f[Len(q)]
  BY DEF kept, UpTo
<1> HIDE DEF f
<1>3. \A k \in 0 .. Len(q) : f[k] =
        IF k = 0 THEN <<>> ELSE IF k \in I THEN Append(f[k - 1], q[k]) ELSE f[k - 1]
  BY <1>1 DEF UpTo
<1>4. ASSUME NEW n \in Bad, \A m \in Nat : m < n => m \notin Bad
      PROVE  FALSE
  <2>1. CASE n = 0
    <3>1. f[0] = <<>>
      BY <1>0, <1>3
    <3>2. LeftOf(q, I, 0, <<>>)
      <4>1. Drawn(q, <<>>, [k \in 1 .. 0 |-> 1])
        BY DEF Drawn
      <4>2. QED
        BY <4>1 DEF LeftOf
    <3>3. QED
      BY <1>4, <2>1, <3>1, <3>2
  <2>2. CASE n # 0
    <3>1. n \in 1 .. Len(q) /\ n - 1 \in Nat /\ n - 1 < n /\ n - 1 \in 0 .. Len(q)
      BY <1>0, <2>2
    <3>2. LeftOf(q, I, n - 1, f[n - 1])
      BY <1>4, <3>1
    <3>3. LeftOf(q, I, n, IF n \in I THEN Append(f[n - 1], q[n]) ELSE f[n - 1])
      BY <3>1, <3>2, NextLeft
    <3>4. QED
      BY <1>3, <1>4, <2>2, <3>3
  <2>3. QED
    BY <2>1, <2>2
<1>5. Bad \subseteq Nat
  BY <1>0
<1>6. Bad = {}
  <2> HIDE DEF Bad
  <2> QED
    BY <1>4, <1>5, LeastNat
<1>7. QED
  BY <1>0, <1>2, <1>6

-----------------------------------------------------------------------------
(* Histories in which no failure that stands has two entries                *)

\* An outcome of a stack.
Outcome(h, i, s) == h[i].stack = s /\ Terminal(h[i])

\* OneEntryPerRun, of any history.
Collapsed(h) ==
    \A i, j \in 1 .. Len(h) :
        (/\ i < j /\ Outcome(h, i, h[j].stack) /\ Terminal(h[j])
         /\ \A k \in 1 .. Len(h) : i < k /\ k < j => ~Outcome(h, k, h[j].stack))
            => ~RepeatsOf(h[j], h[i])

\* What is drawn between two outcomes of a stack leaves out none of its outcomes.
Unbroken(q, r, phi) ==
    \A j, k \in 1 .. Len(r), m \in 1 .. Len(q) :
        (/\ phi[j] < m /\ m < phi[k] /\ r[j].stack = r[k].stack /\ Outcome(q, m, r[k].stack))
            => \E l \in 1 .. Len(r) : phi[l] = m

\* A history without repeats stays one when whole stretches of a stack's outcomes go.
LEMMA DrawnCollapsed ==
  ASSUME NEW q \in Seq(Event), Collapsed(q), NEW r, NEW phi, Drawn(q, r, phi), Unbroken(q, r, phi)
  PROVE  Collapsed(r)
<1>0. /\ Len(q) \in Nat /\ Len(r) \in Nat
      /\ \A k \in 1 .. Len(r) : phi[k] \in 1 .. Len(q) /\ r[k] = q[phi[k]]
      /\ \A j, k \in 1 .. Len(r) : j < k => phi[j] < phi[k]
  BY DEF Drawn
<1> SUFFICES ASSUME NEW i \in 1 .. Len(r), NEW j \in 1 .. Len(r), i < j,
                    Outcome(r, i, r[j].stack), Terminal(r[j]),
                    \A k \in 1 .. Len(r) : i < k /\ k < j => ~Outcome(r, k, r[j].stack)
             PROVE  ~RepeatsOf(r[j], r[i])
  BY DEF Collapsed
<1>1. phi[i] \in 1 .. Len(q) /\ phi[j] \in 1 .. Len(q) /\ phi[i] < phi[j]
  BY <1>0
<1>2. /\ r[i] = q[phi[i]] /\ r[j] = q[phi[j]] /\ r[i].stack = r[j].stack
      /\ Outcome(q, phi[i], q[phi[j]].stack) /\ Terminal(q[phi[j]])
  BY <1>0 DEF Outcome
<1>3. ASSUME NEW m \in 1 .. Len(q), phi[i] < m, m < phi[j], Outcome(q, m, q[phi[j]].stack)
      PROVE  FALSE
  <2>1. PICK l \in 1 .. Len(r) : phi[l] = m
    BY <1>2, <1>3 DEF Unbroken
  <2>2. l # i /\ l # j /\ ~(l < i) /\ ~(j < l)
    <3>1. l < i => phi[l] < phi[i]
      BY <1>0
    <3>2. j < l => phi[j] < phi[l]
      BY <1>0
    <3>3. QED
      BY <1>1, <1>3, <2>1, <3>1, <3>2
  <2>3. i < l /\ l < j
    BY <1>0, <2>2
  <2>4. Outcome(r, l, r[j].stack)
    BY <1>0, <1>2, <1>3, <2>1 DEF Outcome
  <2>5. QED
    BY <2>3, <2>4
<1>4. ~RepeatsOf(q[phi[j]], q[phi[i]])
  BY <1>1, <1>2, <1>3 DEF Collapsed
<1>5. QED
  BY <1>2, <1>4

\* One more event that does not repeat its stack's last outcome.
LEMMA AppendCollapsed ==
  ASSUME NEW q \in Seq(Event), Collapsed(q), NEW e \in Event,
         \A i \in 1 .. Len(q) :
            (/\ Outcome(q, i, e.stack)
             /\ \A k \in 1 .. Len(q) : i < k => ~Outcome(q, k, e.stack)) => ~RepeatsOf(e, q[i])
  PROVE  Collapsed(Append(q, e))
<1> DEFINE s == Append(q, e)
<1>1. /\ Len(q) \in Nat /\ Len(s) = Len(q) + 1 /\ s[Len(q) + 1] = e
      /\ \A k \in 1 .. Len(q) : s[k] = q[k]
  OBVIOUS
<1> HIDE DEF s
<1> SUFFICES ASSUME NEW i \in 1 .. Len(s), NEW j \in 1 .. Len(s), i < j,
                    Outcome(s, i, s[j].stack), Terminal(s[j]),
                    \A k \in 1 .. Len(s) : i < k /\ k < j => ~Outcome(s, k, s[j].stack)
             PROVE  ~RepeatsOf(s[j], s[i])
  BY DEF Collapsed, s
<1>2. i \in 1 .. Len(q) /\ s[i] = q[i]
  BY <1>1
<1>3. CASE j \in 1 .. Len(q)
  <2>1. s[j] = q[j] /\ Outcome(q, i, q[j].stack) /\ Terminal(q[j])
    BY <1>1, <1>2, <1>3 DEF Outcome
  <2>2. \A k \in 1 .. Len(q) : i < k /\ k < j => ~Outcome(q, k, q[j].stack)
    BY <1>1, <2>1 DEF Outcome
  <2>3. QED
    BY <1>2, <1>3, <2>1, <2>2 DEF Collapsed
<1>4. CASE j = Len(q) + 1
  <2>1. s[j] = e /\ Outcome(q, i, e.stack)
    BY <1>1, <1>2, <1>4 DEF Outcome
  <2>2. ASSUME NEW k \in 1 .. Len(q), i < k
        PROVE  ~Outcome(q, k, e.stack)
    <3>1. k \in 1 .. Len(s) /\ k < j /\ s[k] = q[k]
      BY <1>1, <1>4
    <3>2. ~Outcome(s, k, e.stack)
      BY <2>1, <2>2, <3>1
    <3>3. QED
      BY <3>1, <3>2 DEF Outcome
  <2>3. QED
    BY <1>2, <2>1, <2>2
<1>5. QED
  BY <1>1, <1>3, <1>4

\* The newest n events.
LEMMA NewestDrawn ==
  ASSUME NEW q \in Seq(Event), NEW n \in Nat \ {0}
  PROVE  /\ newest(q, n) \in Seq(Event) /\ Len(newest(q, n)) <= n
         /\ Len(q) <= n => newest(q, n) = q
         /\ Collapsed(q) => Collapsed(newest(q, n))
         /\ ToSet(newest(q, n)) \subseteq ToSet(q)
         /\ Len(q) > 0 => q[Len(q)] \in ToSet(newest(q, n))
<1>0. Len(q) \in Nat
  OBVIOUS
<1>1. CASE Len(q) <= n
  <2>1. newest(q, n) = q
    BY <1>0, <1>1 DEF newest
  <2>2. Len(q) > 0 => Len(q) \in DOMAIN q
    BY <1>0
  <2>3. QED
    BY <1>0, <1>1, <2>1, <2>2 DEF ToSet
<1>2. CASE Len(q) > n
  <2> DEFINE r == SubSeq(q, Len(q) - n + 1, Len(q))
             phi == [k \in 1 .. Len(r) |-> k + (Len(q) - n)]
  <2>1. newest(q, n) = r
    BY <1>0, <1>2 DEF newest
  <2>2. /\ r \in Seq(Event) /\ Len(r) = n /\ n >= 1
        /\ \A k \in 1 .. n : r[k] = q[k + (Len(q) - n)]
    BY <1>0, <1>2
  <2> HIDE DEF r
  <2>3. phi \in [1 .. Len(r) -> 1 .. Len(q)] /\ \A k \in 1 .. Len(r) : phi[k] = k + (Len(q) - n)
    BY <1>0, <1>2, <2>2
  <2> HIDE DEF phi
  <2>4. Drawn(q, r, phi)
    BY <1>0, <2>2, <2>3 DEF Drawn
  <2>5. ASSUME NEW m \in 1 .. Len(q), NEW j \in 1 .. Len(r), phi[j] < m
        PROVE  m - (Len(q) - n) \in 1 .. Len(r) /\ phi[m - (Len(q) - n)] = m
    <3>1. m - (Len(q) - n) \in 1 .. Len(r)
      BY <1>0, <1>2, <2>2, <2>3, <2>5
    <3>2. QED
      BY <1>0, <2>3, <3>1
  <2>6. Unbroken(q, r, phi)
    BY <2>5 DEF Unbroken
  <2>7. Collapsed(q) => Collapsed(r)
    BY <2>4, <2>6, DrawnCollapsed
  <2>8. ToSet(r) \subseteq ToSet(q)
    <3>1. ToSet(r) = {r[k] : k \in 1 .. Len(r)} /\ ToSet(q) = {q[k] : k \in 1 .. Len(q)}
      BY <2>2, Elems
    <3>2. \A k \in 1 .. Len(r) : r[k] = q[phi[k]] /\ phi[k] \in 1 .. Len(q)
      BY <2>4 DEF Drawn
    <3>3. QED
      BY <3>1, <3>2
  <2>9. q[Len(q)] \in ToSet(r)
    <3>1. n \in 1 .. Len(r) /\ r[n] = q[Len(q)]
      BY <1>0, <2>2
    <3>2. QED
      BY <2>2, <3>1, Elems
  <2>10. ~(Len(q) <= n) /\ Len(r) <= n
    BY <1>0, <1>2, <2>2
  <2>11. QED
    BY <2>1, <2>2, <2>7, <2>8, <2>9, <2>10
<1>3. QED
  BY <1>0, <1>1, <1>2
-----------------------------------------------------------------------------
(* A history takes an event                                                 *)

\* The newest outcome of a stack.
LEMMA LastOutcome ==
  ASSUME NEW h \in Seq(Event), NEW s, lastOutcomes(h, s) # {}
  PROVE  /\ Max(lastOutcomes(h, s)) \in 1 .. Len(h)
         /\ Outcome(h, Max(lastOutcomes(h, s)), s)
         /\ \A k \in 1 .. Len(h) : Max(lastOutcomes(h, s)) < k => ~Outcome(h, k, s)
<1> DEFINE S == lastOutcomes(h, s)
<1>1. Len(h) \in Nat /\ S = {i \in 1 .. Len(h) : Outcome(h, i, s)}
  BY DEF lastOutcomes, Outcome
<1> HIDE DEF S
<1>2. S \subseteq 0 .. Len(h) /\ S # {}
  BY <1>1 DEF S
<1>3. Max(S) \in S /\ \A k \in S : k <= Max(S)
  BY <1>1, <1>2, GreatestUpTo
<1>4. ASSUME NEW k \in 1 .. Len(h), Max(S) < k
      PROVE  ~Outcome(h, k, s)
  <2>1. Max(S) \in 1 .. Len(h)
    BY <1>1, <1>3
  <2>2. ~(k <= Max(S))
    BY <1>1, <1>4, <2>1
  <2>3. QED
    BY <1>1, <1>3, <2>2
<1>5. QED
  BY <1>1, <1>3, <1>4 DEF S

\* The entry of a repeat is the newest event's, and no newer than it and the last.
LEMMA AbsorbFields ==
  ASSUME NEW e \in Event, NEW prev \in Event
  PROVE  /\ AbsorbInto(e, prev) \in Event
         /\ AbsorbInto(e, prev).id = e.id /\ AbsorbInto(e, prev).stack = e.stack
         /\ AbsorbInto(e, prev).status = e.status
         /\ AbsorbInto(e, prev).latest = IF prev.latest <= e.latest THEN e.latest ELSE prev.latest
<1>1. /\ e.latest \in Nat /\ prev.latest \in Nat /\ occurrences(prev) + 1 \in Nat
      /\ start(prev) \in Nat
  BY DEF Event, occurrences, start
<1>2. Min({start(prev), e.latest}) \in Nat
  BY <1>1, MinMaxOfTwo
<1>3. Max({prev.latest, e.latest}) = IF prev.latest <= e.latest THEN e.latest ELSE prev.latest
  BY <1>1, MinMaxOfTwo
<1> DEFINE c == occurrences(prev) + 1
           f == Min({start(prev), e.latest})
           l == Max({prev.latest, e.latest})
<1>4. c \in Nat /\ f \in Nat /\ l \in Nat
  BY <1>1, <1>2, <1>3
<1>5. AbsorbInto(e, prev) = [e EXCEPT !.count = c, !.first = f, !.latest = l]
  BY Zenon DEF AbsorbInto
<1> HIDE DEF c, f, l
<1>6. /\ AbsorbInto(e, prev) \in Event
      /\ AbsorbInto(e, prev).id = e.id /\ AbsorbInto(e, prev).stack = e.stack
      /\ AbsorbInto(e, prev).status = e.status
      /\ AbsorbInto(e, prev).latest = l
  BY <1>4, <1>5 DEF Event
<1>7. QED
  BY <1>3, <1>6 DEF l

\* What the history is before the event is put behind it, and the event that is put.
LEMMA Absorbs ==
  ASSUME NEW h \in Seq(Event), Collapsed(h), NEW e \in Event
  PROVE  LET q == absorbed(h, e).history
             x == absorbed(h, e).event
         IN  /\ q \in Seq(Event) /\ Collapsed(q) /\ ToSet(q) \subseteq ToSet(h)
             /\ x \in Event /\ x.id = e.id /\ x.stack = e.stack /\ x.status = e.status
             /\ \/ x.latest = e.latest
                \/ \E y \in ToSet(h) : y.status = e.status /\ y.latest > e.latest /\ x.latest = y.latest
             /\ \A k \in 1 .. Len(q) :
                  (/\ Outcome(q, k, x.stack)
                   /\ \A m \in 1 .. Len(q) : k < m => ~Outcome(q, m, x.stack)) => ~RepeatsOf(x, q[k])
<1> DEFINE S == lastOutcomes(h, e.stack)
           i == Max(S)
<1>0. Len(h) \in Nat /\ ToSet(h) = {h[j] : j \in 1 .. Len(h)}
  BY Elems
<1>1. CASE ~(S # {} /\ RepeatsOf(e, h[i]))
  <2>1. absorbed(h, e) = [history |-> h, event |-> e]
    BY <1>1, Zenon DEF absorbed
  <2>2. absorbed(h, e).history = h /\ absorbed(h, e).event = e
    BY <2>1
  <2>3. ASSUME NEW k \in 1 .. Len(h), Outcome(h, k, e.stack),
               \A m \in 1 .. Len(h) : k < m => ~Outcome(h, m, e.stack)
        PROVE  ~RepeatsOf(e, h[k])
    <3>1. S # {}
      BY <2>3 DEF lastOutcomes, Outcome
    <3>2. i \in 1 .. Len(h) /\ Outcome(h, i, e.stack) /\ \A m \in 1 .. Len(h) : i < m => ~Outcome(h, m, e.stack)
      BY <3>1, LastOutcome
    <3> HIDE DEF i, S
    <3>3. i = k
      <4>1. ~(k < i) /\ ~(i < k)
        BY <2>3, <3>2
      <4>2. QED
        BY <1>0, <3>2, <4>1
    <3>4. QED
      BY <1>1, <3>1, <3>3
  <2>4. QED
    BY <2>2, <2>3
<1>2. CASE S # {} /\ RepeatsOf(e, h[i])
  <2>1. i \in 1 .. Len(h) /\ Outcome(h, i, e.stack) /\ \A m \in 1 .. Len(h) : i < m => ~Outcome(h, m, e.stack)
    BY <1>2, LastOutcome
  <2> DEFINE I == (1 .. i - 1) \cup keepOthers(h, i + 1, e.stack)
             q == kept(h, I)
             x == AbsorbInto(e, h[i])
  <2>2. absorbed(h, e) = [history |-> q, event |-> x]
    BY <1>2, Zenon DEF absorbed
  <2>3. absorbed(h, e).history = q /\ absorbed(h, e).event = x
    BY <2>2
  <2>4. /\ x \in Event /\ x.id = e.id /\ x.stack = e.stack /\ x.status = e.status
        /\ x.latest = IF h[i].latest <= e.latest THEN e.latest ELSE h[i].latest
    BY <2>1, AbsorbFields
  <2>5. h[i] \in ToSet(h) /\ h[i].status = e.status /\ h[i].latest \in Nat /\ e.latest \in Nat
        /\ h[i].stack = e.stack
    <3> HIDE DEF i, S
    <3>1. h[i] \in Event /\ h[i] \in ToSet(h)
      BY <1>0, <2>1
    <3>2. h[i].status = e.status
      BY <1>2, Zenon DEF RepeatsOf
    <3>3. QED
      BY <2>1, <3>1, <3>2 DEF Event, Outcome
  <2>6. PICK phi : /\ Drawn(h, q, phi)
                   /\ \A j : (\E k \in 1 .. Len(q) : j = phi[k]) <=> j \in I /\ j \in 1 .. Len(h)
    BY Kept DEF LeftOf
  <2> HIDE DEF q, x, i, S
  <2>7. /\ q \in Seq(Event) /\ Len(q) \in Nat
        /\ \A k \in 1 .. Len(q) : phi[k] \in 1 .. Len(h) /\ q[k] = h[phi[k]] /\ phi[k] \in I
        /\ \A j, k \in 1 .. Len(q) : j < k => phi[j] < phi[k]
    BY <2>6 DEF Drawn
  <2>8. \A j \in 1 .. Len(h) : j \in I <=> j < i \/ (i < j /\ h[j].stack # e.stack)
    BY <1>0, <2>1 DEF keepOthers
  <2> HIDE DEF I
  <2>9. Unbroken(h, q, phi)
    <3> SUFFICES ASSUME NEW j \in 1 .. Len(q), NEW k \in 1 .. Len(q), NEW m \in 1 .. Len(h),
                        phi[j] < m, m < phi[k], q[j].stack = q[k].stack, Outcome(h, m, q[k].stack)
                 PROVE  m \in I
      BY <2>6 DEF Unbroken
    <3>1. phi[k] \in I /\ phi[k] \in 1 .. Len(h) /\ h[phi[k]].stack = h[m].stack
      BY <2>7 DEF Outcome
    <3>2. CASE h[m].stack = e.stack
      <4>1. phi[k] < i
        BY <2>8, <3>1, <3>2
      <4>2. m < i
        BY <1>0, <2>1, <3>1, <4>1
      <4>3. QED
        BY <2>8, <4>2
    <3>3. CASE h[m].stack # e.stack
      <4>1. m # i
        BY <2>5, <3>3
      <4>2. QED
        BY <1>0, <2>1, <2>8, <3>3, <4>1
    <3>4. QED
      BY <3>2, <3>3
  <2>10. Collapsed(q)
    BY <2>6, <2>9, DrawnCollapsed
  <2>11. ToSet(q) \subseteq ToSet(h)
    <3>1. ToSet(q) = {q[k] : k \in 1 .. Len(q)}
      BY <2>7, Elems
    <3>2. QED
      BY <1>0, <2>7, <3>1
  <2>12. ASSUME NEW k \in 1 .. Len(q), Outcome(q, k, x.stack),
                \A m \in 1 .. Len(q) : k < m => ~Outcome(q, m, x.stack)
         PROVE  ~RepeatsOf(x, q[k])
    <3>1. /\ phi[k] \in 1 .. Len(h) /\ q[k] = h[phi[k]] /\ phi[k] \in I
          /\ h[phi[k]].stack = e.stack /\ Outcome(h, phi[k], h[i].stack)
      BY <2>4, <2>5, <2>7, <2>12 DEF Outcome
    <3>2. phi[k] < i
      BY <2>8, <3>1
    <3>3. ASSUME NEW m \in 1 .. Len(h), phi[k] < m, m < i, Outcome(h, m, h[i].stack)
          PROVE  FALSE
      <4>1. m \in I
        BY <2>8, <3>3
      <4>2. PICK l \in 1 .. Len(q) : phi[l] = m
        BY <2>6, <4>1
      <4>3. l # k /\ ~(l < k)
        BY <1>0, <2>7, <3>1, <3>3, <4>2
      <4>4. k < l
        BY <2>7, <4>3
      <4>5. Outcome(q, l, x.stack)
        BY <2>4, <2>5, <2>7, <3>3, <4>2 DEF Outcome
      <4>6. QED
        BY <2>12, <4>4, <4>5
    <3>4. ~RepeatsOf(h[i], h[phi[k]])
      BY <2>1, <3>1, <3>2, <3>3 DEF Collapsed, Outcome
    <3>5. QED
      BY <2>4, <2>5, <3>1, <3>4 DEF RepeatsOf
  <2>13. \/ x.latest = e.latest
         \/ \E y \in ToSet(h) : y.status = e.status /\ y.latest > e.latest /\ x.latest = y.latest
    BY <2>4, <2>5
  <2>14. QED
    BY <2>3, <2>4, <2>7, <2>10, <2>11, <2>12, <2>13
<1>3. QED
  BY <1>1, <1>2
\* The history behind addLocked: bounded, without repeats, with the stored event.
LEMMA Added ==
  ASSUME NEW h \in Seq(Event), Collapsed(h), NEW e \in Event
  PROVE  LET r == addLocked(h, e)
             x == stored(h, e)
         IN  /\ r \in Seq(Event) /\ Len(r) <= maxHistorySize /\ Collapsed(r)
             /\ ToSet(r) \subseteq ToSet(h) \cup {x}
             /\ x \in Event /\ x.id = e.id /\ x.stack = e.stack /\ x.status = e.status
             /\ \/ x.latest = e.latest
                \/ \E y \in ToSet(h) : y.status = e.status /\ y.latest > e.latest /\ x.latest = y.latest
<1> DEFINE q == absorbed(h, e).history
           x == absorbed(h, e).event
           s == Append(q, x)
<1>1. /\ q \in Seq(Event) /\ Collapsed(q) /\ ToSet(q) \subseteq ToSet(h)
      /\ x \in Event /\ x.id = e.id /\ x.stack = e.stack /\ x.status = e.status
      /\ \/ x.latest = e.latest
         \/ \E y \in ToSet(h) : y.status = e.status /\ y.latest > e.latest /\ x.latest = y.latest
  BY Absorbs, Zenon
<1>2. \A k \in 1 .. Len(q) :
         (/\ Outcome(q, k, x.stack)
          /\ \A m \in 1 .. Len(q) : k < m => ~Outcome(q, m, x.stack)) => ~RepeatsOf(x, q[k])
  BY Absorbs, Zenon
<1>3. addLocked(h, e) = newest(s, maxHistorySize) /\ stored(h, e) = x
  BY Zenon DEF addLocked, stored
<1> HIDE DEF q, x
<1>4. Collapsed(s)
  BY <1>1, <1>2, AppendCollapsed
<1>5. s \in Seq(Event) /\ ToSet(s) = ToSet(q) \cup {x}
  <2>1. /\ Len(q) \in Nat /\ s \in Seq(Event) /\ Len(s) = Len(q) + 1 /\ s[Len(q) + 1] = x
        /\ \A k \in 1 .. Len(q) : s[k] = q[k]
    BY <1>1
  <2> HIDE DEF s
  <2>2. ToSet(s) = {s[k] : k \in 1 .. Len(s)} /\ ToSet(q) = {q[k] : k \in 1 .. Len(q)}
    BY <1>1, <2>1, Elems
  <2>3. \A k : k \in 1 .. Len(s) <=> k \in 1 .. Len(q) \/ k = Len(q) + 1
    BY <2>1
  <2>4. QED
    BY <2>1, <2>2, <2>3
<1> HIDE DEF s
<1>6. maxHistorySize \in Nat \ {0}
  BY PipelineAssumption
<1>7. /\ newest(s, maxHistorySize) \in Seq(Event) /\ Len(newest(s, maxHistorySize)) <= maxHistorySize
      /\ Collapsed(newest(s, maxHistorySize))
      /\ ToSet(newest(s, maxHistorySize)) \subseteq ToSet(s)
  BY <1>4, <1>5, <1>6, NewestDrawn
<1>8. ToSet(addLocked(h, e)) \subseteq ToSet(h) \cup {x}
  BY <1>1, <1>3, <1>5, <1>7
<1>9. QED
  BY <1>1, <1>3, <1>7, <1>8, Zenon

\* An event that is no repeat is put behind a history with room for it.
LEMMA AddedNew ==
  ASSUME NEW h \in Seq(Event), NEW e \in Event, Len(h) < maxHistorySize,
         lastOutcomes(h, e.stack) # {} => ~RepeatsOf(e, h[Max(lastOutcomes(h, e.stack))])
  PROVE  addLocked(h, e) = Append(h, e)
<1>1. absorbed(h, e) = [history |-> h, event |-> e]
  BY Zenon DEF absorbed
<1>2. absorbed(h, e).history = h /\ absorbed(h, e).event = e
  BY <1>1
<1>3. addLocked(h, e) = newest(Append(h, e), maxHistorySize)
  BY <1>2 DEF addLocked
<1>4. ~(Len(Append(h, e)) > maxHistorySize)
  BY PipelineAssumption
<1>5. QED
  BY <1>3, <1>4 DEF newest

-----------------------------------------------------------------------------
(* A history is loaded                                                      *)

\* The values of the recursive function of `loadHistory`.
LoadUpTo(file, n, f) ==
    f = [k \in 0 .. n |-> IF k = 0 THEN <<>> ELSE addLocked(f[k - 1], file[k])]

\* The recursive function of `loadHistory` exists.
LEMMA LoadExists ==
  ASSUME NEW file, Len(file) \in Nat
  PROVE  \E f : LoadUpTo(file, Len(file), f)
<1> DEFINE Bad == {n \in Nat : ~\E f : LoadUpTo(file, n, f)}
<1>1. ASSUME NEW n \in Bad, \A m \in Nat : m < n => m \notin Bad
      PROVE  FALSE
  <2>1. CASE n = 0
    <3>1. LoadUpTo(file, 0, [k \in 0 .. 0 |-> <<>>])
      BY DEF LoadUpTo
    <3>2. QED
      BY <2>1, <3>1
  <2>2. CASE n # 0
    <3>1. PICK g : LoadUpTo(file, n - 1, g)
      BY <1>1, <2>2
    <3> DEFINE h == [k \in 0 .. n |-> IF k = n THEN addLocked(g[n - 1], file[n]) ELSE g[k]]
    <3>2. \A k \in 0 .. n - 1 : h[k] = g[k]
      BY <2>2
    <3>3. \A k \in 0 .. n - 1 : g[k] = IF k = 0 THEN <<>> ELSE addLocked(g[k - 1], file[k])
      BY <3>1 DEF LoadUpTo
    <3>4. ASSUME NEW k \in 0 .. n
          PROVE  h[k] = IF k = 0 THEN <<>> ELSE addLocked(h[k - 1], file[k])
      <4>1. CASE k = n
        BY <2>2, <3>2, <4>1
      <4>2. CASE k # n
        BY <2>2, <3>2, <3>3, <4>2
      <4>3. QED
        BY <4>1, <4>2
    <3>5. LoadUpTo(file, n, h)
      BY <3>4, Zenon DEF LoadUpTo
    <3>6. QED
      BY <3>5
  <2>3. QED
    BY <2>1, <2>2
<1>2. Bad = {}
  BY <1>1, LeastNat
<1>3. QED
  BY <1>2

\* What the first n events of a file load to.
LoadedFrom(file, n, r) ==
    /\ r \in Seq(Event) /\ Len(r) <= maxHistorySize /\ Collapsed(r)
    /\ \A x \in ToSet(r) : /\ \E y \in ToSet(file) : x.id = y.id
                           /\ \E y \in ToSet(file) : x.latest = y.latest
    /\ Collapsed(file) /\ Len(file) <= maxHistorySize =>
         Len(r) = n /\ \A k \in 1 .. n : r[k] = file[k]

\* One event more of the file.
LEMMA LoadNext ==
  ASSUME NEW file \in Seq(Event), NEW n \in 1 .. Len(file), NEW r, LoadedFrom(file, n - 1, r)
  PROVE  LoadedFrom(file, n, addLocked(r, file[n]))
<1> DEFINE e == file[n]
           s == addLocked(r, e)
<1>0. /\ Len(file) \in Nat /\ e \in Event /\ e \in ToSet(file)
      /\ r \in Seq(Event) /\ Len(r) \in Nat /\ Collapsed(r)
  BY Elems DEF LoadedFrom
<1>1. /\ s \in Seq(Event) /\ Len(s) <= maxHistorySize /\ Collapsed(s)
      /\ ToSet(s) \subseteq ToSet(r) \cup {stored(r, e)}
      /\ stored(r, e).id = e.id
      /\ \/ stored(r, e).latest = e.latest
         \/ \E y \in ToSet(r) : stored(r, e).latest = y.latest
  <2> HIDE DEF e
  <2> QED
    BY <1>0, Added, Zenon
<1>2. ASSUME NEW x \in ToSet(s)
      PROVE  /\ \E y \in ToSet(file) : x.id = y.id
             /\ \E y \in ToSet(file) : x.latest = y.latest
  <2> HIDE DEF s, e
  <2>1. CASE x \in ToSet(r)
    BY <2>1 DEF LoadedFrom
  <2>2. CASE x = stored(r, e)
    BY <1>0, <1>1, <2>2 DEF LoadedFrom
  <2>3. QED
    BY <1>1, <2>1, <2>2
<1>3. ASSUME Collapsed(file), Len(file) <= maxHistorySize
      PROVE  Len(s) = n /\ \A k \in 1 .. n : s[k] = file[k]
  <2>1. Len(r) = n - 1 /\ \A k \in 1 .. n - 1 : r[k] = file[k]
    BY <1>3 DEF LoadedFrom
  <2>2. Len(r) < maxHistorySize
    BY <1>0, <1>3, <2>1, PipelineAssumption
  <2>3. ASSUME lastOutcomes(r, e.stack) # {}, RepeatsOf(e, r[Max(lastOutcomes(r, e.stack))])
        PROVE  FALSE
    <3> DEFINE i == Max(lastOutcomes(r, e.stack))
    <3>1. i \in 1 .. Len(r) /\ Outcome(r, i, e.stack) /\ \A m \in 1 .. Len(r) : i < m => ~Outcome(r, m, e.stack)
      BY <1>0, <2>3, LastOutcome
    <3>2. Terminal(e)
      BY <2>3 DEF RepeatsOf, Terminal, repeatableStatuses, inFlightStatuses
    <3> HIDE DEF i
    <3>3. i \in 1 .. Len(file) /\ i < n /\ r[i] = file[i] /\ Outcome(file, i, e.stack)
      BY <1>0, <2>1, <3>1 DEF Outcome
    <3> HIDE DEF e
    <3>4. ASSUME NEW m \in 1 .. Len(file), i < m, m < n
          PROVE  ~Outcome(file, m, e.stack)
      <4>1. m \in 1 .. Len(r)
        BY <1>0, <2>1, <3>4
      <4>2. QED
        BY <2>1, <3>1, <3>4, <4>1 DEF Outcome
    <3>5. ~RepeatsOf(file[n], file[i])
      BY <1>3, <3>2, <3>3, <3>4 DEF Collapsed, e
    <3>6. QED
      BY <2>3, <3>3, <3>5 DEF i, e
  <2>4. s = Append(r, e)
    <3> HIDE DEF e
    <3> QED
      BY <1>0, <2>2, <2>3, AddedNew, Zenon
  <2>5. QED
    BY <1>0, <2>1, <2>4
<1>4. QED
  BY <1>1, <1>2, <1>3 DEF LoadedFrom

\* A file loads to a history without repeats, and one without repeats as it is.
LEMMA Loaded ==
  ASSUME NEW file \in Seq(Event)
  PROVE  /\ LoadedFrom(file, Len(file), loadHistory(file))
         /\ Collapsed(file) /\ Len(file) <= maxHistorySize => loadHistory(file) = file
<1> DEFINE f == CHOOSE f : LoadUpTo(file, Len(file), f)
           Bad == {n \in 0 .. Len(file) : ~LoadedFrom(file, n, f[n])}
<1>0. Len(file) \in Nat
  OBVIOUS
<1>1. LoadUpTo(file, Len(file), f)
  BY <1>0, LoadExists
<1>2. loadHistory(file) = f[Len(file)]
  BY DEF loadHistory, LoadUpTo
<1> HIDE DEF f
<1>3. \A k \in 0 .. Len(file) : f[k] = IF k = 0 THEN <<>> ELSE addLocked(f[k - 1], file[k])
  BY <1>1 DEF LoadUpTo
<1>4. ASSUME NEW n \in Bad, \A m \in Nat : m < n => m \notin Bad
      PROVE  FALSE
  <2>1. CASE n = 0
    <3>1. f[0] = <<>>
      BY <1>0, <1>3
    <3>2. LoadedFrom(file, 0, <<>>)
      BY PipelineAssumption DEF LoadedFrom, Collapsed, ToSet
    <3>3. QED
      BY <1>4, <2>1, <3>1, <3>2
  <2>2. CASE n # 0
    <3>1. n \in 1 .. Len(file) /\ n - 1 \in Nat /\ n - 1 < n /\ n - 1 \in 0 .. Len(file)
      BY <1>0, <2>2
    <3>2. LoadedFrom(file, n - 1, f[n - 1])
      BY <1>4, <3>1
    <3>3. LoadedFrom(file, n, addLocked(f[n - 1], file[n]))
      BY <3>1, <3>2, LoadNext
    <3>4. QED
      BY <1>3, <1>4, <2>2, <3>3
  <2>3. QED
    BY <2>1, <2>2
<1>5. Bad \subseteq Nat
  BY <1>0
<1>6. Bad = {}
  <2> HIDE DEF Bad
  <2> QED
    BY <1>4, <1>5, LeastNat
<1>7. LoadedFrom(file, Len(file), loadHistory(file))
  BY <1>0, <1>2, <1>6
<1>8. ASSUME Collapsed(file), Len(file) <= maxHistorySize
      PROVE  loadHistory(file) = file
  BY <1>7, <1>8, SeqEqual DEF LoadedFrom
<1>9. QED
  BY <1>7, <1>8
-----------------------------------------------------------------------------
(* The inductive invariant                                                  *)

\* The statuses a goroutine emits, and what a history always is.
StatusOf(g) == IF g = "run" THEN RunStatus ELSE PollStatus
HistoryOK(h) == h \in Seq(Event) /\ Len(h) <= maxHistorySize /\ Collapsed(h)

\* Types, and both histories without repeats.
PipelineTypeOK ==
    /\ nextEventID \in Nat /\ clock \in Nat
    /\ emitting \in [Goroutine -> Event \cup {None}]
    /\ at \in [Goroutine -> {"done", "emitted", "stored"}]
    /\ \A g \in Goroutine : at[g] = "done" <=> emitting[g] = None
    /\ HistoryOK(history) /\ HistoryOK(historyFile)

\* Types of what the stream is about.
StreamTypeOK ==
    /\ top \in Nat /\ lastSentID \in Nat /\ lastEventID \in Nat
    /\ channel \in Seq(Event)

\* The events on their way: their IDs differ, none is as new as the stream's, unless
\* it was overtaken, and no event of its goroutine's statuses is as late.
FlightOK ==
    /\ \A g \in Goroutine : at[g] # "done" =>
            /\ emitting[g].id <= nextEventID /\ emitting[g].latest <= clock
            /\ emitting[g].status \in StatusOf(g)
            /\ \A h \in Goroutine : at[h] # "done" /\ h # g => emitting[h].id # emitting[g].id
    /\ \A g \in Goroutine : at[g] = "stored" => emitting[g].id <= top
    /\ \A g \in Goroutine : at[g] = "emitted" =>
            /\ emitting[g].latest \in overtaken \/ emitting[g].id > top
            /\ \A x \in ToSet(history) :
                    x.status \in StatusOf(g) => x.latest < emitting[g].latest

\* Nothing that is stored or sent has an ID above top.
TopOK ==
    /\ \A x \in ToSet(history) \cup ToSet(historyFile) : x.id <= top /\ x.latest <= clock
    /\ \A i \in 1 .. Len(channel) : channel[i].id <= top
    /\ lastEventID <= top /\ lastSentID <= top
    /\ stream = "live" => lastEventID <= lastSentID
    /\ ~unsaved => historyFile = history

\* x waits in the channel behind older events, or is about to be put there.
Waiting(x) ==
    \E i \in 1 .. Len(channel) :
        /\ channel[i].id = x.id /\ channel[i].latest = x.latest
        /\ \A j \in 1 .. i - 1 : channel[j].id < x.id
AtSinks(x) ==
    /\ \E g \in Goroutine : at[g] = "stored" /\ emitting[g].id = x.id /\ emitting[g].latest = x.latest
    /\ \A j \in 1 .. Len(channel) : channel[j].id < x.id

\* The browser has x, will get it on this connection, or will ask for it on the next.
Accounted(x) ==
    \/ x.latest \in seen \cup overtaken \cup missed
    \/ /\ x.id > lastEventID
       /\ stream = "live" => x.id > lastSentID /\ (Waiting(x) \/ AtSinks(x))

PipelineInv ==
    /\ PipelineTypeOK /\ StreamTypeOK /\ FlightOK /\ TopOK
    /\ ~unsaved => \A x \in ToSet(history) : Accounted(x)
-----------------------------------------------------------------------------
(* Every step keeps it                                                      *)

\* The greatest ID of a history.
LEMMA MaxID ==
  ASSUME NEW h \in Seq(Event), NEW n \in Nat, \A x \in ToSet(h) : x.id <= n
  PROVE  MaxEventID(h) \in 0 .. n /\ \A x \in ToSet(h) : x.id <= MaxEventID(h)
<1> DEFINE S == {h[i].id : i \in DOMAIN h} \cup {0}
<1>0. ToSet(h) = {h[i] : i \in DOMAIN h}
  BY DEF ToSet
<1>1. S \subseteq 0 .. n
  <2>1. \A i \in DOMAIN h : h[i] \in ToSet(h) /\ h[i] \in Event
    BY <1>0
  <2>2. \A i \in DOMAIN h : h[i].id \in Nat /\ h[i].id <= n
    BY <2>1 DEF Event
  <2>3. QED
    BY <2>2
<1>2. Max(S) \in S /\ \A k \in S : k <= Max(S)
  <2>1. S # {}
    OBVIOUS
  <2> HIDE DEF S
  <2>2. QED
    BY <1>1, <2>1, GreatestUpTo
<1>3. MaxEventID(h) = Max(S)
  BY DEF MaxEventID
<1>4. \A x \in ToSet(h) : x.id \in S
  BY <1>0
<1>5. QED
  BY <1>1, <1>2, <1>3, <1>4

\* An event is no None.
LEMMA NoneIsNone == None \notin Event
BY PipelineAssumption

\* A goroutine's statuses are not the other's.
LEMMA StatusesApart ==
  ASSUME NEW g \in Goroutine, NEW h \in Goroutine, g # h
  PROVE  StatusOf(g) \cap StatusOf(h) = {}
BY PipelineAssumption DEF StatusOf, Goroutine

\* The event a goroutine emits is one.
LEMMA EmittedEvent ==
  ASSUME PipelineTypeOK, NEW g \in Goroutine, NEW s \in Stack, NEW status \in StatusOf(g),
         Emit(g, s, status)
  PROVE  \E e \in Event :
            /\ emitting' = [emitting EXCEPT ![g] = e]
            /\ e.id = nextEventID + 1 /\ e.latest = clock + 1 /\ e.status = status
<1> DEFINE prev == lastOutcome(s)
           retry == status = "success" /\ prev.status \in {"rolled_back", "rolled_back_unhealthy"}
           link == IF retry THEN prev.id ELSE 0
           e == [id |-> nextEventID', stack |-> s, status |-> status, count |-> 0,
                 first |-> 0, latest |-> clock', rollback |-> link]
<1>1. emitting' = [emitting EXCEPT ![g] = e]
  BY Zenon DEF Emit
<1>2. prev.id \in Nat
  <2>1. CASE byStack[s] = <<>>
    BY <2>1 DEF lastOutcome
  <2>2. CASE byStack[s] # <<>>
    <3> DEFINE id == Last(byStack[s]).id
    <3>1. prev.id = IF EventByID(history, id) THEN id ELSE 0
      BY <2>2 DEF lastOutcome
    <3>2. EventByID(history, id) => id \in Nat
      <4>1. history \in Seq(Event)
        BY DEF PipelineTypeOK, HistoryOK
      <4> HIDE DEF id
      <4>2. \A i \in DOMAIN history : history[i].id \in Nat
        BY <4>1, Elems
      <4>3. QED
        BY <4>2, Zenon DEF EventByID
    <3> HIDE DEF id, prev
    <3>3. QED
      BY <3>1, <3>2
  <2>3. QED
    BY <2>1, <2>2
<1> HIDE DEF prev
<1>3. link \in Nat
  BY <1>2
<1> HIDE DEF link
<1>4. nextEventID' = nextEventID + 1 /\ clock' = clock + 1 /\ nextEventID \in Nat /\ clock \in Nat
  BY DEF Emit, PipelineTypeOK
<1>5. status \in RunStatus \cup PollStatus
  BY DEF StatusOf
<1>6. e \in Event /\ e.id = nextEventID + 1 /\ e.latest = clock + 1 /\ e.status = status
  BY <1>3, <1>4, <1>5 DEF Event
<1>7. QED
  BY <1>1, <1>6

\* A new event is behind no ID of the stream, or is overtaken from the start.
LEMMA EmitStep ==
  ASSUME PipelineInv, NEW g \in Goroutine, NEW s \in Stack, NEW status \in StatusOf(g),
         Emit(g, s, status)
  PROVE  PipelineInv'
<1>0. PipelineTypeOK /\ StreamTypeOK /\ FlightOK /\ TopOK
  BY DEF PipelineInv
<1>1. PICK e \in Event :
            /\ emitting' = [emitting EXCEPT ![g] = e]
            /\ e.id = nextEventID + 1 /\ e.latest = clock + 1 /\ e.status = status
  BY <1>0, EmittedEvent
<1>2. /\ nextEventID' = nextEventID + 1 /\ clock' = clock + 1
      /\ at' = [at EXCEPT ![g] = "emitted"]
      /\ overtaken' = IF nextEventID' <= top THEN overtaken \cup {clock'} ELSE overtaken
      /\ UNCHANGED <<history, historyFile, unsaved, top>>
      /\ UNCHANGED <<stream, channel, lastSentID, lastEventID, seen, missed>>
      /\ emitting[g] = None
  BY DEF Emit, clientVars
<1>3. /\ nextEventID \in Nat /\ clock \in Nat /\ emitting \in [Goroutine -> Event \cup {None}]
      /\ at \in [Goroutine -> {"done", "emitted", "stored"}]
      /\ \A h \in Goroutine : at[h] = "done" <=> emitting[h] = None
      /\ HistoryOK(history) /\ HistoryOK(historyFile)
  BY <1>0 DEF PipelineTypeOK
<1>4. /\ emitting'[g] = e /\ at'[g] = "emitted" /\ at[g] = "done"
      /\ \A h \in Goroutine : h # g => emitting'[h] = emitting[h] /\ at'[h] = at[h]
  BY <1>1, <1>2, <1>3
<1>5. PipelineTypeOK'
  <2>1. nextEventID' \in Nat /\ clock' \in Nat
    BY <1>2, <1>3
  <2>2. /\ emitting' \in [Goroutine -> Event \cup {None}]
        /\ at' \in [Goroutine -> {"done", "emitted", "stored"}]
    BY <1>1, <1>2, <1>3
  <2>3. \A h \in Goroutine : at'[h] = "done" <=> emitting'[h] = None
    BY <1>3, <1>4, NoneIsNone
  <2>4. HistoryOK(history') /\ HistoryOK(historyFile')
    BY <1>2, <1>3
  <2>5. QED
    BY <2>1, <2>2, <2>3, <2>4 DEF PipelineTypeOK, HistoryOK, Collapsed, Outcome
<1>6. StreamTypeOK'
  BY <1>0, <1>2 DEF StreamTypeOK
<1>7. FlightOK'
  <2>1. ASSUME NEW h \in Goroutine, at'[h] # "done"
        PROVE  /\ emitting'[h].id <= nextEventID' /\ emitting'[h].latest <= clock'
               /\ emitting'[h].status \in StatusOf(h)
               /\ h # g => emitting'[h].id <= nextEventID
    <3>1. CASE h = g
      BY <1>1, <1>2, <1>3, <1>4, <3>1
    <3>2. CASE h # g
      <4>1. emitting'[h] = emitting[h] /\ at[h] # "done" /\ emitting[h] \in Event
        BY <1>3, <1>4, <2>1, <3>2
      <4>2. /\ emitting[h].id <= nextEventID /\ emitting[h].latest <= clock
            /\ emitting[h].status \in StatusOf(h)
        BY <1>0, <4>1 DEF FlightOK
      <4>3. emitting[h].id \in Nat /\ emitting[h].latest \in Nat
        BY <4>1 DEF Event
      <4>4. QED
        BY <1>2, <1>3, <4>1, <4>2, <4>3
    <3>3. QED
      BY <3>1, <3>2
  <2>2. ASSUME NEW h \in Goroutine, NEW i \in Goroutine, at'[h] # "done", at'[i] # "done", i # h
        PROVE  emitting'[i].id # emitting'[h].id
    <3>1. CASE h = g
      <4>1. emitting'[i].id <= nextEventID /\ emitting'[i] \in Event
        BY <1>3, <1>4, <2>1, <2>2, <3>1
      <4>2. QED
        BY <1>1, <1>3, <1>4, <3>1, <4>1 DEF Event
    <3>2. CASE i = g
      <4>1. emitting'[h].id <= nextEventID /\ emitting'[h] \in Event
        BY <1>3, <1>4, <2>1, <2>2, <3>2
      <4>2. QED
        BY <1>1, <1>3, <1>4, <3>2, <4>1 DEF Event
    <3>3. CASE h # g /\ i # g
      BY <1>0, <1>4, <2>2, <3>3 DEF FlightOK
    <3>4. QED
      BY <3>1, <3>2, <3>3
  <2>3. ASSUME NEW h \in Goroutine, at'[h] = "stored"
        PROVE  emitting'[h].id <= top'
    BY <1>0, <1>2, <1>4, <2>3 DEF FlightOK
  <2>4. ASSUME NEW h \in Goroutine, at'[h] = "emitted"
        PROVE  emitting'[h].latest \in overtaken' \/ emitting'[h].id > top'
    <3>1. CASE h = g
      <4>1. top \in Nat
        BY <1>0 DEF StreamTypeOK
      <4>2. QED
        BY <1>1, <1>2, <1>3, <1>4, <3>1, <4>1
    <3>2. CASE h # g
      BY <1>0, <1>2, <1>4, <2>4, <3>2 DEF FlightOK
    <3>3. QED
      BY <3>1, <3>2
  <2>5. ASSUME NEW h \in Goroutine, at'[h] = "emitted", NEW x \in ToSet(history'),
               x.status \in StatusOf(h)
        PROVE  x.latest < emitting'[h].latest
    <3>1. x \in ToSet(history) /\ x \in Event
      BY <1>2, <1>3, <2>5, Elems DEF HistoryOK
    <3>2. CASE h = g
      <4>1. x.latest <= clock /\ x.latest \in Nat
        BY <1>0, <3>1 DEF TopOK, Event
      <4>2. QED
        BY <1>1, <1>3, <1>4, <3>2, <4>1
    <3>3. CASE h # g
      BY <1>0, <1>4, <2>5, <3>1, <3>3 DEF FlightOK
    <3>4. QED
      BY <3>2, <3>3
  <2>6. QED
    BY <2>1, <2>2, <2>3, <2>4, <2>5 DEF FlightOK, StatusOf
<1>8. TopOK'
  <2>1. ASSUME NEW x \in ToSet(history') \cup ToSet(historyFile')
        PROVE  x.id <= top' /\ x.latest <= clock'
    <3>1. x \in ToSet(history) \cup ToSet(historyFile) /\ x \in Event
      BY <1>2, <1>3, <2>1, Elems DEF HistoryOK
    <3>2. x.id <= top /\ x.latest <= clock /\ x.latest \in Nat
      BY <1>0, <3>1 DEF TopOK, Event
    <3>3. QED
      BY <1>2, <1>3, <3>2
  <2>2. QED
    BY <1>0, <1>2, <2>1 DEF TopOK, ToSet
<1>9. ASSUME ~unsaved', NEW x \in ToSet(history')
      PROVE  Accounted(x)'
  <2>1. ~unsaved /\ x \in ToSet(history) /\ Accounted(x)
    BY <1>2, <1>9 DEF PipelineInv, ToSet
  <2>2. overtaken \subseteq overtaken'
    BY <1>2
  <2>3. Waiting(x) => Waiting(x)'
    BY <1>2 DEF Waiting
  <2>4. AtSinks(x) => AtSinks(x)'
    <3>1. ASSUME NEW h \in Goroutine, at[h] = "stored", emitting[h].id = x.id, emitting[h].latest = x.latest
          PROVE  at'[h] = "stored" /\ emitting'[h].id = x.id /\ emitting'[h].latest = x.latest
      BY <1>4, <3>1
    <3>2. QED
      BY <1>2, <3>1 DEF AtSinks
  <2>5. QED
    BY <1>2, <2>1, <2>2, <2>3, <2>4 DEF Accounted
<1>10. QED
  BY <1>5, <1>6, <1>7, <1>8, <1>9 DEF PipelineInv, ToSet
\* The client's steps leave the history and the emitters alone.
LEMMA ClientFrame ==
  ASSUME PipelineInv, UNCHANGED <<emitVars, historyVars>>
  PROVE  /\ PipelineTypeOK' /\ FlightOK' /\ top' \in Nat
         /\ \A x \in ToSet(history') \cup ToSet(historyFile') : x.id <= top' /\ x.latest <= clock'
         /\ ~unsaved' => historyFile' = history'
<1>1. /\ UNCHANGED <<nextEventID, clock, emitting, at>>
      /\ UNCHANGED <<history, historyFile, unsaved, top, overtaken>>
  BY DEF emitVars, historyVars
<1>2. PipelineTypeOK'
  BY <1>1 DEF PipelineInv, PipelineTypeOK, HistoryOK, Collapsed, Outcome
<1>3. FlightOK'
  BY <1>1 DEF PipelineInv, FlightOK, StatusOf, ToSet
<1>4. QED
  BY <1>1, <1>2, <1>3 DEF PipelineInv, StreamTypeOK, TopOK, ToSet

\* A subscription promises nothing yet: what the browser lacks it will ask for.
LEMMA SubscribeStep ==
  ASSUME PipelineInv, Subscribe
  PROVE  PipelineInv'
<1>1. /\ UNCHANGED <<emitVars, historyVars>> /\ stream' = "subscribed" /\ channel' = <<>>
      /\ UNCHANGED <<lastSentID, lastEventID, seen, missed>>
  BY DEF Subscribe
<1>2. UNCHANGED <<history, unsaved, top, overtaken>>
  BY <1>1 DEF historyVars
<1>3. /\ PipelineTypeOK' /\ FlightOK' /\ top' \in Nat
      /\ \A x \in ToSet(history') \cup ToSet(historyFile') : x.id <= top' /\ x.latest <= clock'
      /\ ~unsaved' => historyFile' = history'
  BY <1>1, ClientFrame
<1>4. StreamTypeOK' /\ TopOK'
  BY <1>1, <1>2, <1>3 DEF PipelineInv, StreamTypeOK, TopOK
<1>5. ASSUME ~unsaved', NEW x \in ToSet(history')
      PROVE  Accounted(x)'
  <2>1. Accounted(x)
    BY <1>2, <1>5 DEF PipelineInv, ToSet
  <2>2. QED
    BY <1>1, <1>2, <2>1 DEF Accounted
<1>6. QED
  BY <1>3, <1>4, <1>5 DEF PipelineInv, ToSet

\* So does the end of a connection.
LEMMA DisconnectStep ==
  ASSUME PipelineInv, Disconnect
  PROVE  PipelineInv'
<1>1. /\ UNCHANGED <<emitVars, historyVars>> /\ stream' = "off" /\ channel' = <<>>
      /\ lastSentID' = 0
      /\ UNCHANGED <<lastEventID, seen, missed>>
  BY DEF Disconnect
<1>2. UNCHANGED <<history, unsaved, top, overtaken>>
  BY <1>1 DEF historyVars
<1>3. /\ PipelineTypeOK' /\ FlightOK' /\ top' \in Nat
      /\ \A x \in ToSet(history') \cup ToSet(historyFile') : x.id <= top' /\ x.latest <= clock'
      /\ ~unsaved' => historyFile' = history'
  BY <1>1, ClientFrame
<1>4. StreamTypeOK' /\ TopOK'
  BY <1>1, <1>2, <1>3 DEF PipelineInv, StreamTypeOK, TopOK
<1>5. ASSUME ~unsaved', NEW x \in ToSet(history')
      PROVE  Accounted(x)'
  <2>1. Accounted(x)
    BY <1>2, <1>5 DEF PipelineInv, ToSet
  <2>2. QED
    BY <1>1, <1>2, <2>1 DEF Accounted
<1>6. QED
  BY <1>3, <1>4, <1>5 DEF PipelineInv, ToSet

\* The replay gives the browser all it lacks.
LEMMA ReplayStep ==
  ASSUME PipelineInv, Replay
  PROVE  PipelineInv'
<1> DEFINE events == IF lastEventID = 0 THEN history ELSE EventsAfterID(history, lastEventID)
<1>1. /\ UNCHANGED <<emitVars, historyVars>> /\ stream' = "live"
      /\ lastSentID' = Max({lastEventID, MaxEventID(events)})
      /\ lastEventID' = IF events = <<>> THEN lastEventID ELSE Last(events).id
      /\ seen' = seen \cup {e.latest : e \in ToSet(events)}
      /\ UNCHANGED <<channel, missed>>
  BY Zenon DEF Replay
<1>2. UNCHANGED <<history, unsaved, top, overtaken>>
  BY <1>1 DEF historyVars
<1>3. /\ PipelineTypeOK' /\ FlightOK' /\ top' \in Nat
      /\ \A x \in ToSet(history') \cup ToSet(historyFile') : x.id <= top' /\ x.latest <= clock'
      /\ ~unsaved' => historyFile' = history'
  BY <1>1, ClientFrame
<1>4. /\ history \in Seq(Event) /\ lastEventID \in Nat /\ top \in Nat /\ lastEventID <= top
      /\ \A x \in ToSet(history) : x.id <= top
  BY DEF PipelineInv, PipelineTypeOK, HistoryOK, StreamTypeOK, TopOK
<1>5. /\ events \in Seq(Event) /\ ToSet(events) \subseteq ToSet(history)
      /\ \A x \in ToSet(history) : x.id > lastEventID => x \in ToSet(events)
  <2>1. CASE lastEventID = 0
    BY <1>4, <2>1
  <2>2. CASE lastEventID # 0
    <3> DEFINE I == {i \in DOMAIN history : history[i].id > lastEventID}
    <3>1. events = kept(history, I)
      BY <2>2 DEF EventsAfterID
    <3> HIDE DEF events, I
    <3>2. PICK phi : /\ Drawn(history, events, phi)
                     /\ \A i : (\E k \in 1 .. Len(events) : i = phi[k]) <=> i \in I /\ i \in 1 .. Len(history)
      BY <1>4, <3>1, Kept DEF LeftOf
    <3>3. /\ events \in Seq(Event) /\ \A k \in 1 .. Len(events) : phi[k] \in 1 .. Len(history) /\ events[k] = history[phi[k]]
      BY <3>2 DEF Drawn
    <3>4. /\ ToSet(events) = {events[k] : k \in 1 .. Len(events)}
          /\ ToSet(history) = {history[k] : k \in 1 .. Len(history)}
      BY <1>4, <3>3, Elems
    <3>5. ToSet(events) \subseteq ToSet(history)
      BY <3>3, <3>4
    <3>6. ASSUME NEW i \in 1 .. Len(history), history[i].id > lastEventID
          PROVE  history[i] \in ToSet(events)
      <4>1. i \in I
        BY <1>4, <3>6 DEF I
      <4>2. PICK k \in 1 .. Len(events) : i = phi[k]
        BY <3>2, <4>1
      <4>3. QED
        BY <3>3, <3>4, <4>2
    <3>7. QED
      BY <3>3, <3>4, <3>5, <3>6
  <2>3. QED
    BY <2>1, <2>2
<1> HIDE DEF events
<1>6. /\ MaxEventID(events) \in Nat /\ MaxEventID(events) <= top
      /\ \A x \in ToSet(events) : x.id \in Nat /\ x.id <= MaxEventID(events)
  <2>1. MaxEventID(events) \in 0 .. top
    BY <1>4, <1>5, MaxID
  <2>2. ASSUME NEW x \in ToSet(events)
        PROVE  x.id \in Nat /\ x.id <= MaxEventID(events)
    BY <1>5, <1>4, MaxID, Elems DEF Event
  <2>3. QED
    BY <1>4, <2>1, <2>2
<1>7. /\ lastSentID' \in Nat /\ lastSentID' <= top
      /\ lastEventID <= lastSentID' /\ MaxEventID(events) <= lastSentID'
  <2> DEFINE m == MaxEventID(events)
  <2>1. m \in Nat /\ m <= top /\ lastSentID' = Max({lastEventID, m})
    BY <1>1, <1>6
  <2> HIDE DEF m
  <2>2. lastSentID' = IF lastEventID <= m THEN m ELSE lastEventID
    BY <1>4, <2>1, MinMaxOfTwo
  <2>3. lastSentID' \in Nat /\ lastSentID' <= top /\ lastEventID <= lastSentID' /\ m <= lastSentID'
    BY <1>4, <2>1, <2>2
  <2>4. QED
    BY <2>3 DEF m
<1>8. lastEventID' \in Nat /\ lastEventID' <= lastSentID'
  <2>1. CASE events = <<>>
    BY <1>1, <1>4, <1>7, <2>1
  <2>2. CASE events # <<>>
    <3>1. Len(events) \in 1 .. Len(events)
      BY <1>5, <2>2
    <3>2. Last(events) \in ToSet(events)
      BY <1>5, <3>1, Elems DEF Last
    <3>3. QED
      BY <1>1, <1>6, <1>7, <2>2, <3>2
  <2>3. QED
    BY <2>1, <2>2
<1>9. StreamTypeOK'
  BY <1>1, <1>3, <1>7, <1>8 DEF PipelineInv, StreamTypeOK
<1>10. TopOK'
  <2>1. /\ \A i \in 1 .. Len(channel') : channel'[i].id <= top'
        /\ lastEventID' <= top' /\ lastSentID' <= top'
    BY <1>1, <1>2, <1>4, <1>7, <1>8 DEF PipelineInv, TopOK
  <2>2. QED
    BY <1>3, <1>8, <2>1 DEF TopOK
<1>11. ASSUME ~unsaved', NEW x \in ToSet(history')
       PROVE  x.latest \in seen' \cup overtaken' \cup missed'
  <2>1. x \in ToSet(history) /\ ~unsaved
    BY <1>2, <1>11 DEF ToSet
  <2>2. x.latest \in seen \cup overtaken \cup missed \/ x.id > lastEventID
    BY <2>1 DEF PipelineInv, Accounted
  <2>3. QED
    BY <1>1, <1>2, <1>5, <2>1, <2>2
<1>12. QED
  BY <1>3, <1>9, <1>10, <1>11 DEF PipelineInv, Accounted, ToSet

\* What waits stays behind older events, unless it is sent now.
LEMMA SendStep ==
  ASSUME PipelineInv, Send
  PROVE  PipelineInv'
<1> DEFINE e == Head(channel)
<1>1. /\ UNCHANGED <<emitVars, historyVars>> /\ UNCHANGED <<stream, missed>>
      /\ stream = "live" /\ channel # <<>> /\ channel' = Tail(channel)
      /\ \/ e.id <= lastSentID /\ UNCHANGED <<lastSentID, lastEventID, seen>>
         \/ /\ ~(e.id <= lastSentID) /\ lastSentID' = e.id /\ lastEventID' = e.id
            /\ seen' = seen \cup {e.latest}
  BY Zenon DEF Send
<1>2. /\ UNCHANGED <<history, unsaved, top, overtaken>> /\ UNCHANGED <<emitting, at>>
  BY <1>1 DEF historyVars, emitVars
<1>3. /\ PipelineTypeOK' /\ FlightOK' /\ top' \in Nat
      /\ \A x \in ToSet(history') \cup ToSet(historyFile') : x.id <= top' /\ x.latest <= clock'
      /\ ~unsaved' => historyFile' = history'
  BY <1>1, ClientFrame
<1>4. /\ history \in Seq(Event) /\ channel \in Seq(Event)
      /\ lastEventID \in Nat /\ lastSentID \in Nat /\ top \in Nat
      /\ lastEventID <= top /\ lastSentID <= top /\ lastEventID <= lastSentID
      /\ \A i \in 1 .. Len(channel) : channel[i].id <= top
  BY <1>1 DEF PipelineInv, PipelineTypeOK, HistoryOK, StreamTypeOK, TopOK
<1>5. /\ e = channel[1] /\ e \in Event /\ channel' \in Seq(Event) /\ Len(channel) \in Nat \ {0}
      /\ Len(channel') = Len(channel) - 1
      /\ \A i \in 1 .. Len(channel') : channel'[i] = channel[i + 1] /\ i + 1 \in 1 .. Len(channel)
  BY <1>1, <1>4
<1> HIDE DEF e
<1>6. e.id \in Nat /\ e.id <= top
  BY <1>4, <1>5 DEF Event
<1>7. StreamTypeOK'
  BY <1>1, <1>3, <1>4, <1>5, <1>6 DEF StreamTypeOK
<1>8. TopOK'
  <2>1. \A i \in 1 .. Len(channel') : channel'[i].id <= top'
    BY <1>2, <1>4, <1>5
  <2>2. lastEventID' <= top' /\ lastSentID' <= top' /\ lastEventID' <= lastSentID'
    BY <1>1, <1>2, <1>4, <1>6
  <2>3. QED
    BY <1>3, <2>1, <2>2 DEF TopOK
<1>9. ASSUME ~unsaved', NEW x \in ToSet(history')
      PROVE  Accounted(x)'
  <2>1. x \in ToSet(history) /\ ~unsaved /\ Accounted(x) /\ x \in Event /\ x.id \in Nat
    BY <1>2, <1>4, <1>9, Elems DEF PipelineInv, ToSet, Event
  <2>2. CASE x.latest \in seen \cup overtaken \cup missed
    BY <1>1, <1>2, <2>2 DEF Accounted
  <2>3. CASE x.id > lastEventID /\ x.id > lastSentID /\ Waiting(x)
    <3>1. PICK i \in 1 .. Len(channel) :
            /\ channel[i].id = x.id /\ channel[i].latest = x.latest
            /\ \A j \in 1 .. i - 1 : channel[j].id < x.id
      BY <2>3 DEF Waiting
    <3>2. CASE i = 1
      <4>1. e.id = x.id /\ e.latest = x.latest
        BY <1>5, <3>1, <3>2
      <4>2. ~(e.id <= lastSentID)
        BY <1>4, <2>1, <2>3, <4>1
      <4>3. QED
        BY <1>1, <4>1, <4>2 DEF Accounted
    <3>3. CASE i # 1
      <4>1. i - 1 \in 1 .. Len(channel') /\ 1 \in 1 .. i - 1
        BY <1>5, <3>3
      <4>2. channel'[i - 1] = channel[i]
        BY <1>5, <4>1
      <4>3. ASSUME NEW j \in 1 .. (i - 1) - 1
            PROVE  channel'[j].id < x.id
        <5>1. j \in 1 .. Len(channel') /\ j + 1 \in 1 .. i - 1
          BY <4>1
        <5>2. QED
          BY <1>5, <3>1, <5>1
      <4>4. Waiting(x)'
        BY <3>1, <4>1, <4>2, <4>3 DEF Waiting
      <4>5. e.id < x.id
        BY <1>5, <3>1, <4>1
      <4>6. x.id > lastEventID' /\ x.id > lastSentID'
        BY <1>1, <2>3, <4>5
      <4>7. QED
        BY <4>4, <4>6 DEF Accounted
    <3>4. QED
      BY <3>2, <3>3
  <2>4. CASE x.id > lastEventID /\ x.id > lastSentID /\ AtSinks(x)
    <3>1. AtSinks(x)'
      BY <1>2, <1>5, <2>4 DEF AtSinks
    <3>2. e.id < x.id
      BY <1>5, <2>4 DEF AtSinks
    <3>3. x.id > lastEventID' /\ x.id > lastSentID'
      BY <1>1, <2>4, <3>2
    <3>4. QED
      BY <3>1, <3>3 DEF Accounted
  <2>5. QED
    BY <1>1, <2>1, <2>2, <2>3, <2>4 DEF Accounted
<1>10. QED
  BY <1>3, <1>7, <1>8, <1>9 DEF PipelineInv, ToSet
\* A new process has the saved history, and the IDs start over from it.
LEMMA RestartStep ==
  ASSUME PipelineInv, NEW file, NewProcess(file)
  PROVE  PipelineInv'
<1>1. /\ history' = loadHistory(historyFile) /\ nextEventID' = MaxEventID(history')
      /\ emitting' = [g \in Goroutine |-> None] /\ at' = [g \in Goroutine |-> "done"]
      /\ stream' = "off" /\ channel' = <<>> /\ lastSentID' = 0
      /\ UNCHANGED <<clock, historyFile, unsaved, top, overtaken, lastEventID, seen, missed>>
  BY DEF NewProcess
<1>2. /\ historyFile \in Seq(Event) /\ Len(historyFile) <= maxHistorySize /\ Collapsed(historyFile)
      /\ clock \in Nat /\ top \in Nat /\ lastEventID \in Nat /\ lastEventID <= top
      /\ \A x \in ToSet(historyFile) : x.id <= top /\ x.latest <= clock
      /\ ~unsaved => historyFile = history
  BY DEF PipelineInv, PipelineTypeOK, HistoryOK, StreamTypeOK, TopOK
<1>3. history' = historyFile
  BY <1>1, <1>2, Loaded
<1>4. nextEventID' \in Nat
  BY <1>1, <1>2, <1>3, MaxID
<1>5. PipelineTypeOK'
  <2>1. HistoryOK(history') /\ HistoryOK(historyFile')
    BY <1>1, <1>2, <1>3 DEF HistoryOK
  <2>2. /\ emitting' \in [Goroutine -> Event \cup {None}]
        /\ at' \in [Goroutine -> {"done", "emitted", "stored"}]
        /\ \A g \in Goroutine : at'[g] = "done" <=> emitting'[g] = None
    BY <1>1
  <2>3. QED
    BY <1>1, <1>2, <1>4, <2>1, <2>2 DEF PipelineTypeOK, HistoryOK, Collapsed, Outcome
<1>6. StreamTypeOK'
  BY <1>1, <1>2 DEF StreamTypeOK
<1>7. FlightOK'
  BY <1>1 DEF FlightOK
<1>8. TopOK'
  BY <1>1, <1>2, <1>3 DEF TopOK, ToSet
<1>9. ASSUME ~unsaved', NEW x \in ToSet(history')
      PROVE  Accounted(x)'
  <2>1. Accounted(x)
    BY <1>1, <1>2, <1>3, <1>9 DEF PipelineInv, ToSet
  <2>2. QED
    BY <1>1, <2>1 DEF Accounted
<1>10. QED
  BY <1>5, <1>6, <1>7, <1>8, <1>9 DEF PipelineInv, ToSet

\* What an event does to the IDs above it and below it when it reaches a sink.
LEMMA Overtakes ==
  ASSUME PipelineInv, NEW g \in Goroutine, NEW behind, Overtake(g, behind), at[g] # "done",
         "emitted" \in behind
  PROVE  /\ emitting[g] \in Event /\ emitting[g].id \in Nat /\ top \in Nat
         /\ top' \in Nat /\ top' = (IF top <= emitting[g].id THEN emitting[g].id ELSE top)
         /\ overtaken \subseteq overtaken'
         /\ \A h \in Goroutine : at[h] \in behind /\ emitting[h].id < emitting[g].id =>
                emitting[h].latest \in overtaken'
         /\ \A h \in Goroutine : h # g /\ at[h] = "emitted" =>
                emitting[h].latest \in overtaken' \/ emitting[h].id > top'
<1>1. /\ emitting[g] \in Event /\ top \in Nat
      /\ \A h \in Goroutine : at[h] # "done" => emitting[h] \in Event
  BY DEF PipelineInv, PipelineTypeOK, StreamTypeOK
<1>2. emitting[g].id \in Nat /\ \A h \in Goroutine : at[h] # "done" => emitting[h].id \in Nat
  BY <1>1 DEF Event
<1>3. /\ top' = Max({top, emitting[g].id})
      /\ overtaken' = overtaken \cup
            {emitting[h].latest : h \in {i \in Goroutine : at[i] \in behind /\ emitting[i].id < emitting[g].id}}
  BY DEF Overtake
<1>4. top' = IF top <= emitting[g].id THEN emitting[g].id ELSE top
  BY <1>1, <1>2, <1>3, MinMaxOfTwo
<1>5. \A h \in Goroutine : at[h] \in behind /\ emitting[h].id < emitting[g].id =>
         emitting[h].latest \in overtaken'
  BY <1>3
<1>6. ASSUME NEW h \in Goroutine, h # g, at[h] = "emitted", emitting[h].latest \notin overtaken'
      PROVE  emitting[h].id > top'
  <2>1. /\ emitting[h].id > top /\ emitting[h].id # emitting[g].id
    BY <1>3, <1>6 DEF PipelineInv, FlightOK
  <2>2. ~(emitting[h].id < emitting[g].id)
    BY <1>5, <1>6
  <2>3. QED
    BY <1>1, <1>2, <1>4, <1>6, <2>1, <2>2
<1>7. QED
  BY <1>1, <1>2, <1>3, <1>4, <1>5, <1>6
\* The history takes the event with its own time, or passes it by.
LEMMA StoredEvent ==
  ASSUME PipelineInv, NEW g \in Goroutine, Store(g)
  PROVE  \E x \in Event :
            /\ emitting' = [emitting EXCEPT ![g] = x]
            /\ x.id = emitting[g].id /\ x.status = emitting[g].status
            /\ x.latest = emitting[g].latest
            /\ HistoryOK(history') /\ ToSet(history') \subseteq ToSet(history) \cup {x}
            /\ \/ historyFile' = history' /\ unsaved' = unsaved
               \/ unsaved' = TRUE /\ historyFile' = historyFile
               \/ UNCHANGED <<history, historyFile, unsaved>>
<1> DEFINE e == emitting[g]
           x == stored(history, e)
<1>1. /\ HistoryOK(history) /\ HistoryOK(historyFile) /\ at[g] = "emitted"
      /\ emitting \in [Goroutine -> Event \cup {None}] /\ e \in Event
  BY DEF PipelineInv, PipelineTypeOK, Store
<1>2. \A y \in ToSet(history) : y.status \in StatusOf(g) => y.latest < e.latest
  BY <1>1 DEF PipelineInv, FlightOK
<1>3. e.status \in StatusOf(g)
  BY <1>1 DEF PipelineInv, FlightOK
<1>4. CASE e.status \in unrecorded
  <2>1. UNCHANGED <<history, historyFile, emitting, unsaved>>
    BY <1>4 DEF Store
  <2>2. emitting' = [emitting EXCEPT ![g] = e]
    BY <1>1, <2>1
  <2>3. HistoryOK(history') /\ ToSet(history') \subseteq ToSet(history)
    BY <1>1, <2>1 DEF ToSet
  <2> HIDE DEF e
  <2>4. QED
    BY <1>1, <2>1, <2>2, <2>3 DEF e
<1>5. CASE e.status \notin unrecorded
  <2>1. /\ history' = addLocked(history, e)
        /\ emitting' = [emitting EXCEPT ![g] = x]
        /\ \/ historyFile' = history' /\ UNCHANGED <<unsaved, budget>>
           \/ Fault("history") /\ unsaved' = TRUE /\ UNCHANGED historyFile
    BY <1>5, Zenon DEF Store
  <2> HIDE DEF e
  <2>2. /\ history \in Seq(Event) /\ Collapsed(history)
    BY <1>1 DEF HistoryOK
  <2>3. /\ history' \in Seq(Event) /\ Len(history') <= maxHistorySize /\ Collapsed(history')
        /\ ToSet(history') \subseteq ToSet(history) \cup {x}
        /\ x \in Event /\ x.id = e.id /\ x.status = e.status
        /\ \/ x.latest = e.latest
           \/ \E y \in ToSet(history) : y.status = e.status /\ y.latest > e.latest
    BY <1>1, <2>1, <2>2, Added, Zenon
  <2> HIDE DEF x
  <2>4. x.latest = e.latest
    <3>1. ASSUME NEW y \in ToSet(history), y.status = e.status, y.latest > e.latest
          PROVE  FALSE
      <4>1. y \in Event
        BY <2>2, Elems
      <4>2. y.latest \in Nat /\ e.latest \in Nat
        BY <1>1, <4>1 DEF Event
      <4>3. QED
        BY <1>2, <1>3, <3>1, <4>2
    <3>2. QED
      BY <2>3, <3>1
  <2>5. HistoryOK(history')
    BY <2>3 DEF HistoryOK
  <2>6. QED
    BY <2>1, <2>3, <2>4, <2>5 DEF e
<1>6. QED
  BY <1>4, <1>5

\* What the history takes is above all that was sent, or overtaken.
LEMMA StoreStep ==
  ASSUME PipelineInv, NEW g \in Goroutine, Store(g)
  PROVE  PipelineInv'
<1>1. PICK x \in Event :
            /\ emitting' = [emitting EXCEPT ![g] = x]
            /\ x.id = emitting[g].id /\ x.status = emitting[g].status
            /\ x.latest = emitting[g].latest
            /\ HistoryOK(history') /\ ToSet(history') \subseteq ToSet(history) \cup {x}
            /\ \/ historyFile' = history' /\ unsaved' = unsaved
               \/ unsaved' = TRUE /\ historyFile' = historyFile
               \/ UNCHANGED <<history, historyFile, unsaved>>
  BY StoredEvent
<1>2. /\ at[g] = "emitted" /\ at' = [at EXCEPT ![g] = "stored"] /\ Overtake(g, {"emitted"})
      /\ UNCHANGED <<nextEventID, clock, stream, channel, lastSentID, lastEventID, seen, missed>>
  BY Zenon DEF Store, clientVars
<1>3. PipelineTypeOK /\ StreamTypeOK /\ FlightOK /\ TopOK
  BY DEF PipelineInv
<1>4. /\ nextEventID \in Nat /\ clock \in Nat /\ emitting \in [Goroutine -> Event \cup {None}]
      /\ at \in [Goroutine -> {"done", "emitted", "stored"}]
      /\ \A h \in Goroutine : at[h] = "done" <=> emitting[h] = None
      /\ HistoryOK(history) /\ HistoryOK(historyFile)
  BY <1>3 DEF PipelineTypeOK
<1>5. /\ emitting'[g] = x /\ at'[g] = "stored"
      /\ \A h \in Goroutine : h # g => emitting'[h] = emitting[h] /\ at'[h] = at[h]
  BY <1>1, <1>2, <1>4
<1>6. /\ emitting[g].id \in Nat /\ top \in Nat
      /\ top' \in Nat /\ top' = (IF top <= emitting[g].id THEN emitting[g].id ELSE top)
      /\ overtaken \subseteq overtaken'
      /\ \A h \in Goroutine : h # g /\ at[h] = "emitted" =>
            emitting[h].latest \in overtaken' \/ emitting[h].id > top'
  BY <1>2, Overtakes
<1>7. top <= top' /\ x.id <= top' /\ x.id \in Nat
  BY <1>1, <1>6
<1>8. x.status \in StatusOf(g) /\ x.latest <= clock
  BY <1>1, <1>2, <1>3 DEF FlightOK
<1>9. PipelineTypeOK'
  <2>1. /\ emitting' \in [Goroutine -> Event \cup {None}]
        /\ at' \in [Goroutine -> {"done", "emitted", "stored"}]
    BY <1>1, <1>2, <1>4
  <2>2. \A h \in Goroutine : at'[h] = "done" <=> emitting'[h] = None
    BY <1>4, <1>5, NoneIsNone
  <2>3. HistoryOK(history') /\ HistoryOK(historyFile')
    BY <1>1, <1>4
  <2>4. QED
    BY <1>2, <1>4, <2>1, <2>2, <2>3 DEF PipelineTypeOK, HistoryOK, Collapsed, Outcome
<1>10. StreamTypeOK'
  BY <1>2, <1>3, <1>6 DEF StreamTypeOK
<1>11. FlightOK'
  <2>1. ASSUME NEW h \in Goroutine, at'[h] # "done"
        PROVE  /\ at[h] # "done" /\ emitting'[h].id = emitting[h].id
               /\ emitting'[h].latest = emitting[h].latest /\ emitting'[h].status = emitting[h].status
    BY <1>1, <1>2, <1>5, <2>1
  <2>2. ASSUME NEW h \in Goroutine, at'[h] # "done"
        PROVE  /\ emitting'[h].id <= nextEventID' /\ emitting'[h].latest <= clock'
               /\ emitting'[h].status \in StatusOf(h)
               /\ \A i \in Goroutine : at'[i] # "done" /\ i # h => emitting'[i].id # emitting'[h].id
    BY <1>2, <1>3, <2>1, <2>2 DEF FlightOK
  <2>3. ASSUME NEW h \in Goroutine, at'[h] = "stored"
        PROVE  emitting'[h].id <= top'
    <3>1. CASE h = g
      BY <1>5, <1>7, <3>1
    <3>2. CASE h # g
      <4>1. emitting'[h] = emitting[h] /\ emitting[h] \in Event /\ emitting[h].id <= top
        BY <1>3, <1>4, <1>5, <2>3, <3>2 DEF FlightOK
      <4>2. emitting[h].id \in Nat
        BY <4>1 DEF Event
      <4>3. QED
        BY <1>6, <1>7, <4>1, <4>2
    <3>3. QED
      BY <3>1, <3>2
  <2>4. ASSUME NEW h \in Goroutine, at'[h] = "emitted"
        PROVE  h # g /\ at[h] = "emitted" /\ emitting'[h] = emitting[h]
    BY <1>5, <2>4
  <2>5. ASSUME NEW h \in Goroutine, at'[h] = "emitted", NEW y \in ToSet(history'), y.status \in StatusOf(h)
        PROVE  y.latest < emitting'[h].latest
    <3>1. y # x
      BY <1>8, <2>4, <2>5, StatusesApart
    <3>2. y \in ToSet(history)
      BY <1>1, <2>5, <3>1
    <3>3. QED
      BY <1>3, <2>4, <2>5, <3>2 DEF FlightOK
  <2>6. ASSUME NEW h \in Goroutine, at'[h] = "emitted"
        PROVE  emitting'[h].latest \in overtaken' \/ emitting'[h].id > top'
    BY <1>6, <2>4, <2>6
  <2>7. QED
    BY <2>2, <2>3, <2>5, <2>6 DEF FlightOK, StatusOf
<1>12. TopOK'
  <2>1. ASSUME NEW y \in ToSet(history) \cup ToSet(historyFile) \cup {x}
        PROVE  y.id <= top' /\ y.latest <= clock
    <3>1. CASE y = x
      BY <1>7, <1>8, <3>1
    <3>2. CASE y # x
      <4>1. y \in Event /\ y.id <= top /\ y.latest <= clock
        BY <1>3, <1>4, <2>1, <3>2, Elems DEF HistoryOK, TopOK
      <4>2. y.id \in Nat
        BY <4>1 DEF Event
      <4>3. QED
        BY <1>6, <1>7, <4>1, <4>2
    <3>3. QED
      BY <3>1, <3>2
  <2>2. ToSet(history') \cup ToSet(historyFile') \subseteq ToSet(history) \cup ToSet(historyFile) \cup {x}
    BY <1>1
  <2>3. /\ \A i \in 1 .. Len(channel) : channel[i].id <= top /\ channel[i].id \in Nat
        /\ lastEventID \in Nat /\ lastSentID \in Nat /\ lastEventID <= top /\ lastSentID <= top
    BY <1>3, Elems DEF StreamTypeOK, TopOK
  <2>4. /\ \A i \in 1 .. Len(channel) : channel[i].id <= top'
        /\ lastEventID <= top' /\ lastSentID <= top'
    BY <1>6, <1>7, <2>3
  <2>5. stream' = "live" => lastEventID' <= lastSentID'
    BY <1>2, <1>3 DEF TopOK
  <2>6. ~unsaved' => historyFile' = history'
    BY <1>1, <1>3 DEF TopOK
  <2>7. QED
    BY <1>2, <2>1, <2>2, <2>4, <2>5, <2>6 DEF TopOK, ToSet
<1>13. ASSUME ~unsaved', NEW y \in ToSet(history')
       PROVE  Accounted(y)'
  <2>1. ~unsaved
    BY <1>1, <1>13
  <2>2. CASE y = x
    <3>1. CASE x.latest \in overtaken
      BY <1>6, <2>2, <3>1 DEF Accounted
    <3>2. CASE x.latest \notin overtaken
      <4>1. x.id > top
        BY <1>1, <1>2, <1>3, <3>2 DEF FlightOK
      <4>2. /\ lastEventID \in Nat /\ lastSentID \in Nat /\ lastEventID <= top /\ lastSentID <= top
            /\ \A i \in 1 .. Len(channel) : channel[i].id <= top /\ channel[i].id \in Nat
        BY <1>3, Elems DEF StreamTypeOK, TopOK
      <4>3. /\ x.id > lastEventID /\ x.id > lastSentID
            /\ \A i \in 1 .. Len(channel) : channel[i].id < x.id
        BY <1>6, <1>7, <4>1, <4>2
      <4>4. AtSinks(x)'
        BY <1>2, <1>5, <4>3 DEF AtSinks
      <4>5. QED
        BY <1>2, <2>2, <4>3, <4>4 DEF Accounted
    <3>3. QED
      BY <3>1, <3>2
  <2>3. CASE y # x
    <3>1. y \in ToSet(history) /\ Accounted(y)
      BY <1>1, <1>13, <2>1, <2>3 DEF PipelineInv
    <3>2. AtSinks(y) => AtSinks(y)'
      <4>1. ASSUME NEW h \in Goroutine, at[h] = "stored", emitting[h].id = y.id, emitting[h].latest = y.latest
            PROVE  at'[h] = "stored" /\ emitting'[h].id = y.id /\ emitting'[h].latest = y.latest
        BY <1>2, <1>5, <4>1
      <4>2. QED
        BY <1>2, <4>1 DEF AtSinks
    <3>3. Waiting(y) => Waiting(y)'
      BY <1>2 DEF Waiting
    <3>4. QED
      BY <1>2, <1>6, <3>1, <3>2, <3>3 DEF Accounted
  <2>4. QED
    BY <2>2, <2>3
<1>14. QED
  BY <1>9, <1>10, <1>11, <1>12, <1>13 DEF PipelineInv, ToSet
\* The broadcaster queues the event, or misses it, or has nobody to tell.
LEMMA PublishedEvent ==
  ASSUME channel \in Seq(Event), NEW e \in Event, Publish(e)
  PROVE  \/ channel' = Append(channel, e) /\ missed' = missed
         \/ channel' = channel /\ missed' = missed \cup {e.latest}
         \/ stream = "off" /\ channel' = channel /\ missed' = missed
BY DEF Publish

\* What the broadcaster takes waits behind older events, or is missed.
LEMMA DeliverStep ==
  ASSUME PipelineInv, NEW g \in Goroutine, Deliver(g)
  PROVE  PipelineInv'
<1> DEFINE e == emitting[g]
<1>1. /\ at[g] = "stored" /\ at' = [at EXCEPT ![g] = "done"]
      /\ emitting' = [emitting EXCEPT ![g] = None]
      /\ Overtake(g, {"emitted", "stored"}) /\ Publish(e)
      /\ UNCHANGED <<nextEventID, clock, history, historyFile, unsaved, stream, lastSentID, lastEventID, seen>>
  BY DEF Deliver
<1>2. PipelineTypeOK /\ StreamTypeOK /\ FlightOK /\ TopOK
  BY DEF PipelineInv
<1>3. /\ nextEventID \in Nat /\ clock \in Nat /\ emitting \in [Goroutine -> Event \cup {None}]
      /\ at \in [Goroutine -> {"done", "emitted", "stored"}]
      /\ \A h \in Goroutine : at[h] = "done" <=> emitting[h] = None
      /\ HistoryOK(history) /\ HistoryOK(historyFile) /\ channel \in Seq(Event)
  BY <1>2 DEF PipelineTypeOK, StreamTypeOK
<1>4. /\ emitting'[g] = None /\ at'[g] = "done"
      /\ \A h \in Goroutine : h # g => emitting'[h] = emitting[h] /\ at'[h] = at[h]
  BY <1>1, <1>3
<1>5. /\ e \in Event /\ e.id \in Nat /\ top \in Nat
      /\ top' \in Nat /\ top' = (IF top <= e.id THEN e.id ELSE top)
      /\ overtaken \subseteq overtaken'
      /\ \A h \in Goroutine : at[h] = "stored" /\ emitting[h].id < e.id => emitting[h].latest \in overtaken'
      /\ \A h \in Goroutine : h # g /\ at[h] = "emitted" =>
            emitting[h].latest \in overtaken' \/ emitting[h].id > top'
  BY <1>1, Overtakes
<1>6. e.id <= top
  BY <1>1, <1>2 DEF FlightOK
<1>7. top' = top
  BY <1>5, <1>6
<1>8. \/ channel' = Append(channel, e) /\ missed' = missed
      \/ channel' = channel /\ missed' = missed \cup {e.latest}
      \/ stream = "off" /\ channel' = channel /\ missed' = missed
  BY <1>1, <1>3, <1>5, PublishedEvent
<1> HIDE DEF e
<1>9. /\ channel' \in Seq(Event) /\ Len(channel) \in Nat
      /\ \A i \in 1 .. Len(channel) : channel'[i] = channel[i] /\ i \in 1 .. Len(channel')
      /\ \A i \in 1 .. Len(channel') : i \in 1 .. Len(channel) \/ channel'[i] = e
  <2>1. CASE channel' = channel
    BY <1>3, <2>1
  <2>2. CASE channel' = Append(channel, e)
    <3>1. e \in Event /\ channel \in Seq(Event)
      BY <1>3, <1>5
    <3>2. /\ channel' \in Seq(Event) /\ Len(channel) \in Nat /\ Len(channel') = Len(channel) + 1
          /\ channel'[Len(channel) + 1] = e
          /\ \A i \in 1 .. Len(channel) : channel'[i] = channel[i]
      BY <2>2, <3>1
    <3>3. QED
      BY <3>2
  <2>3. QED
    BY <1>8, <2>1, <2>2
<1>10. PipelineTypeOK'
  <2>1. /\ emitting' \in [Goroutine -> Event \cup {None}]
        /\ at' \in [Goroutine -> {"done", "emitted", "stored"}]
    BY <1>1, <1>3
  <2>2. \A h \in Goroutine : at'[h] = "done" <=> emitting'[h] = None
    BY <1>3, <1>4
  <2>3. QED
    BY <1>1, <1>3, <2>1, <2>2 DEF PipelineTypeOK, HistoryOK, Collapsed, Outcome
<1>11. StreamTypeOK'
  BY <1>1, <1>2, <1>5, <1>9 DEF StreamTypeOK
<1>12. FlightOK'
  <2>1. ASSUME NEW h \in Goroutine, at'[h] # "done"
        PROVE  h # g /\ at[h] # "done" /\ emitting'[h] = emitting[h] /\ at'[h] = at[h]
    BY <1>4, <2>1
  <2>2. ASSUME NEW h \in Goroutine, at'[h] # "done"
        PROVE  /\ emitting'[h].id <= nextEventID' /\ emitting'[h].latest <= clock'
               /\ emitting'[h].status \in StatusOf(h)
               /\ \A i \in Goroutine : at'[i] # "done" /\ i # h => emitting'[i].id # emitting'[h].id
    BY <1>1, <1>2, <2>1, <2>2 DEF FlightOK
  <2>3. ASSUME NEW h \in Goroutine, at'[h] = "stored"
        PROVE  emitting'[h].id <= top'
    BY <1>2, <1>7, <2>1, <2>3 DEF FlightOK
  <2>4. ASSUME NEW h \in Goroutine, at'[h] = "emitted"
        PROVE  /\ emitting'[h].latest \in overtaken' \/ emitting'[h].id > top'
               /\ \A x \in ToSet(history) : x.status \in StatusOf(h) => x.latest < emitting'[h].latest
    BY <1>2, <1>5, <2>1, <2>4 DEF FlightOK
  <2>5. QED
    BY <1>1, <2>2, <2>3, <2>4 DEF FlightOK, StatusOf, ToSet
<1>13. TopOK'
  <2>1. \A i \in 1 .. Len(channel') : channel'[i].id <= top'
    BY <1>2, <1>6, <1>7, <1>9 DEF TopOK
  <2>2. QED
    BY <1>1, <1>2, <1>7, <2>1 DEF TopOK, ToSet
<1>14. ASSUME ~unsaved', NEW x \in ToSet(history')
       PROVE  Accounted(x)'
  <2>1. ~unsaved /\ x \in ToSet(history) /\ Accounted(x)
    BY <1>1, <1>14 DEF PipelineInv, ToSet
  <2>2. x \in Event /\ x.id \in Nat
    BY <1>3, <2>1, Elems DEF HistoryOK, Event
  <2>3. missed \subseteq missed'
    BY <1>8
  <2>4. CASE x.latest \in seen \cup overtaken \cup missed
    BY <1>1, <1>5, <2>3, <2>4 DEF Accounted
  <2>5. CASE x.id > lastEventID /\ stream # "live"
    BY <1>1, <2>5 DEF Accounted
  <2>6. CASE x.id > lastEventID /\ stream = "live" /\ x.id > lastSentID /\ Waiting(x)
    <3>1. PICK i \in 1 .. Len(channel) :
            /\ channel[i].id = x.id /\ channel[i].latest = x.latest
            /\ \A j \in 1 .. i - 1 : channel[j].id < x.id
      BY <2>6 DEF Waiting
    <3>2. \A j \in 1 .. i - 1 : j \in 1 .. Len(channel)
      BY <1>9
    <3>3. Waiting(x)'
      BY <1>9, <3>1, <3>2 DEF Waiting
    <3>4. QED
      BY <1>1, <2>6, <3>3 DEF Accounted
  <2>7. CASE x.id > lastEventID /\ stream = "live" /\ x.id > lastSentID /\ AtSinks(x)
    <3>1. PICK h \in Goroutine : at[h] = "stored" /\ emitting[h].id = x.id /\ emitting[h].latest = x.latest
      BY <2>7 DEF AtSinks
    <3>2. \A j \in 1 .. Len(channel) : channel[j].id < x.id
      BY <2>7 DEF AtSinks
    <3>3. CASE h = g /\ channel' = Append(channel, e)
      <4>1. e.id = x.id /\ e.latest = x.latest
        BY <3>1, <3>3 DEF e
      <4>2. Len(channel') = Len(channel) + 1 /\ channel'[Len(channel) + 1] = e
        BY <1>3, <1>5, <3>3
      <4>3. \A j \in 1 .. (Len(channel) + 1) - 1 : channel'[j].id < x.id
        BY <1>9, <3>2
      <4>4. Len(channel) + 1 \in 1 .. Len(channel')
        BY <1>9, <4>2
      <4>5. Waiting(x)'
        BY <4>1, <4>2, <4>3, <4>4 DEF Waiting
      <4>6. QED
        BY <1>1, <2>7, <4>5 DEF Accounted
    <3>4. CASE h = g /\ channel' # Append(channel, e)
      BY <1>8, <2>7, <3>1, <3>4 DEF Accounted, e
    <3>5. CASE h # g
      <4>1. x.id # e.id
        <5>1. at[h] # "done" /\ at[g] # "done"
          BY <1>1, <3>1
        <5>2. QED
          BY <1>2, <3>1, <3>5, <5>1 DEF FlightOK, e
      <4>2. CASE x.id < e.id
        BY <1>5, <3>1, <4>2 DEF Accounted
      <4>3. CASE e.id < x.id
        <5>1. \A j \in 1 .. Len(channel') : channel'[j].id < x.id
          BY <1>9, <3>2, <4>3
        <5>2. at'[h] = "stored" /\ emitting'[h] = emitting[h]
          BY <1>4, <3>1, <3>5
        <5>3. AtSinks(x)'
          BY <3>1, <5>1, <5>2 DEF AtSinks
        <5>4. QED
          BY <1>1, <2>7, <5>3 DEF Accounted
      <4>4. QED
        BY <1>5, <2>2, <4>1, <4>2, <4>3
    <3>6. QED
      BY <3>3, <3>4, <3>5
  <2>8. QED
    BY <2>1, <2>4, <2>5, <2>6, <2>7 DEF Accounted
<1>15. QED
  BY <1>10, <1>11, <1>12, <1>13, <1>14 DEF PipelineInv, ToSet

-----------------------------------------------------------------------------
(* The theorems                                                             *)

\* The invariant holds from the start.
LEMMA PipelineInit == Init => PipelineInv
<1> SUFFICES ASSUME Init
             PROVE  PipelineInv
  OBVIOUS
<1>1. /\ nextEventID = 0 /\ clock = 0 /\ emitting = [g \in Goroutine |-> None]
      /\ at = [g \in Goroutine |-> "done"] /\ history = <<>> /\ historyFile = <<>>
      /\ stream = "off" /\ channel = <<>> /\ lastSentID = 0 /\ lastEventID = 0 /\ top = 0
  BY DEF Init
<1>2. HistoryOK(<<>>)
  BY PipelineAssumption DEF HistoryOK, Collapsed
<1>3. PipelineTypeOK /\ StreamTypeOK
  BY <1>1, <1>2 DEF PipelineTypeOK, StreamTypeOK
<1>4. ToSet(history) = {} /\ ToSet(historyFile) = {}
  BY <1>1 DEF ToSet
<1>5. FlightOK /\ TopOK
  BY <1>1, <1>4 DEF FlightOK, TopOK
<1>6. QED
  BY <1>3, <1>4, <1>5 DEF PipelineInv

\* Every step keeps it.
LEMMA PipelineStep ==
  ASSUME PipelineInv, [Next]_vars
  PROVE  PipelineInv'
<1>1. ASSUME NEW g \in Goroutine, EmitSome(g) PROVE PipelineInv'
  <2>1. PICK s \in Stack, status \in StatusOf(g) : Emit(g, s, status)
    BY <1>1, Zenon DEF EmitSome, StatusOf
  <2>2. QED
    BY <2>1, EmitStep
<1>2. ASSUME NEW g \in Goroutine, Store(g) PROVE PipelineInv'
  BY <1>2, StoreStep
<1>3. ASSUME NEW g \in Goroutine, Deliver(g) PROVE PipelineInv'
  BY <1>3, DeliverStep
<1>4. ASSUME NEW g \in Goroutine, CrashInAppend(g) PROVE PipelineInv'
  BY <1>4, RestartStep, Zenon DEF CrashInAppend
<1>5. CASE Client
  BY <1>5, SubscribeStep, ReplayStep, SendStep, DisconnectStep DEF Client
<1>6. CASE Crash
  BY <1>6, RestartStep, Zenon DEF Crash
<1>7. CASE UNCHANGED vars
  <2>1. /\ UNCHANGED <<nextEventID, clock, emitting, at>>
        /\ UNCHANGED <<history, historyFile, unsaved, top, overtaken>>
        /\ UNCHANGED <<stream, channel, lastSentID, lastEventID, seen, missed>>
    BY <1>7 DEF vars, emitVars, historyVars, clientVars
  <2>2. PipelineTypeOK' /\ FlightOK'
    BY <2>1, ClientFrame DEF emitVars, historyVars
  <2>3. StreamTypeOK' /\ TopOK'
    BY <2>1 DEF PipelineInv, StreamTypeOK, TopOK, ToSet
  <2>4. ~unsaved' => \A x \in ToSet(history') : Accounted(x)'
    BY <2>1 DEF PipelineInv, Accounted, Waiting, AtSinks, ToSet
  <2>5. QED
    BY <2>2, <2>3, <2>4 DEF PipelineInv, ToSet
<1>8. QED
  BY <1>1, <1>2, <1>3, <1>4, <1>5, <1>6, <1>7, Zenon DEF Next

\* A standing failure takes one entry of the history.
THEOREM FailuresTakeOneEntry == Spec => []OneEntryPerRun
<1>1. ASSUME PipelineInv PROVE OneEntryPerRun
  <2>1. history \in Seq(Event) /\ Collapsed(history)
    BY <1>1 DEF PipelineInv, PipelineTypeOK, HistoryOK
  <2>2. DOMAIN history = 1 .. Len(history) /\ Len(history) \in Nat
    BY <2>1
  <2> SUFFICES ASSUME NEW i \in 1 .. Len(history), NEW j \in 1 .. Len(history), i < j,
                      history[i].stack = history[j].stack,
                      Terminal(history[i]), Terminal(history[j]),
                      \A k \in i + 1 .. j - 1 : ~(Terminal(history[k]) /\ history[k].stack = history[i].stack)
               PROVE  ~RepeatsOf(history[j], history[i])
    BY <2>2 DEF OneEntryPerRun
  <2>3. \A k \in 1 .. Len(history) : i < k /\ k < j => k \in i + 1 .. j - 1
    BY <2>2
  <2>4. Outcome(history, i, history[j].stack)
    BY DEF Outcome
  <2>5. \A k \in 1 .. Len(history) : i < k /\ k < j => ~Outcome(history, k, history[j].stack)
    BY <2>3 DEF Outcome
  <2>6. QED
    BY <2>1, <2>4, <2>5 DEF Collapsed
<1>2. QED
  BY <1>1, PipelineInit, PipelineStep, PTL DEF Spec

\* A browser that has read everything sent to it holds the history.
THEOREM ReplayLeavesNoGap == Spec => []ClientComplete
<1>1. ASSUME PipelineInv PROVE ClientComplete
  <2> SUFFICES ASSUME CaughtUp, NEW x \in ToSet(history)
               PROVE  x.latest \in seen \cup overtaken \cup missed
    BY DEF ClientComplete
  <2>1. stream = "live" /\ Len(channel) = 0 /\ ~unsaved /\ \A g \in Goroutine : at[g] # "stored"
    BY DEF CaughtUp
  <2>2. Accounted(x)
    BY <1>1, <2>1 DEF PipelineInv
  <2>3. ~Waiting(x) /\ ~AtSinks(x)
    BY <2>1 DEF Waiting, AtSinks
  <2>4. QED
    BY <2>1, <2>2, <2>3 DEF Accounted
<1>2. QED
  BY <1>1, PipelineInit, PipelineStep, PTL DEF Spec

-----------------------------------------------------------------------------
(* Records that are folded and trimmed                                      *)

Line == Event \cup {Torn}

\* In order of time; and no record repeats the one before it.
Ascending(q) == \A i, j \in 1 .. Len(q) : i < j => q[i].latest < q[j].latest
Merged(q) == \A i, j \in 1 .. Len(q) : j = i + 1 => ~RepeatsOf(q[j], q[i])

\* A torn line is no event.
LEMMA TornIsNone == Torn \notin Event /\ \A s \in Stack : Torn.stack # s
<1>1. Torn.stack = None
  BY DEF Torn
<1>2. \A e \in Event : e.stack \in Stack
  BY DEF Event
<1>3. QED
  BY <1>1, <1>2, PipelineAssumption

\* Two records agree on what the history is asked for.
Same(x, y) == x.id = y.id /\ x.stack = y.stack /\ x.status = y.status

\* A record takes a place of its own, or that of the record it repeats.
LEMMA Folds ==
  ASSUME NEW q \in Seq(Event), NEW r \in Event
  PROVE  LET f == fold(q, r)
         IN  /\ f \in Seq(Event) /\ Len(f) \in Nat \ {0}
             /\ \A i \in 1 .. Len(f) : i # Len(f) => i \in 1 .. Len(q) /\ f[i] = q[i]
             /\ Same(f[Len(f)], r)
             /\ \/ f = Append(q, r) /\ Len(f) = Len(q) + 1 /\ f[Len(f)] = r
                   /\ (Len(q) > 0 => ~RepeatsOf(r, q[Len(q)]))
                \/ /\ Len(f) = Len(q) /\ Len(q) > 0 /\ RepeatsOf(r, q[Len(q)])
                   /\ f[Len(f)].latest = IF q[Len(q)].latest <= r.latest THEN r.latest
                                         ELSE q[Len(q)].latest
<1>0. Len(q) \in Nat /\ (q # <<>> <=> Len(q) > 0)
  OBVIOUS
<1>1. CASE ~(q # <<>> /\ RepeatsOf(r, Last(q)))
  <2>1. fold(q, r) = Append(q, r)
    BY <1>1 DEF fold
  <2>2. /\ Append(q, r) \in Seq(Event) /\ Len(Append(q, r)) = Len(q) + 1
        /\ Append(q, r)[Len(q) + 1] = r
        /\ \A i \in 1 .. Len(q) : Append(q, r)[i] = q[i]
    OBVIOUS
  <2>3. Len(q) > 0 => ~RepeatsOf(r, q[Len(q)])
    BY <1>0, <1>1 DEF Last
  <2> DEFINE f == Append(q, r)
  <2> HIDE DEF f
  <2>4. fold(q, r) = f /\ f \in Seq(Event) /\ Len(f) = Len(q) + 1 /\ f[Len(f)] = r
        /\ \A i \in 1 .. Len(q) : f[i] = q[i]
    BY <2>1, <2>2 DEF f
  <2>5. \A i \in 1 .. Len(f) : i # Len(f) => i \in 1 .. Len(q) /\ f[i] = q[i]
    BY <1>0, <2>4
  <2>6. Same(f[Len(f)], r)
    BY <2>4 DEF Same
  <2>7. QED
    BY <1>0, <2>3, <2>4, <2>5, <2>6 DEF f
<1>2. CASE q # <<>> /\ RepeatsOf(r, Last(q))
  <2> DEFINE prev == q[Len(q)]
             x == AbsorbInto(r, prev)
             p == Front(q)
  <2>1. fold(q, r) = Append(p, x)
    BY <1>2 DEF fold, Last
  <2>2. prev \in Event /\ RepeatsOf(r, prev)
    BY <1>0, <1>2 DEF Last
  <2>3. /\ x \in Event /\ x.id = r.id /\ x.stack = r.stack /\ x.status = r.status
        /\ x.latest = IF prev.latest <= r.latest THEN r.latest ELSE prev.latest
    <3> HIDE DEF prev
    <3> QED
      BY <2>2, AbsorbFields
  <2>4. p \in Seq(Event) /\ Len(p) = Len(q) - 1 /\ \A i \in 1 .. Len(p) : p[i] = q[i]
    <3> DEFINE n == Len(q) - 1
    <3>1. p = SubSeq(q, 1, n) /\ n \in Nat
      BY <1>0, <1>2 DEF Front
    <3>2. \A i \in 1 .. n : q[i] \in Event
      BY <1>0
    <3> HIDE DEF p, x, prev, n
    <3>3. /\ p \in Seq(Event) /\ Len(p) = IF 1 <= n THEN n - 1 + 1 ELSE 0
          /\ \A i \in 1 .. n - 1 + 1 : p[i] = q[1 + i - 1]
      BY <3>1, <3>2, SubSeqProperties
    <3>4. Len(p) = n
      BY <3>1, <3>3
    <3>5. \A i \in 1 .. n : p[i] = q[i]
      BY <3>1, <3>3
    <3>6. QED
      BY <3>3, <3>4, <3>5 DEF n
  <2> HIDE DEF p, x
  <2>5. /\ Append(p, x) \in Seq(Event) /\ Len(Append(p, x)) = Len(q)
        /\ Append(p, x)[Len(q)] = x
        /\ \A i \in 1 .. Len(p) : Append(p, x)[i] = q[i]
    BY <1>0, <2>3, <2>4
  <2>6. \A i \in 1 .. Len(q) : i # Len(q) => i \in 1 .. Len(p)
    BY <1>0, <2>4
  <2>7. Same(x, r)
    BY <2>3 DEF Same
  <2>8. QED
    BY <1>0, <1>2, <2>1, <2>2, <2>3, <2>5, <2>6, <2>7
<1>3. QED
  BY <1>1, <1>2

\* What a fold keeps.
LEMMA FoldKeeps ==
  ASSUME NEW q \in Seq(Event), NEW r \in Event
  PROVE  /\ Merged(q) => Merged(fold(q, r))
         /\ (Ascending(q) /\ \A i \in 1 .. Len(q) : q[i].latest < r.latest) =>
              Ascending(fold(q, r)) /\ fold(q, r)[Len(fold(q, r))].latest = r.latest
<1> DEFINE f == fold(q, r)
<1>1. /\ f \in Seq(Event) /\ Len(f) \in Nat \ {0}
      /\ \A i \in 1 .. Len(f) : i # Len(f) => i \in 1 .. Len(q) /\ f[i] = q[i]
      /\ Same(f[Len(f)], r)
      /\ \/ f = Append(q, r) /\ Len(f) = Len(q) + 1 /\ f[Len(f)] = r
            /\ (Len(q) > 0 => ~RepeatsOf(r, q[Len(q)]))
         \/ /\ Len(f) = Len(q) /\ Len(q) > 0 /\ RepeatsOf(r, q[Len(q)])
            /\ f[Len(f)].latest = IF q[Len(q)].latest <= r.latest THEN r.latest
                                  ELSE q[Len(q)].latest
  BY Folds, Zenon
<1> HIDE DEF f
<1>2. Len(q) \in Nat
  OBVIOUS
<1>3. ASSUME Merged(q), NEW i \in 1 .. Len(f), NEW j \in 1 .. Len(f), j = i + 1, RepeatsOf(f[j], f[i])
      PROVE  FALSE
  <2>1. i # Len(f) /\ i \in 1 .. Len(q) /\ f[i] = q[i]
    BY <1>1, <1>3
  <2>2. CASE j # Len(f)
    <3>1. j \in 1 .. Len(q) /\ f[j] = q[j]
      BY <1>1, <2>2
    <3>2. QED
      BY <1>3, <2>1, <3>1 DEF Merged
  <2>3. CASE j = Len(f)
    <3>1. RepeatsOf(r, q[i])
      BY <1>1, <1>3, <2>1, <2>3 DEF RepeatsOf, Same
    <3>2. CASE Len(f) = Len(q) + 1 /\ (Len(q) > 0 => ~RepeatsOf(r, q[Len(q)]))
      <4>1. i = Len(q)
        BY <1>2, <1>3, <2>3, <3>2
      <4>2. QED
        BY <2>1, <3>1, <3>2, <4>1
    <3>3. CASE Len(f) = Len(q) /\ Len(q) > 0 /\ RepeatsOf(r, q[Len(q)])
      <4>1. RepeatsOf(q[j], q[i])
        BY <2>3, <3>1, <3>3 DEF RepeatsOf
      <4>2. j \in 1 .. Len(q)
        BY <1>3, <3>3
      <4>3. QED
        BY <1>3, <2>1, <4>1, <4>2 DEF Merged
    <3>4. QED
      BY <1>1, <3>2, <3>3
  <2>4. QED
    BY <2>2, <2>3
<1>4. ASSUME Ascending(q), \A i \in 1 .. Len(q) : q[i].latest < r.latest
      PROVE  Ascending(f) /\ f[Len(f)].latest = r.latest
  <2>0. r.latest \in Nat /\ \A i \in 1 .. Len(q) : q[i].latest \in Nat
    <3>1. \A i \in 1 .. Len(q) : q[i] \in Event
      OBVIOUS
    <3>2. QED
      BY <3>1 DEF Event
  <2>1. f[Len(f)].latest = r.latest
    <3>1. CASE f[Len(f)] = r
      BY <3>1
    <3>2. CASE /\ Len(f) = Len(q) /\ Len(q) > 0
               /\ f[Len(f)].latest = IF q[Len(q)].latest <= r.latest THEN r.latest
                                     ELSE q[Len(q)].latest
      <4>1. q[Len(q)].latest < r.latest /\ q[Len(q)].latest \in Nat
        BY <1>2, <1>4, <2>0, <3>2
      <4>2. QED
        BY <2>0, <3>2, <4>1
    <3>3. QED
      BY <1>1, <3>1, <3>2
  <2>2. ASSUME NEW i \in 1 .. Len(f), NEW j \in 1 .. Len(f), i < j
        PROVE  f[i].latest < f[j].latest
    <3>1. i \in 1 .. Len(q) /\ f[i] = q[i]
      BY <1>1, <2>2
    <3>2. CASE j = Len(f)
      BY <1>4, <2>1, <3>1, <3>2
    <3>3. CASE j # Len(f)
      BY <1>1, <1>4, <2>2, <3>1, <3>3 DEF Ascending
    <3>4. QED
      BY <3>2, <3>3
  <2>3. QED
    BY <2>1, <2>2 DEF Ascending
<1>5. QED
  BY <1>3, <1>4 DEF Merged, f

\* The newest n records are the last ones.
LEMMA Newest ==
  ASSUME NEW q \in Seq(Event), NEW n \in Nat \ {0}
  PROVE  LET r == newest(q, n)
         IN  /\ r \in Seq(Event)
             /\ \E d \in Nat : /\ Len(r) = Len(q) - d /\ \A k \in 1 .. Len(r) : r[k] = q[k + d]
                               /\ IF Len(q) <= n THEN d = 0 ELSE Len(r) = n
<1>0. Len(q) \in Nat
  OBVIOUS
<1>1. CASE Len(q) <= n
  <2>1. newest(q, n) = q
    BY <1>0, <1>1 DEF newest
  <2>2. QED
    BY <1>0, <1>1, <2>1
<1>2. CASE Len(q) > n
  <2> DEFINE r == SubSeq(q, Len(q) - n + 1, Len(q))
  <2>1. newest(q, n) = r
    BY <1>0, <1>2 DEF newest
  <2>2. /\ r \in Seq(Event) /\ Len(r) = n
        /\ \A k \in 1 .. n : r[k] = q[k + (Len(q) - n)]
    BY <1>0, <1>2
  <2> HIDE DEF r
  <2>3. Len(q) - n \in Nat /\ Len(r) = Len(q) - (Len(q) - n) /\ ~(Len(q) <= n)
    BY <1>0, <1>2, <2>2
  <2>4. QED
    BY <2>1, <2>2, <2>3
<1>3. QED
  BY <1>0, <1>1, <1>2

\* What trimming keeps.
LEMMA NewestKeeps ==
  ASSUME NEW q \in Seq(Event), NEW n \in Nat \ {0}
  PROVE  LET r == newest(q, n)
         IN  /\ r \in Seq(Event) /\ Len(r) <= n /\ Len(r) <= Len(q)
             /\ \A k \in 1 .. Len(r) : r[k] \in ToSet(q)
             /\ Ascending(q) => Ascending(r)
             /\ Merged(q) => Merged(r)
             /\ Len(q) > 0 => Len(r) > 0 /\ r[Len(r)] = q[Len(q)]
<1> DEFINE r == newest(q, n)
<1>1. r \in Seq(Event)
  BY Newest, Zenon
<1>2. PICK d \in Nat : /\ Len(r) = Len(q) - d /\ \A k \in 1 .. Len(r) : r[k] = q[k + d]
                       /\ IF Len(q) <= n THEN d = 0 ELSE Len(r) = n
  BY Newest, Zenon
<1> HIDE DEF r
<1>3. Len(q) \in Nat /\ Len(r) \in Nat
  BY <1>1
<1>4. Len(r) <= n /\ Len(r) <= Len(q) /\ (Len(q) > 0 => Len(r) > 0)
  BY <1>2, <1>3
<1>5. \A k \in 1 .. Len(r) : k + d \in 1 .. Len(q) /\ r[k] = q[k + d]
  BY <1>2, <1>3
<1>6. \A k \in 1 .. Len(r) : r[k] \in ToSet(q)
  BY <1>5, Elems
<1>7. ASSUME Ascending(q), NEW i \in 1 .. Len(r), NEW j \in 1 .. Len(r), i < j
      PROVE  r[i].latest < r[j].latest
  <2>1. i + d < j + d
    BY <1>2, <1>7
  <2>2. QED
    BY <1>5, <1>7, <2>1 DEF Ascending
<1>8. ASSUME Merged(q), NEW i \in 1 .. Len(r), NEW j \in 1 .. Len(r), j = i + 1
      PROVE  ~RepeatsOf(r[j], r[i])
  <2>1. j + d = (i + d) + 1
    BY <1>2, <1>8
  <2>2. QED
    BY <1>5, <1>8, <2>1 DEF Merged
<1>9. ASSUME Len(q) > 0
      PROVE  r[Len(r)] = q[Len(q)]
  <2>1. Len(r) \in 1 .. Len(r) /\ Len(r) + d = Len(q)
    BY <1>2, <1>3, <1>4, <1>9
  <2>2. QED
    BY <1>5, <2>1
<1>10. QED
  BY <1>1, <1>4, <1>6, <1>7, <1>8, <1>9 DEF Ascending, Merged, r

\* Trimming before an append takes nothing that trimming after it keeps.
LEMMA NewestAppend ==
  ASSUME NEW q \in Seq(Event), NEW x \in Event, NEW n \in Nat \ {0}
  PROVE  newest(Append(q, x), n) = newest(Append(newest(q, n), x), n)
<1> DEFINE p == newest(q, n)
           a == Append(q, x)
           b == Append(p, x)
           r == newest(a, n)
           s == newest(b, n)
<1>1. p \in Seq(Event)
  BY Newest, Zenon
<1>2. PICK d \in Nat : /\ Len(p) = Len(q) - d /\ \A k \in 1 .. Len(p) : p[k] = q[k + d]
                       /\ IF Len(q) <= n THEN d = 0 ELSE Len(p) = n
  BY Newest, Zenon
<1> HIDE DEF p
<1>3. /\ a \in Seq(Event) /\ b \in Seq(Event) /\ Len(q) \in Nat /\ Len(p) \in Nat
      /\ Len(a) = Len(q) + 1 /\ Len(b) = Len(p) + 1 /\ a[Len(q) + 1] = x /\ b[Len(p) + 1] = x
      /\ \A k \in 1 .. Len(q) : a[k] = q[k]
      /\ \A k \in 1 .. Len(p) : b[k] = p[k]
  BY <1>1
<1> HIDE DEF a, b
<1>4. r \in Seq(Event) /\ s \in Seq(Event)
  BY <1>3, Newest, Zenon
<1>5. PICK c \in Nat : /\ Len(r) = Len(a) - c /\ \A k \in 1 .. Len(r) : r[k] = a[k + c]
                       /\ IF Len(a) <= n THEN c = 0 ELSE Len(r) = n
  BY <1>3, Newest, Zenon
<1>6. PICK e \in Nat : /\ Len(s) = Len(b) - e /\ \A k \in 1 .. Len(s) : s[k] = b[k + e]
                       /\ IF Len(b) <= n THEN e = 0 ELSE Len(s) = n
  BY <1>3, Newest, Zenon
<1> HIDE DEF r, s
<1>7. Len(r) \in Nat /\ Len(s) \in Nat
  BY <1>4
<1>8. Len(r) = Len(s) /\ c = e + d
  <2>1. /\ Len(p) = Len(q) - d /\ (IF Len(q) <= n THEN d = 0 ELSE Len(p) = n)
        /\ Len(r) = Len(q) + 1 - c /\ (IF Len(q) + 1 <= n THEN c = 0 ELSE Len(r) = n)
        /\ Len(s) = Len(p) + 1 - e /\ (IF Len(p) + 1 <= n THEN e = 0 ELSE Len(s) = n)
    BY <1>2, <1>3, <1>5, <1>6
  <2>2. CASE Len(q) + 1 <= n
    <3>1. d = 0 /\ c = 0
      BY <1>3, <2>1, <2>2
    <3>2. e = 0
      BY <1>3, <2>1, <2>2, <3>1
    <3>3. QED
      BY <1>3, <1>7, <2>1, <3>1, <3>2
  <2>3. CASE Len(q) = n
    <3>1. d = 0 /\ Len(p) = n /\ Len(r) = n
      BY <1>3, <2>1, <2>3
    <3>2. Len(s) = n
      BY <1>3, <2>1, <3>1
    <3>3. QED
      BY <1>3, <1>7, <2>1, <2>3, <3>1, <3>2
  <2>4. CASE Len(q) > n
    <3>1. Len(p) = n /\ Len(r) = n
      BY <1>3, <2>1, <2>4
    <3>2. Len(s) = n
      BY <1>3, <2>1, <3>1
    <3>3. n = Len(q) - d /\ n = Len(q) + 1 - c /\ n = n + 1 - e
      BY <2>1, <3>1, <3>2
    <3>4. c = e + d
      BY <1>3, <3>3
    <3>5. QED
      BY <3>1, <3>2, <3>4
  <2>5. QED
    BY <1>3, <2>2, <2>3, <2>4
<1>9. ASSUME NEW k \in 1 .. Len(r)
      PROVE  r[k] = s[k]
  <2>1. r[k] = a[k + c] /\ s[k] = b[k + e] /\ k + c \in 1 .. Len(q) + 1 /\ k + c = (k + e) + d
    BY <1>3, <1>5, <1>6, <1>7, <1>8
  <2>2. CASE k + c = Len(q) + 1
    <3>1. k + e = Len(p) + 1
      <4>1. Len(p) = Len(q) - d /\ k \in Int /\ k + c = (k + e) + d
        BY <1>2, <2>1
      <4>2. QED
        BY <1>3, <2>2, <4>1
    <3>2. QED
      BY <1>3, <2>1, <2>2, <3>1
  <2>3. CASE k + c # Len(q) + 1
    <3>1. k + c \in 1 .. Len(q) /\ k + e \in 1 .. Len(p)
      BY <1>2, <1>3, <1>6, <2>1, <2>3
    <3>2. QED
      BY <1>2, <1>3, <2>1, <3>1
  <2>4. QED
    BY <2>2, <2>3
<1>10. r = s
  BY <1>4, <1>8, <1>9, SeqEqual
<1>11. QED
  BY <1>10 DEF r, s, a, b, p

-----------------------------------------------------------------------------
(* The lines of a stack                                                     *)

\* The values of the recursive function of `collapseRuns`.
RunsUpTo(file, s, n, f) ==
    f = [k \in 0 .. n |-> IF k = 0 THEN <<>>
                          ELSE IF file[k].stack = s THEN fold(f[k - 1], file[k]) ELSE f[k - 1]]

\* The recursive function of `collapseRuns` exists.
LEMMA RunsExist ==
  ASSUME NEW file, NEW s, Len(file) \in Nat
  PROVE  \E f : RunsUpTo(file, s, Len(file), f)
<1> DEFINE Bad == {n \in Nat : ~\E f : RunsUpTo(file, s, n, f)}
<1>1. ASSUME NEW n \in Bad, \A m \in Nat : m < n => m \notin Bad
      PROVE  FALSE
  <2>1. CASE n = 0
    <3>1. RunsUpTo(file, s, 0, [k \in 0 .. 0 |-> <<>>])
      BY DEF RunsUpTo
    <3>2. QED
      BY <2>1, <3>1
  <2>2. CASE n # 0
    <3>1. PICK g : RunsUpTo(file, s, n - 1, g)
      BY <1>1, <2>2
    <3> DEFINE last == IF file[n].stack = s THEN fold(g[n - 1], file[n]) ELSE g[n - 1]
               h == [k \in 0 .. n |-> IF k = n THEN last ELSE g[k]]
    <3>2. \A k \in 0 .. n - 1 : h[k] = g[k]
      BY <2>2
    <3>3. \A k \in 0 .. n - 1 : g[k] =
            IF k = 0 THEN <<>> ELSE IF file[k].stack = s THEN fold(g[k - 1], file[k]) ELSE g[k - 1]
      BY <3>1 DEF RunsUpTo
    <3>4. ASSUME NEW k \in 0 .. n
          PROVE  h[k] = IF k = 0 THEN <<>>
                        ELSE IF file[k].stack = s THEN fold(h[k - 1], file[k]) ELSE h[k - 1]
      <4>1. CASE k = n
        BY <2>2, <3>2, <4>1
      <4>2. CASE k # n
        BY <2>2, <3>2, <3>3, <4>2
      <4>3. QED
        BY <4>1, <4>2
    <3>5. RunsUpTo(file, s, n, h)
      BY <3>4, Zenon DEF RunsUpTo
    <3>6. QED
      BY <3>5
  <2>3. QED
    BY <2>1, <2>2
<1>2. Bad = {}
  BY <1>1, LeastNat
<1>3. QED
  BY <1>2

\* Hence these values, one for each prefix of the file.
LEMMA RunsOf ==
  ASSUME NEW file, NEW s, Len(file) \in Nat
  PROVE  \E f : /\ collapseRuns(file, s) = f[Len(file)] /\ f[0] = <<>>
                /\ \A k \in 1 .. Len(file) :
                     f[k] = IF file[k].stack = s THEN fold(f[k - 1], file[k]) ELSE f[k - 1]
<1> DEFINE f == CHOOSE f : RunsUpTo(file, s, Len(file), f)
<1>1. RunsUpTo(file, s, Len(file), f)
  BY RunsExist
<1>2. collapseRuns(file, s) = f[Len(file)]
  BY DEF collapseRuns, RunsUpTo
<1> HIDE DEF f
<1>3. \A k \in 0 .. Len(file) : f[k] =
        IF k = 0 THEN <<>> ELSE IF file[k].stack = s THEN fold(f[k - 1], file[k]) ELSE f[k - 1]
  BY <1>1 DEF RunsUpTo
<1>4. \A k \in 1 .. Len(file) : k \in 0 .. Len(file) /\ k # 0
  OBVIOUS
<1>5. f[0] = <<>>
  BY <1>3
<1>6. QED
  BY <1>2, <1>3, <1>4, <1>5

\* A line more folds into the records of its stack.
LEMMA RunsAppend ==
  ASSUME NEW file \in Seq(Line), NEW l \in Line, NEW s
  PROVE  collapseRuns(Append(file, l), s) =
            IF l.stack = s THEN fold(collapseRuns(file, s), l) ELSE collapseRuns(file, s)
<1> DEFINE q == Append(file, l)
<1>1. /\ Len(file) \in Nat /\ q \in Seq(Line) /\ Len(q) = Len(file) + 1 /\ q[Len(file) + 1] = l
      /\ \A k \in 1 .. Len(file) : q[k] = file[k]
  OBVIOUS
<1> HIDE DEF q
<1>2. PICK f : /\ collapseRuns(file, s) = f[Len(file)] /\ f[0] = <<>>
               /\ \A k \in 1 .. Len(file) :
                    f[k] = IF file[k].stack = s THEN fold(f[k - 1], file[k]) ELSE f[k - 1]
  BY <1>1, RunsOf
<1>3. PICK g : /\ collapseRuns(q, s) = g[Len(q)] /\ g[0] = <<>>
               /\ \A k \in 1 .. Len(q) :
                    g[k] = IF q[k].stack = s THEN fold(g[k - 1], q[k]) ELSE g[k - 1]
  BY <1>1, RunsOf
<1> DEFINE Bad == {n \in 0 .. Len(file) : f[n] # g[n]}
<1>4. ASSUME NEW n \in Bad, \A m \in Nat : m < n => m \notin Bad
      PROVE  FALSE
  <2>1. n # 0 /\ n \in 0 .. Len(file) /\ f[n] # g[n]
    BY <1>2, <1>3, <1>4
  <2>2. n \in 1 .. Len(file) /\ n \in 1 .. Len(q) /\ n - 1 \in Nat /\ n - 1 < n /\ n - 1 \in 0 .. Len(file)
    BY <1>1, <2>1
  <2>3. f[n - 1] = g[n - 1]
    BY <1>4, <2>2
  <2>4. QED
    BY <1>1, <1>2, <1>3, <2>1, <2>2, <2>3
<1>5. Bad = {}
  <2>1. Bad \subseteq Nat
    BY <1>1
  <2> HIDE DEF Bad
  <2>2. QED
    BY <1>4, <2>1, LeastNat
<1>6. f[Len(file)] = g[Len(file)]
  BY <1>1, <1>5
<1>7. Len(q) \in 1 .. Len(q) /\ Len(q) - 1 = Len(file)
  BY <1>1
<1>8. g[Len(q)] = IF l.stack = s THEN fold(g[Len(file)], l) ELSE g[Len(file)]
  BY <1>1, <1>3, <1>7
<1>9. QED
  BY <1>2, <1>3, <1>6, <1>8 DEF q

\* An empty file loads to nothing.
LEMMA RunsOfNone == ASSUME NEW s PROVE collapseRuns(<<>>, s) = <<>>
<1>1. PICK f : collapseRuns(<<>>, s) = f[Len(<<>>)] /\ f[0] = <<>>
  <2>1. Len(<<>>) \in Nat
    OBVIOUS
  <2>2. QED
    BY <2>1, RunsOf
<1>2. QED
  BY <1>1

\* The lines of each stack are in order of time.
LinesAscend(file) ==
    \A i, j \in 1 .. Len(file) :
        i < j /\ file[i] \in Event /\ file[j] \in Event /\ file[i].stack = file[j].stack =>
            file[i].latest < file[j].latest

\* What the first n lines hold of stack s.
FoldedFrom(file, s, n, q) ==
    /\ q \in Seq(Event) /\ Merged(q)
    /\ \A i \in 1 .. Len(q) : q[i].stack = s /\ \E m \in 1 .. n : file[m] \in Event /\ Same(q[i], file[m])
    /\ LinesAscend(file) =>
         /\ Ascending(q)
         /\ \A i \in 1 .. Len(q) : \E m \in 1 .. n :
                file[m] \in Event /\ file[m].stack = s /\ q[i].latest = file[m].latest
         /\ \A m \in 1 .. n : file[m] \in Event /\ file[m].stack = s =>
                Len(q) > 0 /\ file[m].latest <= q[Len(q)].latest

\* One line more keeps what is said of the lines before it.
LEMMA NextFolded ==
  ASSUME NEW file \in Seq(Line), NEW s \in Stack, NEW n \in 1 .. Len(file), NEW q,
         FoldedFrom(file, s, n - 1, q)
  PROVE  FoldedFrom(file, s, n, IF file[n].stack = s THEN fold(q, file[n]) ELSE q)
<1> DEFINE r == file[n]
           f == fold(q, r)
<1>0. /\ Len(file) \in Nat /\ r \in Line /\ q \in Seq(Event) /\ Len(q) \in Nat /\ Merged(q)
      /\ \A m \in 1 .. n - 1 : m \in 1 .. n /\ m < n /\ m \in 1 .. Len(file)
      /\ \A m \in 1 .. n : m = n \/ m \in 1 .. n - 1
      /\ n \in 1 .. n
  BY DEF FoldedFrom
<1>1. CASE r.stack # s
  <2>1. ASSUME LinesAscend(file), NEW m \in 1 .. n, file[m] \in Event, file[m].stack = s
        PROVE  Len(q) > 0 /\ file[m].latest <= q[Len(q)].latest
    <3>1. m \in 1 .. n - 1
      BY <1>0, <1>1, <2>1
    <3>2. QED
      BY <2>1, <3>1 DEF FoldedFrom
  <2>2. FoldedFrom(file, s, n, q)
    BY <1>0, <2>1 DEF FoldedFrom
  <2>3. QED
    BY <1>1, <2>2
<1>2. CASE r.stack = s
  <2>0. r \in Event
    BY <1>0, <1>2, TornIsNone DEF Line
  <2> HIDE DEF r
  <2>1. /\ f \in Seq(Event) /\ Len(f) \in Nat \ {0}
        /\ \A i \in 1 .. Len(f) : i # Len(f) => i \in 1 .. Len(q) /\ f[i] = q[i]
        /\ Same(f[Len(f)], r)
    BY <1>0, <2>0, Folds, Zenon
  <2>2. /\ Merged(f)
        /\ (Ascending(q) /\ \A i \in 1 .. Len(q) : q[i].latest < r.latest) =>
              Ascending(f) /\ f[Len(f)].latest = r.latest
    BY <1>0, <2>0, FoldKeeps, Zenon
  <2> HIDE DEF f
  <2>3. ASSUME NEW i \in 1 .. Len(f)
        PROVE  f[i].stack = s /\ \E m \in 1 .. n : file[m] \in Event /\ Same(f[i], file[m])
    <3>1. CASE i = Len(f)
      BY <1>0, <1>2, <2>0, <2>1, <3>1 DEF Same, r
    <3>2. CASE i # Len(f)
      BY <1>0, <2>1, <3>2 DEF FoldedFrom
    <3>3. QED
      BY <3>1, <3>2
  <2>4. ASSUME LinesAscend(file)
        PROVE  /\ Ascending(f)
               /\ \A i \in 1 .. Len(f) : \E m \in 1 .. n :
                      file[m] \in Event /\ file[m].stack = s /\ f[i].latest = file[m].latest
               /\ \A m \in 1 .. n : file[m] \in Event /\ file[m].stack = s =>
                      Len(f) > 0 /\ file[m].latest <= f[Len(f)].latest
    <3>1. \A m \in 1 .. n - 1 : file[m] \in Event /\ file[m].stack = s => file[m].latest < r.latest
      BY <1>0, <1>2, <2>0, <2>4 DEF LinesAscend, r
    <3>2. /\ Ascending(q)
          /\ \A i \in 1 .. Len(q) : \E m \in 1 .. n - 1 :
                 file[m] \in Event /\ file[m].stack = s /\ q[i].latest = file[m].latest
      BY <2>4 DEF FoldedFrom
    <3>3. Ascending(f) /\ f[Len(f)].latest = r.latest
      BY <2>2, <3>1, <3>2
    <3>4. ASSUME NEW i \in 1 .. Len(f)
          PROVE  \E m \in 1 .. n : file[m] \in Event /\ file[m].stack = s /\ f[i].latest = file[m].latest
      <4>1. CASE i = Len(f)
        BY <1>0, <1>2, <2>0, <3>3, <4>1 DEF r
      <4>2. CASE i # Len(f)
        BY <1>0, <2>1, <3>2, <4>2
      <4>3. QED
        BY <4>1, <4>2
    <3>5. ASSUME NEW m \in 1 .. n, file[m] \in Event, file[m].stack = s
          PROVE  file[m].latest <= f[Len(f)].latest
      <4>1. r.latest \in Nat /\ file[m].latest \in Nat
        BY <2>0, <3>5 DEF Event
      <4>2. CASE m = n
        BY <3>3, <4>1, <4>2 DEF r
      <4>3. CASE m \in 1 .. n - 1
        BY <3>1, <3>3, <3>5, <4>1, <4>3
      <4>4. QED
        BY <1>0, <4>2, <4>3
    <3>6. QED
      BY <2>1, <3>3, <3>4, <3>5
  <2>5. FoldedFrom(file, s, n, f)
    BY <2>1, <2>2, <2>3, <2>4 DEF FoldedFrom
  <2>6. QED
    BY <1>2, <2>5 DEF r, f
<1>3. QED
  BY <1>1, <1>2

\* Hence it holds of the whole file: there is no least length at which it fails.
LEMMA Folded ==
  ASSUME NEW file \in Seq(Line), NEW s \in Stack
  PROVE  FoldedFrom(file, s, Len(file), collapseRuns(file, s))
<1>0. Len(file) \in Nat
  OBVIOUS
<1>1. PICK f : /\ collapseRuns(file, s) = f[Len(file)] /\ f[0] = <<>>
               /\ \A k \in 1 .. Len(file) :
                    f[k] = IF file[k].stack = s THEN fold(f[k - 1], file[k]) ELSE f[k - 1]
  BY <1>0, RunsOf
<1> DEFINE Bad == {n \in 0 .. Len(file) : ~FoldedFrom(file, s, n, f[n])}
<1>2. ASSUME NEW n \in Bad, \A m \in Nat : m < n => m \notin Bad
      PROVE  FALSE
  <2>1. CASE n = 0
    <3>1. FoldedFrom(file, s, 0, <<>>)
      BY DEF FoldedFrom, Merged, Ascending
    <3>2. QED
      BY <1>1, <1>2, <2>1, <3>1
  <2>2. CASE n # 0
    <3>1. n \in 1 .. Len(file) /\ n - 1 \in Nat /\ n - 1 < n /\ n - 1 \in 0 .. Len(file)
      BY <1>0, <2>2
    <3>2. FoldedFrom(file, s, n - 1, f[n - 1])
      BY <1>2, <3>1
    <3>3. FoldedFrom(file, s, n, IF file[n].stack = s THEN fold(f[n - 1], file[n]) ELSE f[n - 1])
      BY <3>1, <3>2, NextFolded
    <3>4. QED
      BY <1>1, <1>2, <3>1, <3>3
  <2>3. QED
    BY <2>1, <2>2
<1>3. Bad \subseteq Nat
  BY <1>0
<1>4. Bad = {}
  <2> HIDE DEF Bad
  <2> QED
    BY <1>2, <1>3, LeastNat
<1>5. QED
  BY <1>0, <1>1, <1>4

-----------------------------------------------------------------------------
(* The file is rewritten                                                    *)

\* The elements of a sequence are finitely many.
LEMMA FiniteElems ==
  ASSUME NEW q \in Seq(Event)
  PROVE  IsFiniteSet(ToSet(q))
<1> DEFINE f == [i \in 1 .. Len(q) |-> q[i]]
<1>1. ToSet(q) = {q[i] : i \in 1 .. Len(q)} /\ Len(q) \in Nat
  BY Elems
<1>2. f \in Surjection(1 .. Len(q), ToSet(q))
  BY <1>1 DEF Surjection
<1>3. IsFiniteSet(1 .. Len(q))
  BY <1>1, FS_Interval
<1>4. QED
  BY <1>2, <1>3, FS_Surjection

\* And so are the records of one time.
LEMMA FiniteRecords ==
  ASSUME NEW recs \in [Stack -> Seq(Event)], NEW t
  PROVE  IsFiniteSet(recordsAt(recs, t))
<1> DEFINE S == {ToSet(recs[s]) : s \in Stack}
           f == [s \in Stack |-> ToSet(recs[s])]
<1>1. f \in Surjection(Stack, S)
  BY DEF Surjection
<1>2. IsFiniteSet(S)
  BY <1>1, PipelineAssumption, FS_Surjection
<1>3. \A x \in S : IsFiniteSet(x)
  BY FiniteElems
<1> HIDE DEF S
<1>4. IsFiniteSet(UNION S)
  BY <1>2, <1>3, FS_UNION
<1>5. recordsAt(recs, t) \in SUBSET UNION S
  BY DEF recordsAt, S
<1>6. QED
  BY <1>4, <1>5, FS_Subset

\* A finite set as a sequence.
LEMMA Listed ==
  ASSUME NEW S, IsFiniteSet(S)
  PROVE  /\ SetToSeq(S) \in Seq(S)
         /\ S = {} => SetToSeq(S) = <<>>
         /\ \A x : S = {x} => SetToSeq(S) = <<x>>
<1> DEFINE n == Cardinality(S)
           f == SetToSeq(S)
<1>1. n \in Nat /\ ExistsBijection(1 .. n, S)
  BY FS_CardinalityType
<1>2. \E g \in [1 .. n -> S] : IsInjective(g)
  BY <1>1 DEF ExistsBijection, Bijection, Injection, IsInjective
<1>3. f \in [1 .. n -> S]
  BY <1>2, Zenon DEF SetToSeq
<1> HIDE DEF f
<1>4. f \in Seq(S) /\ Len(f) = n
  BY <1>1, <1>3
<1>5. ASSUME S = {}
      PROVE  f = <<>>
  BY <1>4, <1>5, FS_EmptySet
<1>6. ASSUME NEW x, S = {x}
      PROVE  f = <<x>>
  <2>1. n = 1
    BY <1>6, FS_Singleton
  <2>2. f[1] = x
    BY <1>3, <1>6, <2>1
  <2> HIDE DEF n
  <2>3. f \in Seq({x}) /\ <<x>> \in Seq({x}) /\ Len(f) = Len(<<x>>) /\ \A i \in 1 .. Len(f) : f[i] = <<x>>[i]
    BY <1>4, <1>6, <2>1, <2>2
  <2>4. QED
    BY <2>3, SeqEqual
<1>7. QED
  BY <1>4, <1>5, <1>6 DEF f

\* The values of the recursive function of `compacted`.
WrittenUpTo(recs, n, f) ==
    f = [t \in 0 .. n |-> IF t = 0 THEN <<>> ELSE f[t - 1] \o SetToSeq(recordsAt(recs, t))]

\* The recursive function of `compacted` exists.
LEMMA WrittenExists ==
  ASSUME NEW recs, clock \in Nat
  PROVE  \E f : WrittenUpTo(recs, clock, f)
<1> DEFINE Bad == {n \in Nat : ~\E f : WrittenUpTo(recs, n, f)}
<1>1. ASSUME NEW n \in Bad, \A m \in Nat : m < n => m \notin Bad
      PROVE  FALSE
  <2>1. CASE n = 0
    <3>1. WrittenUpTo(recs, 0, [t \in 0 .. 0 |-> <<>>])
      BY DEF WrittenUpTo
    <3>2. QED
      BY <2>1, <3>1
  <2>2. CASE n # 0
    <3>1. PICK g : WrittenUpTo(recs, n - 1, g)
      BY <1>1, <2>2
    <3> DEFINE last == g[n - 1] \o SetToSeq(recordsAt(recs, n))
               h == [t \in 0 .. n |-> IF t = n THEN last ELSE g[t]]
    <3> HIDE DEF last
    <3>2. h[n] = last /\ n - 1 \in 0 .. n - 1 /\ \A t \in 0 .. n - 1 : h[t] = g[t]
      BY <2>2
    <3>3. \A t \in 0 .. n - 1 : g[t] =
            IF t = 0 THEN <<>> ELSE g[t - 1] \o SetToSeq(recordsAt(recs, t))
      BY <3>1 DEF WrittenUpTo
    <3>4. ASSUME NEW t \in 0 .. n
          PROVE  h[t] = IF t = 0 THEN <<>> ELSE h[t - 1] \o SetToSeq(recordsAt(recs, t))
      <4> HIDE DEF h
      <4>1. CASE t = n
        <5>1. h[n - 1] = g[n - 1]
          BY <3>2
        <5>2. QED
          BY <2>2, <3>2, <4>1, <5>1, Zenon DEF last
      <4>2. CASE t # n
        BY <2>2, <3>2, <3>3, <4>2
      <4>3. QED
        BY <4>1, <4>2
    <3>5. WrittenUpTo(recs, n, h)
      BY <3>4, Zenon DEF WrittenUpTo
    <3>6. QED
      BY <3>5
  <2>3. QED
    BY <2>1, <2>2
<1>2. Bad = {}
  BY <1>1, LeastNat
<1>3. QED
  BY <1>2

\* Records that no two goroutines have written out of turn.
InOrder(recs) ==
    /\ \A s \in Stack : Ascending(recs[s]) /\ Merged(recs[s])
    /\ \A s \in Stack : \A i \in 1 .. Len(recs[s]) : recs[s][i].stack = s /\ recs[s][i].latest \in 1 .. clock
    /\ \A s, v \in Stack : \A i \in 1 .. Len(recs[s]), j \in 1 .. Len(recs[v]) :
            recs[s][i].latest = recs[v][j].latest => s = v

\* The records of a stack up to time t are the first n of it.
FirstOf(recs, s, t, n) ==
    /\ n \in 0 .. Len(recs[s])
    /\ \A i \in 1 .. Len(recs[s]) : i <= n <=> recs[s][i].latest <= t

\* What is written of the records up to time t.
WrittenTo(recs, t, w) ==
    /\ w \in Seq(Event)
    /\ \A i \in 1 .. Len(w) : \E s \in Stack : w[i] \in ToSet(recs[s])
    /\ InOrder(recs) =>
         /\ LinesAscend(w) /\ \A i \in 1 .. Len(w) : w[i].latest <= t
         /\ \A s \in Stack : \E n \in Nat :
                /\ FirstOf(recs, s, t, n) /\ Len(collapseRuns(w, s)) = n
                /\ \A i \in 1 .. n : collapseRuns(w, s)[i] = recs[s][i]

\* At a time without records nothing is written.
LEMMA WriteNone ==
  ASSUME NEW recs \in [Stack -> Seq(Event)], NEW t \in Nat \ {0}, InOrder(recs), NEW s \in Stack,
         \A i \in 1 .. Len(recs[s]) : recs[s][i].latest # t, NEW n, FirstOf(recs, s, t - 1, n)
  PROVE  FirstOf(recs, s, t, n)
<1>1. \A i \in 1 .. Len(recs[s]) : recs[s][i].latest \in Nat
  BY DEF InOrder
<1>2. \A i \in 1 .. Len(recs[s]) : recs[s][i].latest <= t - 1 <=> recs[s][i].latest <= t
  BY <1>1
<1>3. QED
  BY <1>2 DEF FirstOf

\* The record of a time is the next of its stack.
LEMMA WriteOne ==
  ASSUME NEW recs \in [Stack -> Seq(Event)], NEW t \in Nat \ {0}, InOrder(recs), NEW s \in Stack,
         NEW i \in 1 .. Len(recs[s]), recs[s][i].latest = t, NEW n \in Nat, FirstOf(recs, s, t - 1, n)
  PROVE  i = n + 1 /\ FirstOf(recs, s, t, n + 1)
<1>0. /\ Len(recs[s]) \in Nat /\ \A j \in 1 .. Len(recs[s]) : recs[s][j].latest \in Nat
      /\ \A j, k \in 1 .. Len(recs[s]) : j < k => recs[s][j].latest < recs[s][k].latest
  BY DEF InOrder, Ascending
<1>1. n \in 0 .. Len(recs[s]) /\ \A j \in 1 .. Len(recs[s]) : j <= n <=> recs[s][j].latest <= t - 1
  BY DEF FirstOf
<1>2. ~(i <= n)
  BY <1>1
<1>3. n + 1 \in 1 .. Len(recs[s]) /\ n + 1 <= i
  BY <1>0, <1>1, <1>2
<1>4. ~(recs[s][n + 1].latest <= t - 1)
  BY <1>1, <1>3
<1>5. i = n + 1
  <2>1. ~(recs[s][n + 1].latest < t)
    BY <1>0, <1>3, <1>4
  <2>2. ~(n + 1 < i)
    BY <1>0, <1>3, <2>1
  <2>3. QED
    BY <1>3, <2>2
<1>6. ASSUME NEW j \in 1 .. Len(recs[s])
      PROVE  j <= n + 1 <=> recs[s][j].latest <= t
  <2>1. CASE j <= n
    BY <1>0, <1>1, <2>1
  <2>2. CASE j = n + 1
    BY <1>0, <1>5, <2>2
  <2>3. CASE n + 1 < j
    <3>1. t < recs[s][j].latest
      BY <1>0, <1>5, <2>3
    <3>2. QED
      BY <1>0, <2>3, <3>1
  <2>4. QED
    BY <2>1, <2>2, <2>3
<1>7. QED
  BY <1>3, <1>5, <1>6 DEF FirstOf

\* The records of one time more.
LEMMA NextWritten ==
  ASSUME NEW recs \in [Stack -> Seq(Event)], NEW t \in 1 .. clock, clock \in Nat, NEW w,
         WrittenTo(recs, t - 1, w)
  PROVE  WrittenTo(recs, t, w \o SetToSeq(recordsAt(recs, t)))
<1> DEFINE A == recordsAt(recs, t)
           v == SetToSeq(A)
           x == w \o v
<1>1. A = {r \in UNION {ToSet(recs[s]) : s \in Stack} : r.latest = t}
  BY DEF recordsAt
<1>2. \A r \in A : r \in Event /\ r.latest = t /\ \E s \in Stack : r \in ToSet(recs[s])
  <2>1. \A s \in Stack : ToSet(recs[s]) \subseteq Event
    BY Elems
  <2>2. QED
    BY <1>1, <2>1
<1>3. /\ v \in Seq(A) /\ (A = {} => v = <<>>) /\ \A r : A = {r} => v = <<r>>
  <2>1. IsFiniteSet(A)
    BY FiniteRecords
  <2> HIDE DEF A
  <2>2. QED
    BY <2>1, Listed
<1>4. w \in Seq(Event) /\ Len(w) \in Nat /\ \A i \in 1 .. Len(w) : \E s \in Stack : w[i] \in ToSet(recs[s])
  BY DEF WrittenTo
<1> HIDE DEF A, v
<1>5. v \in Seq(Event) /\ Len(v) \in Nat /\ \A i \in 1 .. Len(v) : v[i] \in A
  BY <1>2, <1>3
<1>6. /\ x \in Seq(Event) /\ Len(x) = Len(w) + Len(v)
      /\ \A i \in 1 .. Len(w) + Len(v) : x[i] = IF i <= Len(w) THEN w[i] ELSE v[i - Len(w)]
  BY <1>4, <1>5, ConcatProperties
<1>7. ASSUME NEW i \in 1 .. Len(x)
      PROVE  \E s \in Stack : x[i] \in ToSet(recs[s])
  <2>1. CASE i <= Len(w)
    BY <1>4, <1>5, <1>6, <2>1
  <2>2. CASE ~(i <= Len(w))
    <3>1. x[i] = v[i - Len(w)] /\ i - Len(w) \in 1 .. Len(v)
      BY <1>4, <1>5, <1>6, <2>2
    <3>2. QED
      BY <1>2, <1>5, <3>1
  <2>3. QED
    BY <2>1, <2>2
<1>8. ASSUME InOrder(recs)
      PROVE  /\ LinesAscend(x) /\ \A i \in 1 .. Len(x) : x[i].latest <= t
             /\ \A s \in Stack : \E n \in Nat :
                    /\ FirstOf(recs, s, t, n) /\ Len(collapseRuns(x, s)) = n
                    /\ \A i \in 1 .. n : collapseRuns(x, s)[i] = recs[s][i]
  <2>1. /\ LinesAscend(w) /\ \A i \in 1 .. Len(w) : w[i].latest <= t - 1
        /\ \A s \in Stack : \E n \in Nat :
               /\ FirstOf(recs, s, t - 1, n) /\ Len(collapseRuns(w, s)) = n
               /\ \A i \in 1 .. n : collapseRuns(w, s)[i] = recs[s][i]
    BY <1>8 DEF WrittenTo
  <2>2. \A i \in 1 .. Len(w) : w[i].latest \in Nat /\ w[i].latest < t /\ w[i].latest <= t
    <3>1. \A i \in 1 .. Len(w) : w[i] \in Event
      BY <1>4
    <3>2. QED
      BY <2>1, <3>1 DEF Event
  <2>3. \A s \in Stack : ToSet(recs[s]) = {recs[s][i] : i \in 1 .. Len(recs[s])} /\ Len(recs[s]) \in Nat
    BY Elems
  <2>4. CASE A = {}
    <3>1. x = w
      BY <1>3, <1>4, <2>4, ConcatEmptySeq
    <3>2. ASSUME NEW s \in Stack, NEW i \in 1 .. Len(recs[s])
          PROVE  recs[s][i].latest # t
      BY <1>1, <2>3, <2>4, <3>2 DEF A
    <3> HIDE DEF x
    <3>3. \A s \in Stack : \A n \in Nat : FirstOf(recs, s, t - 1, n) => FirstOf(recs, s, t, n)
      BY <1>8, <3>2, WriteNone
    <3>4. QED
      BY <2>1, <2>2, <3>1, <3>3
  <2>5. CASE A # {}
    <3>1. PICK r \in A : TRUE
      BY <2>5
    <3>2. PICK u \in Stack : r \in ToSet(recs[u])
      BY <1>2
    <3>3. PICK k \in 1 .. Len(recs[u]) : r = recs[u][k]
      BY <2>3, <3>2
    <3>4. r \in Event /\ r.latest = t /\ r.stack = u
      BY <1>2, <1>8, <3>3 DEF InOrder
    <3>5. ASSUME NEW y \in A
          PROVE  y = r
      <4>1. PICK z \in Stack : y \in ToSet(recs[z])
        BY <1>2
      <4>2. PICK l \in 1 .. Len(recs[z]) : y = recs[z][l]
        BY <2>3, <4>1
      <4>3. y.latest = t
        BY <1>2
      <4>4. z = u
        BY <1>8, <3>3, <3>4, <4>2, <4>3 DEF InOrder
      <4>5. l = k
        <5>1. ~(l < k) /\ ~(k < l)
          BY <1>8, <3>3, <3>4, <4>2, <4>3, <4>4 DEF InOrder, Ascending
        <5>2. QED
          BY <2>3, <4>4, <5>1
      <4>6. QED
        BY <3>3, <4>2, <4>4, <4>5
    <3>6. A = {r}
      BY <3>5
    <3>7. v = <<r>>
      BY <1>3, <3>6
    <3>8. Len(v) = 1 /\ v[1] = r
      BY <3>7
    <3>9. /\ Len(x) = Len(w) + 1 /\ x[Len(w) + 1] = r
          /\ \A i \in 1 .. Len(w) : x[i] = w[i]
      BY <1>4, <1>6, <3>8
    <3>10. x = Append(w, r)
      <4> HIDE DEF x
      <4>1. Append(w, r) \in Seq(Event) /\ Len(Append(w, r)) = Len(w) + 1
            /\ Append(w, r)[Len(w) + 1] = r /\ \A i \in 1 .. Len(w) : Append(w, r)[i] = w[i]
        BY <1>4, <3>4
      <4> DEFINE a == Append(w, r)
      <4> HIDE DEF a
      <4>2. \A i \in 1 .. Len(x) : i = Len(w) + 1 \/ i \in 1 .. Len(w)
        BY <1>4, <3>9
      <4>3. a \in Seq(Event) /\ Len(x) = Len(a) /\ \A i \in 1 .. Len(x) : x[i] = a[i]
        BY <3>9, <4>1, <4>2 DEF a
      <4>4. x = a
        BY <1>6, <4>3, SeqEqual
      <4>5. QED
        BY <4>4 DEF a
    <3> HIDE DEF x
    <3>11. \A i \in 1 .. Len(x) : i = Len(w) + 1 \/ i \in 1 .. Len(w)
      BY <1>4, <3>9
    <3>12. \A i \in 1 .. Len(x) : x[i].latest <= t
      BY <2>2, <3>4, <3>9, <3>11
    <3>13. ASSUME NEW i \in 1 .. Len(x), NEW j \in 1 .. Len(x), i < j, x[i].stack = x[j].stack
           PROVE  x[i].latest < x[j].latest
      <4>1. i \in 1 .. Len(w)
        BY <1>4, <3>9, <3>11, <3>13
      <4>2. CASE j \in 1 .. Len(w)
        <5>1. w[i] \in Event /\ w[j] \in Event
          BY <1>4, <4>1, <4>2
        <5>2. QED
          BY <2>1, <3>9, <3>13, <4>1, <4>2, <5>1 DEF LinesAscend
      <4>3. CASE j = Len(w) + 1
        BY <2>2, <3>4, <3>9, <4>1, <4>3
      <4>4. QED
        BY <3>11, <4>2, <4>3
    <3>14. ASSUME NEW s \in Stack
           PROVE  \E n \in Nat :
                    /\ FirstOf(recs, s, t, n) /\ Len(collapseRuns(x, s)) = n
                    /\ \A i \in 1 .. n : collapseRuns(x, s)[i] = recs[s][i]
      <4> DEFINE q == collapseRuns(w, s)
                 p == collapseRuns(x, s)
      <4>1. PICK n \in Nat : /\ FirstOf(recs, s, t - 1, n) /\ Len(q) = n
                             /\ \A i \in 1 .. n : q[i] = recs[s][i]
        BY <2>1
      <4>2. w \in Seq(Line) /\ r \in Line
        BY <1>4, <3>4 DEF Line
      <4>3. q \in Seq(Event) /\ p = IF r.stack = s THEN fold(q, r) ELSE q
        <5>1. q \in Seq(Event)
          BY <4>2, Folded DEF FoldedFrom
        <5>2. QED
          BY <3>10, <4>2, <5>1, RunsAppend
      <4> HIDE DEF p, q
      <4>4. CASE s # u
        <5>1. \A i \in 1 .. Len(recs[s]) : recs[s][i].latest # t
          BY <1>8, <3>3, <3>4, <4>4 DEF InOrder
        <5>2. FirstOf(recs, s, t, n)
          BY <1>8, <4>1, <5>1, WriteNone
        <5>3. p = q
          BY <3>4, <4>3, <4>4
        <5>4. QED
          BY <4>1, <5>2, <5>3 DEF p
      <4>5. CASE s = u
        <5>1. k = n + 1 /\ FirstOf(recs, s, t, n + 1)
          BY <1>8, <3>3, <3>4, <4>1, <4>5, WriteOne
        <5>2. p = fold(q, r)
          BY <3>4, <4>3, <4>5
        <5>3. ASSUME Len(q) > 0
              PROVE  ~RepeatsOf(r, q[Len(q)])
          <6>1. n \in 1 .. Len(recs[u]) /\ n + 1 \in 1 .. Len(recs[u]) /\ q[Len(q)] = recs[u][n]
            BY <2>3, <3>3, <4>1, <4>5, <5>1, <5>3
          <6>2. QED
            BY <1>8, <3>3, <5>1, <6>1 DEF InOrder, Merged
        <5>4. Len(p) = Len(q) + 1 /\ p = Append(q, r)
          <6>1. \/ p = Append(q, r) /\ Len(p) = Len(q) + 1
                \/ Len(q) > 0 /\ RepeatsOf(r, q[Len(q)])
            BY <3>4, <4>3, <5>2, Folds, Zenon
          <6>2. QED
            BY <5>3, <6>1
        <5>5. \A i \in 1 .. n + 1 : p[i] = recs[s][i]
          <6>0. /\ Len(q) \in Nat /\ Append(q, r)[Len(q) + 1] = r
                /\ \A i \in 1 .. Len(q) : Append(q, r)[i] = q[i]
            BY <3>4, <4>3
          <6>1. p[n + 1] = r /\ \A i \in 1 .. n : p[i] = q[i]
            <7>1. Len(q) = n
              BY <4>1 DEF q
            <7>2. QED
              BY <5>4, <6>0, <7>1, Zenon
          <6>2. \A i \in 1 .. n + 1 : i = n + 1 \/ i \in 1 .. n
            OBVIOUS
          <6>3. QED
            BY <3>3, <4>1, <4>5, <5>1, <6>1, <6>2
        <5>6. n + 1 \in Nat /\ Len(p) = n + 1
          BY <4>1, <5>4
        <5>7. QED
          BY <5>1, <5>5, <5>6 DEF p
      <4>6. QED
        BY <4>4, <4>5
    <3>15. QED
      BY <3>12, <3>13, <3>14 DEF LinesAscend
  <2>6. QED
    BY <2>4, <2>5
<1>9. WrittenTo(recs, t, x)
  BY <1>6, <1>7, <1>8 DEF WrittenTo
<1>10. QED
  BY <1>9 DEF v, A

\* The file holds the records, and loads to them if they are in order.
LEMMA Written ==
  ASSUME NEW recs \in [Stack -> Seq(Event)], clock \in Nat
  PROVE  LET w == compacted(recs)
         IN  /\ w \in Seq(Event)
             /\ \A i \in 1 .. Len(w) : \E s \in Stack : w[i] \in ToSet(recs[s])
             /\ InOrder(recs) => LinesAscend(w) /\ \A s \in Stack : collapseRuns(w, s) = recs[s]
<1> DEFINE f == CHOOSE f : WrittenUpTo(recs, clock, f)
           w == compacted(recs)
           Bad == {t \in 0 .. clock : ~WrittenTo(recs, t, f[t])}
<1>1. WrittenUpTo(recs, clock, f)
  BY WrittenExists
<1>2. w = f[clock]
  BY DEF compacted, WrittenUpTo
<1> HIDE DEF f, w
<1>3. \A t \in 0 .. clock : f[t] = IF t = 0 THEN <<>> ELSE f[t - 1] \o SetToSeq(recordsAt(recs, t))
  BY <1>1 DEF WrittenUpTo
<1>4. ASSUME NEW t \in Bad, \A m \in Nat : m < t => m \notin Bad
      PROVE  FALSE
  <2>1. CASE t = 0
    <3>1. f[0] = <<>>
      BY <1>3
    <3>2. WrittenTo(recs, 0, <<>>)
      <4>1. ASSUME InOrder(recs), NEW s \in Stack
            PROVE  FirstOf(recs, s, 0, 0) /\ Len(collapseRuns(<<>>, s)) = 0
        <5>1. Len(recs[s]) \in Nat /\ \A i \in 1 .. Len(recs[s]) : recs[s][i].latest \in 1 .. clock
          BY <4>1 DEF InOrder
        <5>2. \A i \in 1 .. Len(recs[s]) : ~(recs[s][i].latest <= 0)
          BY <5>1
        <5>3. QED
          BY <5>1, <5>2, RunsOfNone DEF FirstOf
      <4>2. LinesAscend(<<>>)
        BY DEF LinesAscend
      <4>3. QED
        BY <4>1, <4>2 DEF WrittenTo
    <3>3. QED
      BY <1>4, <2>1, <3>1, <3>2
  <2>2. CASE t # 0
    <3>1. t \in 1 .. clock /\ t - 1 \in Nat /\ t - 1 < t /\ t - 1 \in 0 .. clock
      BY <2>2
    <3>2. WrittenTo(recs, t - 1, f[t - 1])
      BY <1>4, <3>1
    <3>3. WrittenTo(recs, t, f[t - 1] \o SetToSeq(recordsAt(recs, t)))
      BY <3>1, <3>2, NextWritten
    <3>4. QED
      BY <1>3, <1>4, <2>2, <3>3
  <2>3. QED
    BY <2>1, <2>2
<1>5. Bad = {}
  <2>1. Bad \subseteq Nat
    OBVIOUS
  <2> HIDE DEF Bad
  <2>2. QED
    BY <1>4, <2>1, LeastNat
<1>6. WrittenTo(recs, clock, w)
  BY <1>2, <1>5
<1>7. ASSUME InOrder(recs), NEW s \in Stack
      PROVE  collapseRuns(w, s) = recs[s]
  <2>1. PICK n \in Nat : /\ FirstOf(recs, s, clock, n) /\ Len(collapseRuns(w, s)) = n
                         /\ \A i \in 1 .. n : collapseRuns(w, s)[i] = recs[s][i]
    BY <1>6, <1>7 DEF WrittenTo
  <2>2. Len(recs[s]) \in Nat /\ \A i \in 1 .. Len(recs[s]) : recs[s][i].latest \in 1 .. clock
    BY <1>7 DEF InOrder
  <2>3. n = Len(recs[s])
    <3>1. n \in 0 .. Len(recs[s]) /\ \A i \in 1 .. Len(recs[s]) : i <= n
      BY <2>1, <2>2 DEF FirstOf
    <3>2. QED
      BY <2>2, <3>1
  <2>4. collapseRuns(w, s) \in Seq(Event)
    <3>1. w \in Seq(Line)
      BY <1>6 DEF WrittenTo, Line
    <3>2. QED
      BY <3>1, Folded DEF FoldedFrom
  <2>5. recs[s] \in Seq(Event)
    OBVIOUS
  <2>6. QED
    BY <2>1, <2>3, <2>4, <2>5, SeqEqual
<1>8. QED
  BY <1>6, <1>7 DEF WrittenTo, w

-----------------------------------------------------------------------------
(* The trail: the records and the file                                      *)

\* The records of each stack are in order, without repeats, and no more than the cap.
RecordsOK(recs) ==
    \A s \in Stack :
        /\ Ascending(recs[s]) /\ Merged(recs[s]) /\ Len(recs[s]) <= perStackCap
        /\ \A i \in 1 .. Len(recs[s]) : recs[s][i].stack = s

\* The lines of the file are, too, and none is newer than its stack's last record.
TrailOK(recs, file) ==
    /\ RecordsOK(recs) /\ LinesAscend(file)
    /\ \A m \in 1 .. Len(file) : file[m] \in Event =>
            LET q == recs[file[m].stack] IN Len(q) > 0 /\ file[m].latest <= q[Len(q)].latest

LoadsTo(file, recs) == \A s \in Stack : newest(collapseRuns(file, s), perStackCap) = recs[s]

\* The records with one more.
WithRecord(recs, r, new) ==
    new = [recs EXCEPT ![r.stack] = newest(fold(recs[r.stack], r), perStackCap)]

\* A record more, behind all of its stack.
LEMMA Recorded ==
  ASSUME NEW recs \in [Stack -> Seq(Event)], NEW r \in Event, NEW new, WithRecord(recs, r, new)
  PROVE  /\ new \in [Stack -> Seq(Event)]
         /\ new[r.stack] = newest(fold(recs[r.stack], r), perStackCap)
         /\ \A s \in Stack : s # r.stack => new[s] = recs[s]
         /\ \A x \in ToSet(new[r.stack]) : x \in ToSet(recs[r.stack]) \/ Same(x, r)
         /\ RecordsOK(recs) /\ (\A i \in 1 .. Len(recs[r.stack]) : recs[r.stack][i].latest < r.latest) =>
              /\ RecordsOK(new)
              /\ \A x \in ToSet(new[r.stack]) : x \in ToSet(recs[r.stack]) \/ (Same(x, r) /\ x.latest = r.latest)
              /\ Len(new[r.stack]) > 0 /\ new[r.stack][Len(new[r.stack])].latest = r.latest
<1> DEFINE u == r.stack
           q == recs[u]
           f == fold(q, r)
           p == newest(f, perStackCap)
<1>0. u \in Stack /\ perStackCap \in Nat \ {0}
  BY PipelineAssumption DEF Event
<1>1. q \in Seq(Event)
  BY <1>0
<1> HIDE DEF q
<1>2. /\ f \in Seq(Event) /\ Len(f) \in Nat \ {0}
      /\ \A i \in 1 .. Len(f) : i # Len(f) => i \in 1 .. Len(q) /\ f[i] = q[i]
      /\ Same(f[Len(f)], r)
  BY <1>1, Folds, Zenon
<1>3. /\ Merged(q) => Merged(f)
      /\ (Ascending(q) /\ \A i \in 1 .. Len(q) : q[i].latest < r.latest) =>
            Ascending(f) /\ f[Len(f)].latest = r.latest
  BY <1>1, FoldKeeps, Zenon
<1> HIDE DEF f
<1>4. /\ p \in Seq(Event) /\ Len(p) <= perStackCap /\ Len(p) <= Len(f)
      /\ \A k \in 1 .. Len(p) : p[k] \in ToSet(f)
      /\ Ascending(f) => Ascending(p)
      /\ Merged(f) => Merged(p)
      /\ Len(f) > 0 => Len(p) > 0 /\ p[Len(p)] = f[Len(f)]
  BY <1>0, <1>2, NewestKeeps, Zenon
<1> HIDE DEF p
<1>5. new[u] = p /\ new \in [Stack -> Seq(Event)] /\ \A s \in Stack : s # u => new[s] = recs[s]
  BY <1>0, <1>4 DEF p, f, q, WithRecord
<1>6. ASSUME NEW x \in ToSet(f)
      PROVE  x \in ToSet(q) \/ x = f[Len(f)]
  <2>1. PICK i \in 1 .. Len(f) : x = f[i]
    BY <1>2, Elems
  <2>2. QED
    BY <1>1, <1>2, <2>1, Elems
<1>7. \A x \in ToSet(p) : x \in ToSet(q) \/ x = f[Len(f)]
  <2>1. ToSet(p) = {p[j] : j \in 1 .. Len(p)}
    BY <1>4, Elems
  <2>2. QED
    BY <1>4, <1>6, <2>1
<1>8. \A x \in ToSet(p) : x \in ToSet(q) \/ Same(x, r)
  BY <1>2, <1>7
<1>9. ASSUME RecordsOK(recs), \A i \in 1 .. Len(q) : q[i].latest < r.latest
      PROVE  /\ RecordsOK(new)
             /\ \A x \in ToSet(p) : x \in ToSet(q) \/ (Same(x, r) /\ x.latest = r.latest)
             /\ Len(p) > 0 /\ p[Len(p)].latest = r.latest
  <2>1. Ascending(q) /\ Merged(q) /\ \A i \in 1 .. Len(q) : q[i].stack = u
    BY <1>0, <1>9 DEF RecordsOK, q
  <2>2. Ascending(p) /\ Merged(p) /\ f[Len(f)].latest = r.latest
    BY <1>3, <1>4, <1>9, <2>1
  <2>3. Len(p) > 0 /\ p[Len(p)].latest = r.latest
    BY <1>2, <1>4, <2>2
  <2>4. ASSUME NEW i \in 1 .. Len(p)
        PROVE  p[i].stack = u
    <3>1. p[i] \in ToSet(p)
      BY <1>4, Elems
    <3>2. CASE p[i] \in ToSet(q)
      BY <1>1, <2>1, <3>2, Elems
    <3>3. CASE Same(p[i], r)
      BY <3>3 DEF Same
    <3>4. QED
      BY <1>8, <3>1, <3>2, <3>3
  <2>5. RecordsOK(new)
    <3>1. ASSUME NEW s \in Stack
          PROVE  /\ Ascending(new[s]) /\ Merged(new[s]) /\ Len(new[s]) <= perStackCap
                 /\ \A i \in 1 .. Len(new[s]) : new[s][i].stack = s
      <4>1. CASE s = u
        BY <1>4, <1>5, <2>2, <2>4, <4>1
      <4>2. CASE s # u
        BY <1>5, <1>9, <4>2 DEF RecordsOK
      <4>3. QED
        BY <4>1, <4>2
    <3>2. QED
      BY <3>1 DEF RecordsOK
  <2>6. QED
    BY <1>2, <1>7, <2>2, <2>3, <2>5
<1>10. QED
  BY <1>5, <1>8, <1>9 DEF p, f, q

\* A rewritten file holds the records as they are.
LEMMA Rewritten ==
  ASSUME NEW recs \in [Stack -> Seq(Event)], clock \in Nat, RecordsOK(recs),
         \A s \in Stack : \A x \in ToSet(recs[s]) : x.latest \in 1 .. clock,
         \A s, v \in Stack : \A x \in ToSet(recs[s]), y \in ToSet(recs[v]) :
            x.latest = y.latest => x.stack = y.stack
  PROVE  TrailOK(recs, compacted(recs)) /\ LoadsTo(compacted(recs), recs)
<1> DEFINE w == compacted(recs)
<1>1. \A s \in Stack : ToSet(recs[s]) = {recs[s][i] : i \in 1 .. Len(recs[s])} /\ Len(recs[s]) \in Nat
  BY Elems
<1>2. InOrder(recs)
  <2>1. ASSUME NEW s \in Stack, NEW v \in Stack, NEW i \in 1 .. Len(recs[s]), NEW j \in 1 .. Len(recs[v]),
               recs[s][i].latest = recs[v][j].latest
        PROVE  s = v
    <3>1. recs[s][i] \in ToSet(recs[s]) /\ recs[v][j] \in ToSet(recs[v])
      BY <1>1
    <3>2. QED
      BY <2>1, <3>1 DEF RecordsOK
  <2>2. QED
    BY <1>1, <2>1 DEF InOrder, RecordsOK
<1>3. /\ w \in Seq(Event)
      /\ \A i \in 1 .. Len(w) : \E s \in Stack : w[i] \in ToSet(recs[s])
      /\ LinesAscend(w) /\ \A s \in Stack : collapseRuns(w, s) = recs[s]
  BY <1>2, Written, Zenon
<1> HIDE DEF w
<1>4. ASSUME NEW m \in 1 .. Len(w)
      PROVE  LET q == recs[w[m].stack] IN Len(q) > 0 /\ w[m].latest <= q[Len(q)].latest
  <2>1. PICK s \in Stack : w[m] \in ToSet(recs[s])
    BY <1>3
  <2>2. PICK i \in 1 .. Len(recs[s]) : w[m] = recs[s][i]
    BY <1>1, <2>1
  <2>3. w[m].stack = s /\ Ascending(recs[s])
    BY <2>2 DEF RecordsOK
  <2>4. Len(recs[s]) > 0 /\ Len(recs[s]) \in 1 .. Len(recs[s])
    BY <1>1, <2>2
  <2>5. CASE i = Len(recs[s])
    <3>1. w[m] \in Event
      BY <1>3
    <3>2. w[m].latest \in Nat
      BY <3>1 DEF Event
    <3>3. QED
      BY <2>2, <2>3, <2>4, <2>5, <3>2
  <2>6. CASE i # Len(recs[s])
    <3>1. i < Len(recs[s])
      BY <1>1, <2>6
    <3>2. recs[s][i] \in Event /\ recs[s][Len(recs[s])] \in Event
      BY <2>4
    <3>3. recs[s][i].latest < recs[s][Len(recs[s])].latest
      BY <2>3, <2>4, <3>1 DEF Ascending
    <3>4. recs[s][i].latest \in Nat /\ recs[s][Len(recs[s])].latest \in Nat
      BY <3>2 DEF Event
    <3>5. recs[s][i].latest <= recs[s][Len(recs[s])].latest
      BY <3>3, <3>4
    <3>6. QED
      BY <2>2, <2>3, <2>4, <3>5, Zenon
  <2>7. QED
    BY <2>5, <2>6
<1>5. ASSUME NEW s \in Stack
      PROVE  newest(collapseRuns(w, s), perStackCap) = recs[s]
  <2>1. ~(Len(recs[s]) > perStackCap)
    BY <1>1, PipelineAssumption DEF RecordsOK
  <2>2. QED
    BY <1>3, <2>1 DEF newest
<1>6. QED
  BY <1>3, <1>4, <1>5 DEF TrailOK, LoadsTo, w

\* An appended record is what the file loads to.
LEMMA Appends ==
  ASSUME NEW recs \in [Stack -> Seq(Event)], NEW file \in Seq(Line), NEW r \in Event, NEW new, WithRecord(recs, r, new),
         TrailOK(recs, file), \A i \in 1 .. Len(recs[r.stack]) : recs[r.stack][i].latest < r.latest
  PROVE  /\ TrailOK(new, file) /\ TrailOK(new, appended(file, r))
         /\ LoadsTo(file, recs) /\ ~(recs[r.stack] # <<>> /\ RepeatsOf(r, Last(recs[r.stack]))) =>
                LoadsTo(Append(file, r), new)
<1> DEFINE u == r.stack
<1>0. u \in Stack /\ perStackCap \in Nat \ {0} /\ Len(file) \in Nat
  BY PipelineAssumption DEF Event
<1>1. /\ new \in [Stack -> Seq(Event)]
      /\ new[u] = newest(fold(recs[u], r), perStackCap)
      /\ \A s \in Stack : s # u => new[s] = recs[s]
      /\ RecordsOK(new)
      /\ Len(new[u]) > 0 /\ new[u][Len(new[u])].latest = r.latest
  <2>1. RecordsOK(recs)
    BY DEF TrailOK
  <2>2. /\ new \in [Stack -> Seq(Event)]
        /\ new[r.stack] = newest(fold(recs[r.stack], r), perStackCap)
        /\ \A s \in Stack : s # r.stack => new[s] = recs[s]
    BY Recorded
  <2>3. /\ RecordsOK(new)
        /\ Len(new[r.stack]) > 0 /\ new[r.stack][Len(new[r.stack])].latest = r.latest
    BY <2>1, Recorded
  <2>4. QED
    BY <2>2, <2>3
<1>2. ASSUME NEW l, l \in Event,
             LET q == recs[l.stack] IN Len(q) > 0 /\ l.latest <= q[Len(q)].latest
      PROVE  /\ LET q == new[l.stack] IN Len(q) > 0 /\ l.latest <= q[Len(q)].latest
             /\ l.stack = u => l.latest < r.latest
  <2>1. l.latest \in Nat /\ r.latest \in Nat /\ l.stack \in Stack
    BY <1>2 DEF Event
  <2>2. CASE l.stack = u
    <3>1. Len(recs[u]) \in 1 .. Len(recs[u]) /\ recs[u][Len(recs[u])] \in Event
      BY <1>0, <1>2, <2>2
    <3>2. recs[u][Len(recs[u])].latest < r.latest /\ recs[u][Len(recs[u])].latest \in Nat
      BY <3>1 DEF Event
    <3>3. l.latest < r.latest
      BY <1>2, <2>1, <2>2, <3>2
    <3>4. QED
      BY <1>1, <2>1, <2>2, <3>3
  <2>3. CASE l.stack # u
    BY <1>1, <1>2, <2>1, <2>3
  <2>4. QED
    BY <2>2, <2>3
<1>3. \A m \in 1 .. Len(file) : file[m] \in Event =>
         /\ LET q == new[file[m].stack] IN Len(q) > 0 /\ file[m].latest <= q[Len(q)].latest
         /\ file[m].stack = u => file[m].latest < r.latest
  BY <1>2 DEF TrailOK
<1>4. TrailOK(new, Append(file, r))
  <2> DEFINE a == Append(file, r)
  <2>1. /\ Len(a) = Len(file) + 1 /\ a[Len(file) + 1] = r
        /\ \A m \in 1 .. Len(file) : a[m] = file[m]
        /\ \A m \in 1 .. Len(a) : m \in 1 .. Len(file) \/ m = Len(file) + 1
    BY <1>0
  <2> HIDE DEF a
  <2>2. LinesAscend(a)
    <3>1. ASSUME NEW i \in 1 .. Len(a), NEW j \in 1 .. Len(a), i < j, a[i] \in Event, a[j] \in Event,
                 a[i].stack = a[j].stack
          PROVE  a[i].latest < a[j].latest
      <4>1. i \in 1 .. Len(file)
        BY <1>0, <2>1, <3>1
      <4>2. CASE j \in 1 .. Len(file)
        BY <2>1, <3>1, <4>1, <4>2 DEF TrailOK, LinesAscend
      <4>3. CASE j = Len(file) + 1
        BY <1>3, <2>1, <3>1, <4>1, <4>3
      <4>4. QED
        BY <2>1, <4>2, <4>3
    <3>2. QED
      BY <3>1 DEF LinesAscend
  <2>3. ASSUME NEW m \in 1 .. Len(a), a[m] \in Event
        PROVE  LET q == new[a[m].stack] IN Len(q) > 0 /\ a[m].latest <= q[Len(q)].latest
    <3>1. CASE m \in 1 .. Len(file)
      BY <1>3, <2>1, <2>3, <3>1
    <3>2. CASE m = Len(file) + 1
      <4>1. r.latest \in Nat
        BY DEF Event
      <4>2. QED
        BY <1>1, <2>1, <3>2, <4>1
    <3>3. QED
      BY <2>1, <3>1, <3>2
  <2>4. QED
    BY <1>1, <2>2, <2>3 DEF TrailOK, a
<1>5. ASSUME file # <<>>, Last(file) = Torn
      PROVE  TrailOK(new, appended(file, r))
  <2> DEFINE a == Front(file)
  <2>1. appended(file, r) = a
    BY <1>5 DEF appended
  <2>2. Len(a) \in Nat /\ \A m \in 1 .. Len(a) : m \in 1 .. Len(file) /\ a[m] = file[m]
    BY <1>0, <1>5 DEF Front
  <2> HIDE DEF a
  <2>3. LinesAscend(a)
    BY <2>2 DEF TrailOK, LinesAscend
  <2>4. \A m \in 1 .. Len(a) : a[m] \in Event =>
           LET q == new[a[m].stack] IN Len(q) > 0 /\ a[m].latest <= q[Len(q)].latest
    BY <1>3, <2>2
  <2>5. QED
    BY <1>1, <2>1, <2>3, <2>4 DEF TrailOK
<1>6. ASSUME ~(file # <<>> /\ Last(file) = Torn)
      PROVE  TrailOK(new, appended(file, r))
  <2>1. appended(file, r) = Append(file, r)
    BY <1>6 DEF appended
  <2>2. QED
    BY <1>4, <2>1
<1>7. ASSUME LoadsTo(file, recs), ~(recs[u] # <<>> /\ RepeatsOf(r, Last(recs[u]))), NEW s \in Stack
      PROVE  newest(collapseRuns(Append(file, r), s), perStackCap) = new[s]
  <2> DEFINE c == collapseRuns(file, s)
  <2>1. c \in Seq(Event) /\ newest(c, perStackCap) = recs[s]
    BY <1>7, Folded DEF FoldedFrom, LoadsTo
  <2>2. collapseRuns(Append(file, r), s) = IF u = s THEN fold(c, r) ELSE c
    <3>1. r \in Line
      BY DEF Line
    <3>2. QED
      BY <3>1, RunsAppend
  <2> HIDE DEF c
  <2>3. CASE u # s
    BY <1>1, <2>1, <2>2, <2>3
  <2>4. CASE u = s
    <3>1. fold(recs[s], r) = Append(recs[s], r)
      BY <1>7, <2>4 DEF fold
    <3>2. Len(c) > 0 => Len(recs[s]) > 0 /\ recs[s][Len(recs[s])] = c[Len(c)]
      BY <1>0, <2>1, NewestKeeps
    <3>3. fold(c, r) = Append(c, r)
      <4>1. CASE c = <<>>
        BY <4>1 DEF fold
      <4>2. CASE c # <<>>
        <5>1. Len(c) > 0
          BY <2>1, <4>2
        <5>2. recs[s] # <<>> /\ Last(recs[s]) = Last(c)
          BY <3>2, <5>1 DEF Last
        <5>3. QED
          BY <1>7, <2>4, <5>2 DEF fold
      <4>3. QED
        BY <4>1, <4>2
    <3>4. newest(Append(c, r), perStackCap) = newest(Append(recs[s], r), perStackCap)
      BY <1>0, <2>1, NewestAppend
    <3>5. QED
      BY <1>1, <2>2, <2>4, <3>1, <3>3, <3>4
  <2>5. QED
    BY <2>3, <2>4
<1>8. LoadsTo(file, recs) /\ ~(recs[u] # <<>> /\ RepeatsOf(r, Last(recs[u]))) =>
         LoadsTo(Append(file, r), new)
  BY <1>7 DEF LoadsTo
<1>9. TrailOK(new, file)
  BY <1>1, <1>3 DEF TrailOK
<1>10. QED
  BY <1>5, <1>6, <1>8, <1>9

-----------------------------------------------------------------------------
(* The trail's inductive invariant                                          *)

\* Everything the audit log holds, in memory and on disk.
Logged == (UNION {ToSet(byStack[s]) : s \in Stack}) \cup (ToSet(auditFile) \cap Event)

TrailTypeOK == byStack \in [Stack -> Seq(Event)] /\ auditFile \in Seq(Line)

\* No two emissions have one time: those of one time are of one stack, and those on
\* their way have times of their own.
StampsOK ==
    /\ \A x \in Logged : x.latest \in 1 .. clock
    /\ \A x, y \in Logged : x.latest = y.latest => x.stack = y.stack
    /\ \A g \in Goroutine : at[g] # "done" =>
          /\ emitting[g].latest \in 1 .. clock
          /\ \A x \in Logged : x.latest # emitting[g].latest
          /\ \A h \in Goroutine : at[h] # "done" /\ h # g => emitting[h].latest # emitting[g].latest

AuditInv ==
    /\ TrailTypeOK
    /\ ~disordered =>
         /\ StampsOK /\ TrailOK(byStack, auditFile)
         /\ ~unlogged => LoadsTo(auditFile, byStack)

\* What Logged is.
LEMMA LoggedElems ==
  ASSUME NEW recs \in [Stack -> Seq(Event)], NEW file \in Seq(Line)
  PROVE  /\ (UNION {ToSet(recs[s]) : s \in Stack}) \cup (ToSet(file) \cap Event) \subseteq Event
         /\ \A s \in Stack : ToSet(recs[s]) = {recs[s][i] : i \in 1 .. Len(recs[s])} /\ Len(recs[s]) \in Nat
         /\ ToSet(file) = {file[m] : m \in 1 .. Len(file)} /\ Len(file) \in Nat
<1>1. \A s \in Stack : ToSet(recs[s]) = {recs[s][i] : i \in 1 .. Len(recs[s])} /\ Len(recs[s]) \in Nat
                       /\ ToSet(recs[s]) \subseteq Event
  BY Elems
<1>2. ToSet(file) = {file[m] : m \in 1 .. Len(file)} /\ Len(file) \in Nat
  BY DEF ToSet
<1>3. QED
  BY <1>1, <1>2

\* The log is left alone, and so are the events on their way, up to what the history does.
LEMMA AuditFrame ==
  ASSUME PipelineInv, AuditInv, UNCHANGED <<byStack, auditFile, unlogged, disordered, clock>>,
         \A g \in Goroutine : at'[g] # "done" => at[g] # "done" /\ emitting'[g].latest = emitting[g].latest
  PROVE  AuditInv'
<1>1. TrailTypeOK' /\ Logged' = Logged
  BY DEF AuditInv, TrailTypeOK, Logged
<1>2. ASSUME StampsOK
      PROVE  StampsOK'
  BY <1>1, <1>2 DEF StampsOK
<1>3. /\ TrailOK(byStack, auditFile) => TrailOK(byStack', auditFile')
      /\ LoadsTo(auditFile, byStack) => LoadsTo(auditFile', byStack')
  OBVIOUS
<1>4. QED
  BY <1>1, <1>2, <1>3 DEF AuditInv, TrailOK, LoadsTo, RecordsOK, LinesAscend, Ascending, Merged

\* A new event has a time of its own.
LEMMA AuditEmit ==
  ASSUME PipelineInv, AuditInv, NEW g \in Goroutine, NEW s \in Stack, NEW status \in StatusOf(g),
         Emit(g, s, status)
  PROVE  AuditInv'
<1>1. PipelineTypeOK
  BY DEF PipelineInv
<1>2. PICK e \in Event :
            /\ emitting' = [emitting EXCEPT ![g] = e]
            /\ e.id = nextEventID + 1 /\ e.latest = clock + 1 /\ e.status = status
  BY <1>1, EmittedEvent
<1>3. /\ clock' = clock + 1 /\ at' = [at EXCEPT ![g] = "emitted"]
      /\ UNCHANGED <<byStack, auditFile, unlogged, disordered>>
  BY DEF Emit, auditVars
<1>4. /\ clock \in Nat /\ emitting \in [Goroutine -> Event \cup {None}]
      /\ at \in [Goroutine -> {"done", "emitted", "stored"}]
  BY <1>1 DEF PipelineTypeOK
<1>5. /\ emitting'[g] = e /\ at'[g] = "emitted"
      /\ \A h \in Goroutine : h # g => emitting'[h] = emitting[h] /\ at'[h] = at[h]
  BY <1>2, <1>3, <1>4
<1>6. TrailTypeOK' /\ Logged' = Logged
  BY <1>3 DEF AuditInv, TrailTypeOK, Logged
<1>7. ASSUME StampsOK
      PROVE  StampsOK'
  <2>1. \A x \in Logged : x.latest \in 1 .. clock /\ x.latest \in 1 .. clock' /\ x.latest # clock + 1
    BY <1>3, <1>4, <1>7 DEF StampsOK
  <2>2. ASSUME NEW h \in Goroutine, h # g, at[h] # "done"
        PROVE  emitting[h].latest \in 1 .. clock' /\ emitting[h].latest # clock + 1
    BY <1>3, <1>4, <1>7, <2>2 DEF StampsOK
  <2>3. clock + 1 \in 1 .. clock'
    BY <1>3, <1>4
  <2>4. ASSUME NEW h \in Goroutine, at'[h] # "done"
        PROVE  /\ emitting'[h].latest \in 1 .. clock'
               /\ \A x \in Logged : x.latest # emitting'[h].latest
               /\ \A i \in Goroutine : at'[i] # "done" /\ i # h => emitting'[i].latest # emitting'[h].latest
    <3>1. CASE h = g
      BY <1>2, <1>5, <2>1, <2>2, <2>3, <3>1
    <3>2. CASE h # g
      <4>1. emitting'[h] = emitting[h] /\ at[h] # "done"
        BY <1>5, <2>4, <3>2
      <4>2. \A x \in Logged : x.latest # emitting[h].latest
        BY <1>7, <4>1 DEF StampsOK
      <4>3. ASSUME NEW i \in Goroutine, at'[i] # "done", i # h
            PROVE  emitting'[i].latest # emitting'[h].latest
        <5>1. CASE i = g
          BY <1>2, <1>5, <2>2, <3>2, <4>1, <5>1
        <5>2. CASE i # g
          BY <1>5, <1>7, <4>1, <4>3, <5>2 DEF StampsOK
        <5>3. QED
          BY <5>1, <5>2
      <4>4. QED
        BY <2>2, <3>2, <4>1, <4>2, <4>3
    <3>3. QED
      BY <3>1, <3>2
  <2>5. QED
    BY <1>6, <1>7, <2>1, <2>4 DEF StampsOK
<1>8. /\ TrailOK(byStack, auditFile) => TrailOK(byStack', auditFile')
      /\ LoadsTo(auditFile, byStack) => LoadsTo(auditFile', byStack')
  BY <1>3
<1>9. QED
  BY <1>3, <1>6, <1>7, <1>8 DEF AuditInv, TrailOK, LoadsTo, RecordsOK, LinesAscend, Ascending, Merged

\* What recording an event does to the records and to the file.
LEMMA Records ==
  ASSUME PipelineInv, TrailTypeOK, NEW g \in Goroutine, at[g] = "stored",
         emitting[g].status \in auditableStatuses, Record(emitting[g])
  PROVE  LET r == recordFromEvent(emitting[g])
         IN  /\ emitting[g] \in Event /\ r \in Event
             /\ Same(r, emitting[g]) /\ r.latest = emitting[g].latest
             /\ WithRecord(byStack, r, byStack') /\ TrailTypeOK'
             /\ disordered' =
                  (disordered \/ \E i \in DOMAIN byStack[r.stack] : byStack[r.stack][i].latest > r.latest)
             /\ \/ unlogged' = TRUE /\ auditFile' = auditFile
                \/ auditFile' = compacted(byStack')
                \/ /\ ~(byStack[r.stack] # <<>> /\ RepeatsOf(r, Last(byStack[r.stack])))
                   /\ auditFile' = appended(auditFile, r)
                   /\ unlogged' = (unlogged \/ auditFile' # Append(auditFile, r))
             /\ \A x \in Logged' : x \in Logged \/ x = r \/ x \in ToSet(byStack'[r.stack])
<1> DEFINE e == emitting[g]
           r == recordFromEvent(e)
<1>1. e \in Event /\ clock \in Nat
  BY DEF PipelineInv, PipelineTypeOK
<1>2. /\ r \in Event /\ r.id = e.id /\ r.stack = e.stack /\ r.status = e.status /\ r.latest = e.latest
  <2> HIDE DEF e
  <2> QED
    BY <1>1 DEF recordFromEvent, Event
<1>3. /\ disordered' = (disordered \/ \E i \in DOMAIN byStack[e.stack] : byStack[e.stack][i].latest > r.latest)
      /\ byStack' = [byStack EXCEPT ![e.stack] = newest(fold(byStack[e.stack], r), perStackCap)]
      /\ IF byStack[e.stack] # <<>> /\ RepeatsOf(r, Last(byStack[e.stack])) THEN Compact(byStack')
         ELSE AppendLine(r, byStack')
  <2> HIDE DEF e
  <2> USE DEF e
  <2> QED
    BY Zenon DEF Record
<1> HIDE DEF r
<1> HIDE DEF e
<1>4. byStack \in [Stack -> Seq(Event)] /\ auditFile \in Seq(Line) /\ r \in Line
  BY <1>2 DEF TrailTypeOK, Line
<1>5. WithRecord(byStack, r, byStack')
  BY <1>2, <1>3 DEF WithRecord
<1>6. byStack' \in [Stack -> Seq(Event)] /\ \A s \in Stack : s # r.stack => byStack'[s] = byStack[s]
  BY <1>2, <1>4, <1>5, Recorded
<1>7. \/ unlogged' = TRUE /\ auditFile' = auditFile
      \/ auditFile' = compacted(byStack')
      \/ /\ ~(byStack[r.stack] # <<>> /\ RepeatsOf(r, Last(byStack[r.stack])))
         /\ auditFile' = appended(auditFile, r)
         /\ unlogged' = (unlogged \/ auditFile' # Append(auditFile, r))
  <2>1. CASE Compact(byStack')
    BY <2>1 DEF Compact
  <2>2. CASE ~(byStack[r.stack] # <<>> /\ RepeatsOf(r, Last(byStack[r.stack]))) /\ AppendLine(r, byStack')
    <3>1. CASE Compact(byStack')
      BY <2>1, <3>1
    <3>2. CASE ~Compact(byStack')
      BY <2>2, <3>2 DEF AppendLine
    <3>3. QED
      BY <3>1, <3>2
  <2>3. QED
    BY <1>2, <1>3, <2>1, <2>2
<1>8. auditFile' \in Seq(Line) /\ \A l \in ToSet(auditFile') \cap Event :
          l \in ToSet(auditFile) \/ l = r \/ \E s \in Stack : l \in ToSet(byStack'[s])
  <2>1. CASE auditFile' = auditFile
    BY <1>4, <2>1 DEF ToSet
  <2>2. CASE auditFile' = compacted(byStack')
    <3> DEFINE w == compacted(byStack')
    <3>1. w \in Seq(Event) /\ \A i \in 1 .. Len(w) : \E s \in Stack : w[i] \in ToSet(byStack'[s])
      BY <1>1, <1>6, Written, Zenon
    <3> HIDE DEF w
    <3>2. w \in Seq(Line) /\ ToSet(w) = {w[i] : i \in 1 .. Len(w)}
      BY <3>1, Elems DEF Line
    <3>3. auditFile' = w
      BY <2>2 DEF w
    <3>4. ToSet(auditFile') = ToSet(w)
      BY <3>3, Zenon DEF ToSet
    <3>5. QED
      BY <3>1, <3>2, <3>3, <3>4
  <2>3. CASE auditFile' = appended(auditFile, r)
    <3>1. CASE auditFile' = Append(auditFile, r)
      <4>1. /\ Append(auditFile, r) \in Seq(Line)
            /\ \A i \in DOMAIN Append(auditFile, r) :
                  Append(auditFile, r)[i] = r \/ (i \in DOMAIN auditFile /\ Append(auditFile, r)[i] = auditFile[i])
        BY <1>4
      <4>2. QED
        BY <3>1, <4>1 DEF ToSet
    <3>2. CASE auditFile' = Front(auditFile) /\ auditFile # <<>>
      <4>1. /\ Front(auditFile) \in Seq(Line)
            /\ \A i \in DOMAIN Front(auditFile) : i \in DOMAIN auditFile /\ Front(auditFile)[i] = auditFile[i]
        BY <1>4, <3>2 DEF Front
      <4>2. QED
        BY <3>2, <4>1 DEF ToSet
    <3>3. QED
      BY <2>3, <3>1, <3>2 DEF appended
  <2>4. QED
    BY <1>7, <2>1, <2>2, <2>3
<1>9. ASSUME NEW x \in Logged'
      PROVE  x \in Logged \/ x = r \/ x \in ToSet(byStack'[r.stack])
  <2>1. ASSUME NEW s \in Stack, x \in ToSet(byStack'[s]), s # r.stack
        PROVE  x \in Logged
    <3>1. byStack'[s] = byStack[s]
      BY <1>6, <2>1
    <3>2. QED
      BY <2>1, <3>1 DEF Logged
  <2>2. CASE \E s \in Stack : x \in ToSet(byStack'[s])
    BY <2>1, <2>2
  <2>3. CASE x \in ToSet(auditFile') \cap Event
    <3>1. CASE x \in ToSet(auditFile)
      BY <2>3, <3>1 DEF Logged
    <3>2. QED
      BY <1>8, <2>2, <2>3, <3>1
  <2>4. QED
    BY <2>2, <2>3 DEF Logged
<1>10. TrailTypeOK'
  BY <1>6, <1>8 DEF TrailTypeOK
<1>11. Same(r, e) /\ byStack[e.stack] = byStack[r.stack]
  BY <1>2 DEF Same
<1>12. QED
  BY <1>1, <1>2, <1>3, <1>5, <1>7, <1>9, <1>10, <1>11 DEF r, e

\* A record is appended to what the file loads to, or the file is rewritten.
LEMMA AuditDeliver ==
  ASSUME PipelineInv, AuditInv, NEW g \in Goroutine, Deliver(g)
  PROVE  AuditInv'
<1> DEFINE e == emitting[g]
           r == recordFromEvent(e)
<1>1. /\ at[g] = "stored" /\ at' = [at EXCEPT ![g] = "done"]
      /\ emitting' = [emitting EXCEPT ![g] = None]
      /\ Record(e) /\ UNCHANGED clock
  BY DEF Deliver
<1>2. /\ emitting \in [Goroutine -> Event \cup {None}]
      /\ at \in [Goroutine -> {"done", "emitted", "stored"}]
  BY DEF PipelineInv, PipelineTypeOK
<1>3. /\ at'[g] = "done"
      /\ \A h \in Goroutine : h # g => emitting'[h] = emitting[h] /\ at'[h] = at[h]
  BY <1>1, <1>2
<1>4. CASE e.status \notin auditableStatuses
  <2>1. UNCHANGED <<byStack, auditFile, unlogged, disordered>>
    BY <1>1, <1>4 DEF Record, auditVars
  <2>2. QED
    BY <1>1, <1>3, <2>1, AuditFrame
<1>5. CASE e.status \in auditableStatuses
  <2>1. /\ e \in Event /\ r \in Event /\ Same(r, e) /\ r.latest = e.latest
        /\ WithRecord(byStack, r, byStack') /\ TrailTypeOK'
        /\ disordered' =
             (disordered \/ \E i \in DOMAIN byStack[r.stack] : byStack[r.stack][i].latest > r.latest)
        /\ \/ unlogged' = TRUE /\ auditFile' = auditFile
           \/ auditFile' = compacted(byStack')
           \/ /\ ~(byStack[r.stack] # <<>> /\ RepeatsOf(r, Last(byStack[r.stack])))
              /\ auditFile' = appended(auditFile, r)
              /\ unlogged' = (unlogged \/ auditFile' # Append(auditFile, r))
        /\ \A x \in Logged' : x \in Logged \/ x = r \/ x \in ToSet(byStack'[r.stack])
    BY <1>1, <1>5, Records, Zenon DEF AuditInv
  <2> HIDE DEF r, e
  <2>2. SUFFICES ASSUME ~disordered'
                 PROVE  /\ StampsOK' /\ TrailOK(byStack', auditFile')
                        /\ ~unlogged' => LoadsTo(auditFile', byStack')
    BY <2>1 DEF AuditInv, TrailOK, LoadsTo, RecordsOK, LinesAscend, Ascending, Merged
  <2>3. /\ byStack \in [Stack -> Seq(Event)] /\ auditFile \in Seq(Line)
        /\ byStack' \in [Stack -> Seq(Event)] /\ auditFile' \in Seq(Line)
        /\ StampsOK /\ TrailOK(byStack, auditFile) /\ RecordsOK(byStack)
        /\ ~unlogged => LoadsTo(auditFile, byStack)
        /\ r.stack \in Stack /\ r.latest \in Nat /\ clock \in Nat
    BY <2>1, <2>2 DEF AuditInv, TrailTypeOK, TrailOK, Event, PipelineInv, PipelineTypeOK
  <2>4. /\ r.latest \in 1 .. clock /\ \A x \in Logged : x.latest # r.latest /\ x.latest \in 1 .. clock
        /\ \A h \in Goroutine : at[h] # "done" /\ h # g => emitting[h].latest # r.latest
    BY <1>1, <2>1, <2>3 DEF StampsOK, e
  <2>5. ASSUME NEW i \in 1 .. Len(byStack[r.stack])
        PROVE  byStack[r.stack][i].latest < r.latest
    <3> DEFINE x == byStack[r.stack][i]
    <3>1. x \in ToSet(byStack[r.stack]) /\ i \in DOMAIN byStack[r.stack]
      <4>1. byStack[r.stack] \in Seq(Event)
        BY <2>3
      <4>2. QED
        BY <4>1, Elems
    <3>2. x \in Logged
      BY <2>3, <3>1 DEF Logged
    <3>3. ~(x.latest > r.latest)
      BY <2>1, <2>2, <3>1
    <3> HIDE DEF x
    <3>4. x.latest < r.latest
      BY <2>3, <2>4, <3>2, <3>3
    <3>5. QED
      BY <3>4 DEF x
  <2>6. /\ RecordsOK(byStack')
        /\ \A x \in ToSet(byStack'[r.stack]) :
              x \in ToSet(byStack[r.stack]) \/ (Same(x, r) /\ x.latest = r.latest)
    BY <2>1, <2>3, <2>5, Recorded
  <2>7. ASSUME NEW x \in Logged', x \notin Logged
        PROVE  x.latest = r.latest /\ x.stack = r.stack
    <3>1. CASE x = r
      BY <3>1
    <3>2. CASE x \in ToSet(byStack'[r.stack])
      <4>1. x \notin ToSet(byStack[r.stack])
        BY <2>3, <2>7 DEF Logged
      <4>2. QED
        BY <2>6, <3>2, <4>1 DEF Same
    <3>3. QED
      BY <2>1, <2>7, <3>1, <3>2
  <2>8. /\ \A x \in Logged' : x.latest \in 1 .. clock
        /\ \A x, y \in Logged' : x.latest = y.latest => x.stack = y.stack
    <3>1. \A x, y \in Logged : x.latest = y.latest => x.stack = y.stack
      BY <2>3 DEF StampsOK
    <3>2. QED
      BY <2>4, <2>7, <3>1
  <2>9. StampsOK'
    <3>1. ASSUME NEW h \in Goroutine, at'[h] # "done"
          PROVE  /\ h # g /\ at[h] # "done" /\ emitting'[h] = emitting[h]
      BY <1>3, <3>1
    <3>2. ASSUME NEW h \in Goroutine, at'[h] # "done"
          PROVE  /\ emitting'[h].latest \in 1 .. clock'
                 /\ \A x \in Logged' : x.latest # emitting'[h].latest
                 /\ \A i \in Goroutine : at'[i] # "done" /\ i # h => emitting'[i].latest # emitting'[h].latest
      <4>1. h # g /\ at[h] # "done" /\ emitting'[h] = emitting[h]
        BY <3>1, <3>2
      <4>2. emitting[h].latest \in 1 .. clock /\ \A x \in Logged : x.latest # emitting[h].latest
        BY <2>3, <4>1 DEF StampsOK
      <4>3. ASSUME NEW i \in Goroutine, at'[i] # "done", i # h
            PROVE  emitting'[i].latest # emitting'[h].latest
        BY <2>3, <3>1, <4>1, <4>3 DEF StampsOK
      <4>4. QED
        BY <1>1, <2>4, <2>7, <4>1, <4>2, <4>3
    <3>3. QED
      BY <1>1, <2>8, <3>2 DEF StampsOK
  <2>10. CASE unlogged' = TRUE /\ auditFile' = auditFile
    <3>1. TrailOK(byStack', auditFile)
      BY <2>1, <2>3, <2>5, Appends
    <3>2. QED
      BY <2>9, <2>10, <3>1
  <2>11. CASE auditFile' = compacted(byStack')
    <3>1. \A s \in Stack : \A x \in ToSet(byStack'[s]) : x \in Logged'
      BY DEF Logged
    <3>2. TrailOK(byStack', compacted(byStack')) /\ LoadsTo(compacted(byStack'), byStack')
      <4>1. /\ \A s \in Stack : \A x \in ToSet(byStack'[s]) : x.latest \in 1 .. clock
            /\ \A s, v \in Stack : \A x \in ToSet(byStack'[s]), y \in ToSet(byStack'[v]) :
                   x.latest = y.latest => x.stack = y.stack
        BY <2>8, <3>1
      <4>2. QED
        BY <2>3, <2>6, <4>1, Rewritten
    <3>3. QED
      BY <2>9, <2>11, <3>2
  <2>12. CASE /\ ~(byStack[r.stack] # <<>> /\ RepeatsOf(r, Last(byStack[r.stack])))
              /\ auditFile' = appended(auditFile, r)
              /\ unlogged' = (unlogged \/ auditFile' # Append(auditFile, r))
    <3>1. /\ TrailOK(byStack', appended(auditFile, r))
          /\ LoadsTo(auditFile, byStack) => LoadsTo(Append(auditFile, r), byStack')
      BY <2>1, <2>3, <2>5, <2>12, Appends
    <3>2. QED
      BY <2>3, <2>9, <2>12, <3>1
  <2>13. QED
    BY <2>1, <2>10, <2>11, <2>12
<1>6. QED
  BY <1>4, <1>5

\* What a new process takes from the file: its lines, folded and trimmed.
LEMMA Reloads ==
  ASSUME PipelineInv, TrailTypeOK, NEW file, NewProcess(file),
         file = auditFile \/ file = Append(auditFile, Torn)
  PROVE  /\ file \in Seq(Line) /\ TrailTypeOK' /\ LoadsTo(file, byStack')
         /\ at' = [g \in Goroutine |-> "done"] /\ clock' = clock /\ disordered' = disordered
         /\ auditFile' = compacted(byStack') \/ (auditFile' = file /\ unlogged' = TRUE)
         /\ \A s \in Stack : \A x \in ToSet(byStack'[s]) :
               /\ x.stack = s
               /\ \E y \in Logged : Same(x, y)
               /\ LinesAscend(file) => \E y \in Logged : y.stack = s /\ y.latest = x.latest
         /\ LinesAscend(file) => RecordsOK(byStack') /\ TrailOK(byStack', file)
         /\ LinesAscend(auditFile) => LinesAscend(file)
         /\ \A x \in Logged' : x \in Logged \/ \E s \in Stack : x \in ToSet(byStack'[s])
<1>1. /\ byStack' = loadAudit(file) /\ clock \in Nat
      /\ at' = [g \in Goroutine |-> "done"] /\ clock' = clock /\ disordered' = disordered
      /\ auditFile' = compacted(byStack') \/ (auditFile' = file /\ unlogged' = TRUE)
  BY DEF NewProcess, PipelineInv, PipelineTypeOK
<1>2. byStack \in [Stack -> Seq(Event)] /\ auditFile \in Seq(Line) /\ Len(auditFile) \in Nat
  BY DEF TrailTypeOK
<1>3. /\ file \in Seq(Line) /\ Len(file) \in Nat
      /\ \A m \in 1 .. Len(file) : file[m] \in Event => m \in 1 .. Len(auditFile) /\ file[m] = auditFile[m]
  <2>1. CASE file = auditFile
    BY <1>2, <2>1
  <2>2. CASE file = Append(auditFile, Torn)
    <3>1. Torn \in Line /\ Torn \notin Event
      BY TornIsNone DEF Line
    <3> HIDE DEF Torn
    <3>2. /\ file \in Seq(Line) /\ Len(file) = Len(auditFile) + 1 /\ file[Len(auditFile) + 1] = Torn
          /\ \A m \in 1 .. Len(auditFile) : file[m] = auditFile[m]
      BY <1>2, <2>2, <3>1
    <3>3. \A m \in 1 .. Len(file) : m = Len(auditFile) + 1 \/ m \in 1 .. Len(auditFile)
      BY <1>2, <3>2
    <3>4. QED
      BY <3>1, <3>2, <3>3
  <2>3. QED
    BY <2>1, <2>2
<1>4. \A m \in 1 .. Len(file) : file[m] \in Event => file[m] \in Logged
  BY <1>2, <1>3 DEF Logged, ToSet
<1>5. LinesAscend(auditFile) => LinesAscend(file)
  BY <1>3 DEF LinesAscend
<1>6. ASSUME NEW s \in Stack
      PROVE  /\ byStack'[s] \in Seq(Event) /\ Len(byStack'[s]) <= perStackCap
             /\ newest(collapseRuns(file, s), perStackCap) = byStack'[s]
             /\ \A x \in ToSet(byStack'[s]) :
                   /\ x.stack = s
                   /\ \E y \in Logged : Same(x, y)
                   /\ LinesAscend(file) => \E y \in Logged : y.stack = s /\ y.latest = x.latest
             /\ Merged(byStack'[s])
             /\ LinesAscend(file) =>
                   /\ Ascending(byStack'[s])
                   /\ \A m \in 1 .. Len(file) : file[m] \in Event /\ file[m].stack = s =>
                         Len(byStack'[s]) > 0 /\ file[m].latest <= byStack'[s][Len(byStack'[s])].latest
  <2> DEFINE c == collapseRuns(file, s)
             q == newest(c, perStackCap)
  <2>1. byStack'[s] = q
    BY <1>1 DEF loadAudit
  <2>2. FoldedFrom(file, s, Len(file), c)
    BY <1>3, Folded
  <2>3. c \in Seq(Event) /\ perStackCap \in Nat \ {0}
    BY <2>2, PipelineAssumption DEF FoldedFrom
  <2> HIDE DEF c
  <2>4. /\ q \in Seq(Event) /\ Len(q) <= perStackCap
        /\ \A k \in 1 .. Len(q) : q[k] \in ToSet(c)
        /\ Ascending(c) => Ascending(q)
        /\ Merged(c) => Merged(q)
        /\ Len(c) > 0 => Len(q) > 0 /\ q[Len(q)] = c[Len(c)]
    BY <2>3, NewestKeeps, Zenon
  <2> HIDE DEF q
  <2>5. ASSUME NEW x \in ToSet(q)
        PROVE  /\ x.stack = s
               /\ \E y \in Logged : Same(x, y)
               /\ LinesAscend(file) => \E y \in Logged : y.stack = s /\ y.latest = x.latest
    <3>1. PICK k \in 1 .. Len(q) : x = q[k]
      BY <2>4, Elems
    <3>2. PICK i \in 1 .. Len(c) : x = c[i]
      BY <2>3, <2>4, <3>1, Elems
    <3>3. x.stack = s /\ \E m \in 1 .. Len(file) : file[m] \in Event /\ Same(x, file[m])
      BY <2>2, <3>2 DEF FoldedFrom
    <3>4. ASSUME LinesAscend(file)
          PROVE  \E y \in Logged : y.stack = s /\ y.latest = x.latest
      <4>1. PICK m \in 1 .. Len(file) : file[m] \in Event /\ file[m].stack = s /\ x.latest = file[m].latest
        BY <2>2, <3>2, <3>4 DEF FoldedFrom
      <4>2. QED
        BY <1>4, <4>1
    <3>5. QED
      BY <1>4, <3>3, <3>4
  <2>6. Merged(q) /\ (LinesAscend(file) => Ascending(q))
    BY <2>2, <2>4 DEF FoldedFrom
  <2>7. ASSUME LinesAscend(file), NEW m \in 1 .. Len(file), file[m] \in Event, file[m].stack = s
        PROVE  Len(q) > 0 /\ file[m].latest <= q[Len(q)].latest
    BY <2>2, <2>4, <2>7 DEF FoldedFrom
  <2>8. QED
    BY <2>1, <2>4, <2>5, <2>6, <2>7 DEF q, c
<1>7. byStack' \in [Stack -> Seq(Event)]
  <2>1. byStack' = [s \in Stack |-> byStack'[s]]
    BY <1>1 DEF loadAudit
  <2>2. QED
    BY <1>6, <2>1
<1>8. ASSUME LinesAscend(file)
      PROVE  RecordsOK(byStack') /\ TrailOK(byStack', file)
  <2>1. RecordsOK(byStack')
    <3>1. ASSUME NEW s \in Stack, NEW i \in 1 .. Len(byStack'[s])
          PROVE  byStack'[s][i].stack = s
      BY <1>6, Elems
    <3>2. QED
      BY <1>6, <1>8, <3>1 DEF RecordsOK
  <2>2. ASSUME NEW m \in 1 .. Len(file), file[m] \in Event
        PROVE  LET q == byStack'[file[m].stack] IN Len(q) > 0 /\ file[m].latest <= q[Len(q)].latest
    <3>1. file[m].stack \in Stack
      BY <2>2 DEF Event
    <3>2. QED
      BY <1>6, <1>8, <2>2, <3>1
  <2>3. QED
    BY <1>8, <2>1, <2>2 DEF TrailOK
<1>9. auditFile' \in Seq(Line) /\ \A l \in ToSet(auditFile') \cap Event :
          l \in Logged \/ \E s \in Stack : l \in ToSet(byStack'[s])
  <2>1. CASE auditFile' = file
    BY <1>3, <1>4, <2>1 DEF ToSet
  <2>2. CASE auditFile' = compacted(byStack')
    <3> DEFINE w == compacted(byStack')
    <3>1. w \in Seq(Event) /\ \A i \in 1 .. Len(w) : \E s \in Stack : w[i] \in ToSet(byStack'[s])
      BY <1>1, <1>7, Written, Zenon
    <3> HIDE DEF w
    <3>2. w \in Seq(Line) /\ ToSet(w) = {w[i] : i \in 1 .. Len(w)}
      BY <3>1, Elems DEF Line
    <3>3. auditFile' = w
      BY <2>2 DEF w
    <3>4. ToSet(auditFile') = ToSet(w)
      BY <3>3, Zenon DEF ToSet
    <3>5. QED
      BY <3>1, <3>2, <3>3, <3>4
  <2>3. QED
    BY <1>1, <2>1, <2>2
<1>10. \A x \in Logged' : x \in Logged \/ \E s \in Stack : x \in ToSet(byStack'[s])
  BY <1>9 DEF Logged
<1>11. TrailTypeOK' /\ LoadsTo(file, byStack')
  BY <1>6, <1>7, <1>9 DEF TrailTypeOK, LoadsTo
<1>12. QED
  BY <1>1, <1>3, <1>5, <1>6, <1>8, <1>10, <1>11

\* The records a new process loads are those of the file.
LEMMA AuditRestart ==
  ASSUME PipelineInv, AuditInv, NEW file, NewProcess(file),
         file = auditFile \/ file = Append(auditFile, Torn)
  PROVE  AuditInv'
<1>1. TrailTypeOK
  BY DEF AuditInv
<1>2. /\ file \in Seq(Line) /\ TrailTypeOK' /\ LoadsTo(file, byStack')
      /\ at' = [g \in Goroutine |-> "done"] /\ clock' = clock /\ disordered' = disordered
      /\ auditFile' = compacted(byStack') \/ (auditFile' = file /\ unlogged' = TRUE)
      /\ \A s \in Stack : \A x \in ToSet(byStack'[s]) :
            /\ x.stack = s
            /\ \E y \in Logged : Same(x, y)
            /\ LinesAscend(file) => \E y \in Logged : y.stack = s /\ y.latest = x.latest
      /\ LinesAscend(file) => RecordsOK(byStack') /\ TrailOK(byStack', file)
      /\ LinesAscend(auditFile) => LinesAscend(file)
      /\ \A x \in Logged' : x \in Logged \/ \E s \in Stack : x \in ToSet(byStack'[s])
  BY <1>1, Reloads, Zenon
<1>3. SUFFICES ASSUME ~disordered'
               PROVE  /\ StampsOK' /\ TrailOK(byStack', auditFile')
                      /\ ~unlogged' => LoadsTo(auditFile', byStack')
  BY <1>2 DEF AuditInv, TrailOK, LoadsTo, RecordsOK, LinesAscend, Ascending, Merged
<1>4. StampsOK /\ LinesAscend(file) /\ clock \in Nat
  BY <1>2, <1>3 DEF AuditInv, TrailOK, PipelineInv, PipelineTypeOK
<1>5. ASSUME NEW x \in Logged'
      PROVE  \E y \in Logged : y.stack = x.stack /\ y.latest = x.latest
  <2>1. CASE x \in Logged
    BY <2>1
  <2>2. CASE \E s \in Stack : x \in ToSet(byStack'[s])
    BY <1>2, <1>4, <2>2
  <2>3. QED
    BY <1>2, <2>1, <2>2
<1>6. /\ \A x \in Logged' : x.latest \in 1 .. clock
      /\ \A x, y \in Logged' : x.latest = y.latest => x.stack = y.stack
  <2>1. /\ \A x \in Logged : x.latest \in 1 .. clock
        /\ \A x, y \in Logged : x.latest = y.latest => x.stack = y.stack
    BY <1>4 DEF StampsOK
  <2>2. ASSUME NEW x \in Logged', NEW y \in Logged', x.latest = y.latest
        PROVE  x.stack = y.stack
    <3>1. PICK v \in Logged : v.stack = x.stack /\ v.latest = x.latest
      BY <1>5
    <3>2. PICK z \in Logged : z.stack = y.stack /\ z.latest = y.latest
      BY <1>5
    <3>3. QED
      BY <2>1, <2>2, <3>1, <3>2
  <2>3. QED
    BY <1>5, <2>1, <2>2
<1>7. StampsOK'
  <2>1. \A g \in Goroutine : at'[g] = "done"
    BY <1>2
  <2>2. QED
    BY <1>2, <1>6, <2>1 DEF StampsOK
<1>8. CASE auditFile' = compacted(byStack')
  <2>1. byStack' \in [Stack -> Seq(Event)] /\ RecordsOK(byStack')
    BY <1>2, <1>4 DEF TrailTypeOK
  <2>2. \A s \in Stack : \A x \in ToSet(byStack'[s]) : x \in Logged'
    BY DEF Logged
  <2>3. /\ \A s \in Stack : \A x \in ToSet(byStack'[s]) : x.latest \in 1 .. clock
        /\ \A s, v \in Stack : \A x \in ToSet(byStack'[s]), y \in ToSet(byStack'[v]) :
               x.latest = y.latest => x.stack = y.stack
    BY <1>6, <2>2
  <2>4. TrailOK(byStack', compacted(byStack')) /\ LoadsTo(compacted(byStack'), byStack')
    BY <1>4, <2>1, <2>3, Rewritten
  <2>5. QED
    BY <1>7, <1>8, <2>4
<1>9. CASE auditFile' = file /\ unlogged' = TRUE
  BY <1>2, <1>4, <1>7, <1>9
<1>10. QED
  BY <1>2, <1>8, <1>9

\* A new log is empty, and so is its file.
LEMMA AuditInit == Init => AuditInv
<1> SUFFICES ASSUME Init
             PROVE  AuditInv
  OBVIOUS
<1>1. byStack = [s \in Stack |-> <<>>] /\ auditFile = <<>> /\ at = [g \in Goroutine |-> "done"]
  BY DEF Init
<1>2. TrailTypeOK /\ Logged = {}
  BY <1>1 DEF TrailTypeOK, Logged, ToSet
<1>3. StampsOK
  BY <1>1, <1>2 DEF StampsOK
<1>4. TrailOK(byStack, auditFile)
  BY <1>1, PipelineAssumption DEF TrailOK, RecordsOK, LinesAscend, Ascending, Merged
<1>5. LoadsTo(auditFile, byStack)
  BY <1>1, RunsOfNone, PipelineAssumption DEF LoadsTo, newest
<1>6. QED
  BY <1>2, <1>3, <1>4, <1>5 DEF AuditInv

\* No step breaks the trail's invariant: one case per action.
LEMMA AuditStep ==
  ASSUME PipelineInv, AuditInv, [Next]_vars
  PROVE  AuditInv'
<1>1. ASSUME NEW g \in Goroutine, EmitSome(g) PROVE AuditInv'
  <2>1. PICK s \in Stack, status \in StatusOf(g) : Emit(g, s, status)
    BY <1>1, Zenon DEF EmitSome, StatusOf
  <2>2. QED
    BY <2>1, AuditEmit
<1>2. ASSUME NEW g \in Goroutine, Store(g) PROVE AuditInv'
  <2>1. PICK x \in Event : emitting' = [emitting EXCEPT ![g] = x] /\ x.latest = emitting[g].latest
    BY <1>2, StoredEvent
  <2>2. /\ at[g] = "emitted" /\ at' = [at EXCEPT ![g] = "stored"]
        /\ UNCHANGED <<byStack, auditFile, unlogged, disordered, clock>>
    BY <1>2 DEF Store, auditVars
  <2>3. emitting \in [Goroutine -> Event \cup {None}] /\ at \in [Goroutine -> {"done", "emitted", "stored"}]
    BY DEF PipelineInv, PipelineTypeOK
  <2>4. \A h \in Goroutine : at'[h] # "done" => at[h] # "done" /\ emitting'[h].latest = emitting[h].latest
    BY <2>1, <2>2, <2>3
  <2>5. QED
    BY <2>2, <2>4, AuditFrame
<1>3. ASSUME NEW g \in Goroutine, Deliver(g) PROVE AuditInv'
  BY <1>3, AuditDeliver
<1>4. ASSUME NEW g \in Goroutine, CrashInAppend(g) PROVE AuditInv'
  BY <1>4, AuditRestart, Zenon DEF CrashInAppend
<1>5. CASE Client
  <2>1. UNCHANGED <<emitVars, auditVars>>
    BY <1>5 DEF Client, Subscribe, Replay, Send, Disconnect
  <2>2. QED
    BY <2>1, AuditFrame DEF emitVars, auditVars
<1>6. CASE Crash
  BY <1>6, AuditRestart, Zenon DEF Crash
<1>7. CASE UNCHANGED vars
  BY <1>7, AuditFrame DEF vars, emitVars, auditVars
<1>8. QED
  BY <1>1, <1>2, <1>3, <1>4, <1>5, <1>6, <1>7, Zenon DEF Next

\* The audit trail survives restarts: unless a write failed or two goroutines
\* recorded out of turn, the file loads to the records in memory.
THEOREM AuditSurvivesRestarts == Spec => []AuditDurable
<1>1. ASSUME AuditInv PROVE AuditDurable
  <2>1. SUFFICES ASSUME ~unlogged, ~disordered
                 PROVE  loadAudit(auditFile) = byStack
    BY DEF AuditDurable
  <2>2. byStack \in [Stack -> Seq(Event)] /\ LoadsTo(auditFile, byStack)
    BY <1>1, <2>1 DEF AuditInv, TrailTypeOK
  <2>3. byStack = [s \in Stack |-> byStack[s]]
    BY <2>2
  <2>4. \A s \in Stack : newest(collapseRuns(auditFile, s), perStackCap) = byStack[s]
    BY <2>2 DEF LoadsTo
  <2>5. QED
    BY <2>3, <2>4, Zenon DEF loadAudit
<1>2. QED
  BY <1>1, PipelineInit, PipelineStep, AuditInit, AuditStep, PTL DEF Spec

-----------------------------------------------------------------------------
(* What a history loses when it takes an event                              *)

\* The places of h in r, all of r's but the last.
Stays(h, r, phi, m) == \E k \in 1 .. Len(r) : k # Len(r) /\ phi[k] = m

\* r is what is left of h, and the event e behind it.
TakenInto(h, r, phi, e) ==
    /\ r \in Seq(Event) /\ Len(r) \in Nat \ {0} /\ Same(r[Len(r)], e)
    /\ \A k \in 1 .. Len(r) : k # Len(r) => phi[k] \in 1 .. Len(h) /\ r[k] = h[phi[k]]
    /\ \A j, k \in 1 .. Len(r) : j < k /\ k # Len(r) => phi[j] < phi[k]

\* A full history loses its oldest event; one in which e repeats an outcome loses
\* that and phases.
LEMMA Takes ==
  ASSUME NEW h \in Seq(Event), Len(h) <= maxHistorySize, NEW e \in Event
  PROVE  \E phi :
            /\ TakenInto(h, addLocked(h, e), phi, e)
            /\ \/ \A m \in 1 .. Len(h) : Stays(h, addLocked(h, e), phi, m) \/ (m = 1 /\ Len(h) > 1)
               \/ \E i \in 1 .. Len(h) :
                     /\ Terminal(h[i]) /\ h[i].status = e.status
                     /\ \A m \in 1 .. Len(h) :
                           m = i \/ Stays(h, addLocked(h, e), phi, m) \/ ~Terminal(h[m])
<1> DEFINE S == lastOutcomes(h, e.stack)
           i == Max(S)
           r == addLocked(h, e)
<1>0. Len(h) \in Nat /\ maxHistorySize \in Nat \ {0} /\ maxHistorySize > 1
  BY PipelineAssumption
<1>1. CASE ~(S # {} /\ RepeatsOf(e, h[i]))
  <2>1. absorbed(h, e) = [history |-> h, event |-> e]
    BY <1>1, Zenon DEF absorbed
  <2>2. absorbed(h, e).history = h /\ absorbed(h, e).event = e
    BY <2>1
  <2> DEFINE s == Append(h, e)
  <2>3. r = newest(s, maxHistorySize)
    BY <2>2 DEF addLocked
  <2>4. /\ s \in Seq(Event) /\ Len(s) = Len(h) + 1 /\ s[Len(h) + 1] = e
        /\ \A k \in 1 .. Len(h) : s[k] = h[k]
    OBVIOUS
  <2> HIDE DEF s, r, i, S
  <2>5. r \in Seq(Event)
    BY <1>0, <2>3, <2>4, Newest
  <2>6. PICK d \in Nat : /\ Len(r) = Len(s) - d /\ \A k \in 1 .. Len(r) : r[k] = s[k + d]
                         /\ IF Len(s) <= maxHistorySize THEN d = 0 ELSE Len(r) = maxHistorySize
    BY <1>0, <2>3, <2>4, Newest, Zenon
  <2>7. d = 0 \/ (d = 1 /\ Len(h) = maxHistorySize)
    BY <1>0, <2>4, <2>6
  <2>8. Len(r) \in Nat \ {0} /\ Len(r) = Len(h) + 1 - d
    BY <1>0, <2>4, <2>6, <2>7
  <2> DEFINE phi == [k \in 1 .. Len(r) |-> k + d]
  <2>9. \A k \in 1 .. Len(r) : phi[k] = k + d
    OBVIOUS
  <2> HIDE DEF phi
  <2>10. \A k \in 1 .. Len(r) : k # Len(r) => phi[k] \in 1 .. Len(h) /\ r[k] = h[phi[k]]
    BY <1>0, <2>4, <2>6, <2>7, <2>8, <2>9
  <2>11. r[Len(r)] = e
    <3>1. Len(r) \in 1 .. Len(r) /\ Len(r) + d = Len(h) + 1
      BY <1>0, <2>7, <2>8
    <3>2. QED
      BY <2>4, <2>6, <3>1
  <2>12. \A j, k \in 1 .. Len(r) : j < k => phi[j] < phi[k]
    BY <2>9
  <2>13. TakenInto(h, r, phi, e)
    BY <2>5, <2>8, <2>10, <2>11, <2>12 DEF TakenInto, Same
  <2>14. ASSUME NEW m \in 1 .. Len(h), m # 1 \/ d = 0
         PROVE  Stays(h, r, phi, m)
    <3>1. m - d \in 1 .. Len(r) /\ m - d # Len(r)
      BY <1>0, <2>7, <2>8, <2>14
    <3>2. phi[m - d] = m
      BY <2>9, <3>1
    <3>3. QED
      BY <3>1, <3>2 DEF Stays
  <2>15. ASSUME NEW m \in 1 .. Len(h)
         PROVE  Stays(h, r, phi, m) \/ (m = 1 /\ Len(h) > 1)
    BY <1>0, <2>7, <2>14
  <2>16. QED
    BY <2>13, <2>15 DEF r
<1>2. CASE S # {} /\ RepeatsOf(e, h[i])
  <2>1. i \in 1 .. Len(h) /\ Outcome(h, i, e.stack) /\ \A m \in 1 .. Len(h) : i < m => ~Outcome(h, m, e.stack)
    BY <1>2, LastOutcome
  <2> DEFINE I == (1 .. i - 1) \cup keepOthers(h, i + 1, e.stack)
             q == kept(h, I)
             x == AbsorbInto(e, h[i])
             s == Append(q, x)
  <2>2. absorbed(h, e) = [history |-> q, event |-> x]
    BY <1>2, Zenon DEF absorbed
  <2>3. r = newest(s, maxHistorySize)
    <3>1. absorbed(h, e).history = q /\ absorbed(h, e).event = x
      BY <2>2
    <3> HIDE DEF q, x
    <3>2. QED
      BY <3>1 DEF addLocked
  <2>4. x \in Event /\ Same(x, e)
    <3>1. h[i] \in Event
      BY <2>1
    <3>2. QED
      BY <3>1, AbsorbFields DEF Same
  <2>5. h[i].status = e.status /\ Terminal(h[i])
    BY <1>2, <2>1, Zenon DEF RepeatsOf, Outcome
  <2>6. PICK phi : /\ Drawn(h, q, phi)
                   /\ \A j : (\E k \in 1 .. Len(q) : j = phi[k]) <=> j \in I /\ j \in 1 .. Len(h)
    BY Kept DEF LeftOf
  <2> HIDE DEF r, q, x, i, S
  <2>7. /\ q \in Seq(Event) /\ Len(q) \in Nat
        /\ \A k \in 1 .. Len(q) : phi[k] \in 1 .. Len(h) /\ q[k] = h[phi[k]] /\ phi[k] \in I
        /\ \A j, k \in 1 .. Len(q) : j < k => phi[j] < phi[k]
        /\ phi \in [1 .. Len(q) -> 1 .. Len(h)]
    BY <2>6 DEF Drawn
  <2>8. \A j \in 1 .. Len(h) : j \in I <=> j < i \/ (i < j /\ h[j].stack # e.stack)
    BY <1>0, <2>1 DEF keepOthers
  <2>9. i \notin I
    BY <2>1, <2>8
  <2> HIDE DEF I
  <2>10. Len(q) < Len(h)
    <3> DEFINE T == (1 .. Len(h)) \ {i}
    <3>1. phi \in Injection(1 .. Len(q), T)
      <4>1. \A k \in 1 .. Len(q) : phi[k] \in T
        BY <2>7, <2>9
      <4>2. \A j, k \in 1 .. Len(q) : phi[j] = phi[k] => j = k
        <5>1. ASSUME NEW j \in 1 .. Len(q), NEW k \in 1 .. Len(q), phi[j] = phi[k], j # k
              PROVE  FALSE
          <6>1. j < k \/ k < j
            BY <2>7, <5>1
          <6>2. QED
            BY <2>7, <5>1, <6>1
        <5>2. QED
          BY <5>1
      <4>3. phi \in [1 .. Len(q) -> T]
        BY <2>7, <4>1
      <4>4. QED
        BY <4>2, <4>3 DEF Injection, IsInjective
    <3>2. \A n \in Nat : IsFiniteSet(1 .. n) /\ Cardinality(1 .. n) = n
      <4>1. \A n \in Nat : /\ IsFiniteSet(1 .. n)
                            /\ Cardinality(1 .. n) = IF 1 > n THEN 0 ELSE n - 1 + 1
        BY FS_Interval
      <4>2. \A n \in Nat : (IF 1 > n THEN 0 ELSE n - 1 + 1) = n
        OBVIOUS
      <4>3. QED
        BY <4>1, <4>2
    <3>3. IsFiniteSet(T) /\ Cardinality(T) = Len(h) - 1
      BY <1>0, <2>1, <3>2, FS_RemoveElement
    <3>4. Cardinality(1 .. Len(q)) = Len(q)
      BY <2>7, <3>2
    <3> HIDE DEF T
    <3>5. Len(q) <= Len(h) - 1
      BY <3>1, <3>3, <3>4, FS_Injection
    <3>6. QED
      BY <1>0, <2>7, <3>5
  <2>11. /\ s \in Seq(Event) /\ Len(s) = Len(q) + 1 /\ s[Len(q) + 1] = x
         /\ \A k \in 1 .. Len(q) : s[k] = q[k]
    BY <2>4, <2>7
  <2> HIDE DEF s
  <2>12. r = s
    <3>1. ~(Len(s) > maxHistorySize)
      BY <1>0, <2>7, <2>10, <2>11
    <3>2. QED
      BY <2>3, <3>1 DEF newest
  <2>13. \A k \in 1 .. Len(r) : k # Len(r) => k \in 1 .. Len(q)
    BY <2>7, <2>11, <2>12
  <2>14. TakenInto(h, r, phi, e)
    <3>1. r[Len(r)] = x /\ Len(r) \in Nat \ {0} /\ r \in Seq(Event)
      BY <2>7, <2>11, <2>12
    <3>2. \A k \in 1 .. Len(r) : k # Len(r) => phi[k] \in 1 .. Len(h) /\ r[k] = h[phi[k]]
      BY <2>7, <2>11, <2>12, <2>13
    <3>3. ASSUME NEW j \in 1 .. Len(r), NEW k \in 1 .. Len(r), j < k, k # Len(r)
          PROVE  phi[j] < phi[k]
      <4>1. j # Len(r)
        BY <3>1, <3>3
      <4>2. QED
        BY <2>7, <2>13, <3>3, <4>1
    <3>4. QED
      BY <2>4, <3>1, <3>2, <3>3 DEF TakenInto
  <2>15. ASSUME NEW m \in 1 .. Len(h), m # i, Terminal(h[m])
         PROVE  Stays(h, r, phi, m)
    <3>1. m \in I
      <4>1. CASE m < i
        BY <2>8, <4>1
      <4>2. CASE i < m
        BY <2>1, <2>8, <2>15, <4>2 DEF Outcome
      <4>3. QED
        BY <2>1, <2>15, <4>1, <4>2
    <3>2. PICK k \in 1 .. Len(q) : m = phi[k]
      BY <2>6, <3>1
    <3>3. k \in 1 .. Len(r) /\ k # Len(r)
      BY <2>7, <2>11, <2>12
    <3>4. QED
      BY <3>2, <3>3 DEF Stays
  <2>16. QED
    BY <2>1, <2>5, <2>14, <2>15 DEF r
<1>3. QED
  BY <1>1, <1>2

-----------------------------------------------------------------------------
(* The IDs of records and of the history                                    *)

\* The records, the lines, and the events that the history has and the log will have.
Audited ==
    Logged \cup {emitting[g] : g \in {i \in Goroutine : at[i] = "stored" /\ emitting[i].status \in auditableStatuses}}

\* The history h has an ID as high as n.
Covered(h, n) == \E m \in 1 .. Len(h) : n <= h[m].id

\* It has one as high that no event of g's absorbs, or no outcome of g's.
Outlived(h, g, n) ==
    \/ \E m \in 1 .. Len(h) : Terminal(h[m]) /\ n <= h[m].id
    \/ \A m \in 1 .. Len(h) : h[m].status \notin StatusOf(g)

\* The event e, which g has yet to store: its ID is new to the history h, higher than
\* those of g's, and those that are higher still are in order.
Behind(h, g, e) ==
    /\ \A i \in 1 .. Len(h) : h[i].id # e.id /\ (h[i].status \in StatusOf(g) => h[i].id < e.id)
    /\ \A i, j \in 1 .. Len(h) : i < j /\ e.id < h[i].id => h[i].id <= h[j].id

\* No record has an ID that a new event could get, and the event of the history that has
\* a record's ID is the record's.
LinkInv ==
    ~unsaved =>
      /\ \A i \in 1 .. Len(history) : history[i].id <= nextEventID
      /\ \A a \in Audited :
            /\ Covered(history, a.id)
            /\ \A i \in 1 .. Len(history) : history[i].id = a.id => Same(history[i], a)
      /\ \A g \in Goroutine : at[g] = "emitted" =>
            /\ Behind(history, g, emitting[g])
            /\ \A a \in Audited :
                  a.id # emitting[g].id /\ (emitting[g].id < a.id => Outlived(history, g, a.id))

\* The IDs, and types, of what the invariant is about.
LEMMA AuditedEvents ==
  ASSUME PipelineInv, TrailTypeOK
  PROVE  /\ \A a \in Audited : a \in Event /\ a.id \in Nat
         /\ \A i \in 1 .. Len(history) :
               /\ history[i] \in Event /\ history[i].id \in Nat
               /\ \E g \in Goroutine : history[i].status \in StatusOf(g)
         /\ history \in Seq(Event) /\ Len(history) \in Nat /\ Len(history) <= maxHistorySize
<1>1. history \in Seq(Event) /\ Len(history) <= maxHistorySize
  BY DEF PipelineInv, PipelineTypeOK, HistoryOK
<1>2. \A i \in 1 .. Len(history) : history[i] \in Event
  BY <1>1
<1>3. \A g \in Goroutine : at[g] = "stored" => emitting[g] \in Event
  BY DEF PipelineInv, PipelineTypeOK
<1>4. Logged \subseteq Event
  BY LoggedElems DEF TrailTypeOK, Logged
<1>5. \A a \in Audited : a \in Event
  BY <1>3, <1>4 DEF Audited
<1>6. \A x \in Event : x.id \in Nat /\ \E g \in Goroutine : x.status \in StatusOf(g)
  BY DEF Event, Goroutine, StatusOf
<1>7. QED
  BY <1>1, <1>2, <1>5, <1>6

\* The history and the events on their way are left alone, and the log gets no new IDs.
LEMMA LinkFrame ==
  ASSUME LinkInv, UNCHANGED <<history, nextEventID, unsaved>>,
         \A g \in Goroutine : at'[g] = "emitted" => at[g] = "emitted" /\ emitting'[g] = emitting[g],
         \A a \in Audited' : \E b \in Audited : Same(a, b)
  PROVE  LinkInv'
<1> SUFFICES ASSUME ~unsaved'
             PROVE  /\ \A i \in 1 .. Len(history) : history[i].id <= nextEventID
                    /\ \A a \in Audited' :
                          /\ Covered(history, a.id)
                          /\ \A i \in 1 .. Len(history) : history[i].id = a.id => Same(history[i], a)
                    /\ \A g \in Goroutine : at'[g] = "emitted" =>
                          /\ Behind(history, g, emitting'[g])
                          /\ \A a \in Audited' :
                                /\ a.id # emitting'[g].id
                                /\ emitting'[g].id < a.id => Outlived(history, g, a.id)
  BY DEF LinkInv, Covered, Outlived, Behind, Terminal, StatusOf
<1>1. ~unsaved
  OBVIOUS
<1>2. ASSUME NEW a \in Audited'
      PROVE  /\ Covered(history, a.id)
             /\ \A i \in 1 .. Len(history) : history[i].id = a.id => Same(history[i], a)
             /\ \A g \in Goroutine : at[g] = "emitted" =>
                   a.id # emitting[g].id /\ (emitting[g].id < a.id => Outlived(history, g, a.id))
  <2>1. PICK b \in Audited : Same(a, b)
    OBVIOUS
  <2>2. a.id = b.id /\ a.stack = b.stack /\ a.status = b.status
    BY <2>1 DEF Same
  <2>3. QED
    BY <1>1, <2>2 DEF LinkInv, Same
<1>3. QED
  BY <1>1, <1>2 DEF LinkInv

\* A new event has an ID above all.
LEMMA LinkEmit ==
  ASSUME PipelineInv, AuditInv, LinkInv, NEW g \in Goroutine, NEW s \in Stack, NEW status \in StatusOf(g),
         Emit(g, s, status)
  PROVE  LinkInv'
<1>1. PipelineTypeOK /\ TrailTypeOK
  BY DEF PipelineInv, AuditInv
<1>2. PICK e \in Event :
            /\ emitting' = [emitting EXCEPT ![g] = e]
            /\ e.id = nextEventID + 1 /\ e.latest = clock + 1 /\ e.status = status
  BY <1>1, EmittedEvent
<1>3. /\ nextEventID' = nextEventID + 1 /\ at' = [at EXCEPT ![g] = "emitted"] /\ emitting[g] = None
      /\ UNCHANGED <<history, unsaved, byStack, auditFile>>
  BY DEF Emit, auditVars
<1>4. /\ nextEventID \in Nat /\ emitting \in [Goroutine -> Event \cup {None}]
      /\ at \in [Goroutine -> {"done", "emitted", "stored"}] /\ at[g] = "done"
  BY <1>1, <1>3 DEF PipelineTypeOK
<1>5. /\ emitting'[g] = e /\ at'[g] = "emitted"
      /\ \A h \in Goroutine : h # g => emitting'[h] = emitting[h] /\ at'[h] = at[h]
  BY <1>2, <1>3, <1>4
<1>6. Audited' = Audited
  <2>1. Logged' = Logged
    BY <1>3 DEF Logged
  <2>2. \A h \in Goroutine : at'[h] = "stored" <=> at[h] = "stored"
    BY <1>4, <1>5
  <2>3. \A h \in Goroutine : at[h] = "stored" => emitting'[h] = emitting[h]
    BY <1>4, <1>5
  <2>4. QED
    BY <2>1, <2>2, <2>3 DEF Audited
<1> SUFFICES ASSUME ~unsaved'
             PROVE  /\ \A i \in 1 .. Len(history) : history[i].id <= nextEventID'
                    /\ \A a \in Audited :
                          /\ Covered(history, a.id)
                          /\ \A i \in 1 .. Len(history) : history[i].id = a.id => Same(history[i], a)
                    /\ \A h \in Goroutine : at'[h] = "emitted" =>
                          /\ Behind(history, h, emitting'[h])
                          /\ \A a \in Audited :
                                /\ a.id # emitting'[h].id
                                /\ emitting'[h].id < a.id => Outlived(history, h, a.id)
  BY <1>3, <1>6 DEF LinkInv, Covered, Outlived, Behind, Terminal, StatusOf
<1>7. /\ \A i \in 1 .. Len(history) : history[i].id \in Nat /\ history[i].id <= nextEventID
      /\ \A a \in Audited : a.id \in Nat /\ a.id <= nextEventID /\ Covered(history, a.id)
      /\ \A a \in Audited : \A i \in 1 .. Len(history) : history[i].id = a.id => Same(history[i], a)
  <2>1. /\ \A i \in 1 .. Len(history) : history[i].id <= nextEventID
        /\ \A a \in Audited : Covered(history, a.id)
        /\ \A a \in Audited : \A i \in 1 .. Len(history) : history[i].id = a.id => Same(history[i], a)
    BY <1>3 DEF LinkInv
  <2>2. /\ \A i \in 1 .. Len(history) : history[i].id \in Nat
        /\ \A a \in Audited : a.id \in Nat
    BY <1>1, AuditedEvents
  <2>3. \A a \in Audited : a.id <= nextEventID
    <3>1. ASSUME NEW a \in Audited
          PROVE  a.id <= nextEventID
      <4>1. PICK m \in 1 .. Len(history) : a.id <= history[m].id
        BY <2>1 DEF Covered
      <4>2. QED
        BY <1>4, <2>1, <2>2, <4>1
    <3>2. QED
      BY <3>1
  <2>4. QED
    BY <2>1, <2>2, <2>3
<1>8. \A i \in 1 .. Len(history) : history[i].id <= nextEventID'
  BY <1>3, <1>4, <1>7
<1>9. ASSUME NEW h \in Goroutine, at'[h] = "emitted"
      PROVE  /\ Behind(history, h, emitting'[h])
             /\ \A a \in Audited :
                   /\ a.id # emitting'[h].id
                   /\ emitting'[h].id < a.id => Outlived(history, h, a.id)
  <2>1. CASE h = g
    <3>1. emitting'[h].id = nextEventID + 1
      BY <1>2, <1>5, <2>1
    <3>2. /\ \A i \in 1 .. Len(history) : history[i].id < nextEventID + 1
          /\ \A a \in Audited : a.id < nextEventID + 1
      BY <1>4, <1>7
    <3>3. /\ \A i \in 1 .. Len(history) : history[i].id # nextEventID + 1 /\ ~(nextEventID + 1 < history[i].id)
          /\ \A a \in Audited : a.id # nextEventID + 1 /\ ~(nextEventID + 1 < a.id)
      BY <1>4, <1>7
    <3>4. QED
      BY <3>1, <3>2, <3>3 DEF Behind
  <2>2. CASE h # g
    <3>1. at[h] = "emitted" /\ emitting'[h] = emitting[h] /\ ~unsaved
      BY <1>3, <1>5, <1>9, <2>2
    <3>2. QED
      BY <3>1 DEF LinkInv
  <2>3. QED
    BY <2>1, <2>2
<1>10. QED
  BY <1>7, <1>8, <1>9

\* A history that takes g's event e still has an ID as high as n.
LEMMA TakenCovers ==
  ASSUME NEW h \in Seq(Event), Len(h) <= maxHistorySize, NEW e \in Event, NEW g \in Goroutine,
         e.status \in StatusOf(g), Behind(h, g, e), NEW n \in Nat, Covered(h, n),
         e.id < n => Outlived(h, g, n)
  PROVE  Covered(addLocked(h, e), n)
<1> DEFINE r == addLocked(h, e)
<1>1. PICK phi :
            /\ TakenInto(h, r, phi, e)
            /\ \/ \A m \in 1 .. Len(h) : Stays(h, r, phi, m) \/ (m = 1 /\ Len(h) > 1)
               \/ \E i \in 1 .. Len(h) :
                     /\ Terminal(h[i]) /\ h[i].status = e.status
                     /\ \A m \in 1 .. Len(h) : m = i \/ Stays(h, r, phi, m) \/ ~Terminal(h[m])
  BY Takes
<1> SUFFICES Covered(r, n)
  OBVIOUS
<1> HIDE DEF r
<1>2. /\ Len(r) \in 1 .. Len(r) /\ r[Len(r)].id = e.id /\ Len(h) \in Nat /\ e.id \in Nat
      /\ \A m \in 1 .. Len(h) : h[m].id \in Nat
  <2>1. Len(h) \in Nat /\ \A m \in 1 .. Len(h) : h[m] \in Event
    OBVIOUS
  <2>2. \A x \in Event : x.id \in Nat
    BY DEF Event
  <2>3. Len(r) \in Nat \ {0} /\ r[Len(r)].id = e.id
    BY <1>1 DEF TakenInto, Same
  <2>4. Len(r) \in 1 .. Len(r)
    BY <2>3
  <2>5. QED
    BY <2>1, <2>2, <2>3, <2>4
<1>3. ASSUME NEW m \in 1 .. Len(h), Stays(h, r, phi, m), n <= h[m].id
      PROVE  Covered(r, n)
  BY <1>1, <1>3 DEF Stays, TakenInto, Covered
<1>4. CASE n <= e.id
  BY <1>2, <1>4 DEF Covered
<1>5. CASE e.id < n
  <2>1. CASE \A m \in 1 .. Len(h) : Stays(h, r, phi, m) \/ (m = 1 /\ Len(h) > 1)
    <3>1. PICK m \in 1 .. Len(h) : n <= h[m].id
      BY DEF Covered
    <3>2. CASE Stays(h, r, phi, m)
      BY <1>3, <3>1, <3>2
    <3>3. CASE ~Stays(h, r, phi, m)
      <4>1. m = 1 /\ Len(h) > 1 /\ 2 \in 1 .. Len(h) /\ 1 < 2
        BY <1>2, <2>1, <3>3
      <4>2. e.id < h[1].id
        BY <1>2, <1>5, <3>1, <4>1
      <4>3. h[1].id <= h[2].id
        BY <4>1, <4>2 DEF Behind
      <4>4. Stays(h, r, phi, 2)
        BY <2>1, <4>1
      <4>5. n <= h[2].id
        BY <1>2, <3>1, <4>1, <4>3
      <4>6. QED
        BY <1>3, <4>1, <4>4, <4>5
    <3>4. QED
      BY <3>2, <3>3
  <2>2. ASSUME NEW i \in 1 .. Len(h), Terminal(h[i]), h[i].status = e.status,
               \A m \in 1 .. Len(h) : m = i \/ Stays(h, r, phi, m) \/ ~Terminal(h[m])
        PROVE  Covered(r, n)
    <3>1. PICK m \in 1 .. Len(h) : Terminal(h[m]) /\ n <= h[m].id
      BY <1>5, <2>2 DEF Outlived
    <3>2. h[i].id < e.id
      BY <2>2 DEF Behind
    <3>3. m # i
      BY <1>2, <1>5, <3>1, <3>2
    <3>4. QED
      BY <1>3, <2>2, <3>1, <3>3
  <2>3. QED
    BY <1>1, <2>1, <2>2
<1>6. QED
  BY <1>2, <1>4, <1>5

\* And the event f that another goroutine has yet to store is behind it as it was.
LEMMA TakenBehind ==
  ASSUME NEW h \in Seq(Event), Len(h) <= maxHistorySize, NEW e \in Event, NEW g \in Goroutine,
         e.status \in StatusOf(g), Behind(h, g, e),
         NEW f \in Event, NEW k \in Goroutine, k # g, Behind(h, k, f), e.id # f.id
  PROVE  /\ Behind(addLocked(h, e), k, f)
         /\ \A n \in Nat : f.id < n /\ Outlived(h, k, n) => Outlived(addLocked(h, e), k, n)
<1> DEFINE r == addLocked(h, e)
<1>1. PICK phi :
            /\ TakenInto(h, r, phi, e)
            /\ \/ \A m \in 1 .. Len(h) : Stays(h, r, phi, m) \/ (m = 1 /\ Len(h) > 1)
               \/ \E i \in 1 .. Len(h) :
                     /\ Terminal(h[i]) /\ h[i].status = e.status
                     /\ \A m \in 1 .. Len(h) : m = i \/ Stays(h, r, phi, m) \/ ~Terminal(h[m])
  BY Takes
<1> HIDE DEF r
<1>2. /\ Len(r) \in 1 .. Len(r) /\ Len(h) \in Nat /\ e.id \in Nat /\ f.id \in Nat
      /\ r[Len(r)].id = e.id /\ r[Len(r)].status = e.status
      /\ \A m \in 1 .. Len(h) : h[m].id \in Nat /\ (h[m].status \in StatusOf(g) \/ h[m].status \in StatusOf(k))
  <2>1. \A m \in 1 .. Len(h) : h[m] \in Event
    OBVIOUS
  <2>2. \A x \in Event : x.id \in Nat /\ (x.status \in StatusOf(g) \/ x.status \in StatusOf(k))
    BY DEF Event, StatusOf, Goroutine
  <2>3. QED
    BY <1>1, <2>1, <2>2 DEF TakenInto, Same
<1>3. e.status \notin StatusOf(k)
  BY StatusesApart
<1>4. /\ \A j \in 1 .. Len(r) : j # Len(r) => phi[j] \in 1 .. Len(h) /\ r[j] = h[phi[j]]
      /\ \A i, j \in 1 .. Len(r) : i < j /\ j # Len(r) => phi[i] < phi[j]
  BY <1>1 DEF TakenInto
<1>5. ASSUME NEW j \in 1 .. Len(r)
      PROVE  r[j].id # f.id /\ (r[j].status \in StatusOf(k) => r[j].id < f.id)
  <2>1. CASE j = Len(r)
    BY <1>2, <1>3, <2>1
  <2>2. CASE j # Len(r)
    BY <1>4, <2>2 DEF Behind
  <2>3. QED
    BY <2>1, <2>2
<1>6. ASSUME NEW i \in 1 .. Len(r), NEW j \in 1 .. Len(r), i < j, f.id < r[i].id
      PROVE  r[i].id <= r[j].id
  <2>0. i # Len(r)
    BY <1>6
  <2>1. phi[i] \in 1 .. Len(h) /\ r[i] = h[phi[i]]
    BY <1>4, <2>0
  <2>2. CASE j = Len(r)
    <3>1. ~(h[phi[i]].id < f.id)
      BY <1>2, <1>6, <2>1
    <3>2. h[phi[i]].status \in StatusOf(g)
      BY <1>2, <2>1, <3>1 DEF Behind
    <3>3. h[phi[i]].id < e.id
      BY <2>1, <3>2 DEF Behind
    <3>4. QED
      BY <1>2, <2>1, <2>2, <3>3
  <2>3. CASE j # Len(r)
    BY <1>4, <1>6, <2>1, <2>3 DEF Behind
  <2>4. QED
    BY <2>2, <2>3
<1>7. Behind(r, k, f)
  BY <1>5, <1>6 DEF Behind
<1>8. ASSUME NEW n \in Nat, f.id < n, Outlived(h, k, n)
      PROVE  Outlived(r, k, n)
  <2>1. CASE \A m \in 1 .. Len(h) : h[m].status \notin StatusOf(k)
    <3>1. ASSUME NEW j \in 1 .. Len(r)
          PROVE  r[j].status \notin StatusOf(k)
      <4>1. CASE j = Len(r)
        BY <1>2, <1>3, <4>1
      <4>2. CASE j # Len(r)
        BY <1>4, <2>1, <4>2
      <4>3. QED
        BY <4>1, <4>2
    <3>2. QED
      BY <3>1 DEF Outlived
  <2>2. ASSUME NEW m \in 1 .. Len(h), Terminal(h[m]), n <= h[m].id
        PROVE  Outlived(r, k, n)
    <3>1. CASE Stays(h, r, phi, m)
      <4>1. PICK j \in 1 .. Len(r) : j # Len(r) /\ phi[j] = m
        BY <3>1 DEF Stays
      <4>2. r[j] = h[m]
        BY <1>4, <4>1
      <4>3. QED
        BY <2>2, <4>2 DEF Outlived
    <3>2. ASSUME ~Stays(h, r, phi, m), m = 1
          PROVE  Outlived(r, k, n)
      <4>1. ASSUME NEW j \in 1 .. Len(r), j # Len(r)
            PROVE  r[j].status \notin StatusOf(k)
        <5>1. phi[j] \in 1 .. Len(h) /\ r[j] = h[phi[j]] /\ phi[j] # 1
          BY <1>4, <3>2, <4>1 DEF Stays
        <5>2. 1 \in 1 .. Len(h) /\ 1 < phi[j] /\ f.id < h[1].id
          BY <1>2, <1>8, <2>2, <3>2, <5>1
        <5>3. h[1].id <= h[phi[j]].id
          BY <5>1, <5>2 DEF Behind
        <5>4. ~(h[phi[j]].id < f.id)
          BY <1>2, <5>1, <5>2, <5>3
        <5>5. QED
          BY <5>1, <5>4 DEF Behind
      <4>2. QED
        BY <1>2, <1>3, <4>1 DEF Outlived
    <3>3. ASSUME NEW i \in 1 .. Len(h), h[i].status = e.status, m = i
          PROVE  Outlived(r, k, n)
      <4>1. h[m].id < e.id
        BY <3>3 DEF Behind
      <4>2. Terminal(r[Len(r)]) /\ n <= r[Len(r)].id
        BY <1>2, <2>2, <3>3, <4>1 DEF Terminal
      <4>3. QED
        BY <1>2, <4>2 DEF Outlived
    <3>4. QED
      BY <1>1, <2>2, <3>1, <3>2, <3>3
  <2>3. QED
    BY <1>8, <2>1, <2>2 DEF Outlived
<1>9. QED
  BY <1>7, <1>8 DEF r

\* No event that passes the history by is recorded; an outcome that is recorded is one.
LEMMA AuditableOutcomes == \A t \in auditableStatuses : t \notin unrecorded /\ t \notin inFlightStatuses
BY DEF auditableStatuses, unrecorded, inFlightStatuses

\* The history takes the event: its ID was no record's.
LEMMA LinkStore ==
  ASSUME PipelineInv, AuditInv, LinkInv, NEW g \in Goroutine, Store(g)
  PROVE  LinkInv'
<1> DEFINE e == emitting[g]
           x == stored(history, e)
           r == addLocked(history, e)
<1>1. /\ at[g] = "emitted" /\ at' = [at EXCEPT ![g] = "stored"]
      /\ emitting \in [Goroutine -> Event \cup {None}]
      /\ at \in [Goroutine -> {"done", "emitted", "stored"}]
      /\ e \in Event /\ e.status \in StatusOf(g)
      /\ HistoryOK(history) /\ TrailTypeOK
      /\ UNCHANGED <<nextEventID, byStack, auditFile>>
  BY DEF PipelineInv, PipelineTypeOK, FlightOK, AuditInv, Store, auditVars
<1>2. Logged' = Logged
  BY <1>1 DEF Logged
<1>3. at'[g] = "stored" /\ \A h \in Goroutine : h # g => at'[h] = at[h]
  BY <1>1
<1>4. CASE e.status \in unrecorded
  <2>1. UNCHANGED <<history, historyFile, emitting, unsaved>>
    BY <1>4 DEF Store
  <2>2. Audited' \subseteq Audited
    BY <1>2, <1>3, <1>4, <2>1, AuditableOutcomes DEF Audited
  <2>3. \A a \in Audited' : \E b \in Audited : Same(a, b)
    BY <2>2 DEF Same
  <2>4. \A h \in Goroutine : at'[h] = "emitted" => at[h] = "emitted" /\ emitting'[h] = emitting[h]
    BY <1>3, <2>1
  <2>5. QED
    BY <1>1, <2>1, <2>3, <2>4, LinkFrame
<1>5. CASE e.status \notin unrecorded
  <2>1. /\ history' = r /\ emitting' = [emitting EXCEPT ![g] = x]
        /\ unsaved' = unsaved \/ unsaved' = TRUE
    BY <1>5, Zenon DEF Store
  <2>2. history \in Seq(Event) /\ Len(history) <= maxHistorySize /\ Collapsed(history)
    BY <1>1 DEF HistoryOK
  <2>3. x \in Event /\ Same(x, e) /\ r \in Seq(Event)
    <3> HIDE DEF e
    <3>1. r \in Seq(Event) /\ x \in Event /\ x.id = e.id /\ x.stack = e.stack /\ x.status = e.status
      BY <1>1, <2>2, Added, Zenon
    <3>2. QED
      BY <3>1 DEF Same
  <2>4. emitting'[g] = x /\ \A h \in Goroutine : h # g => emitting'[h] = emitting[h]
    BY <1>1, <2>1
  <2>5. \A a \in Audited' : a \in Audited \/ (a = x /\ x.status \in auditableStatuses)
    BY <1>2, <1>3, <2>4 DEF Audited
  <2>6. PICK phi : TakenInto(history, r, phi, e)
    BY <1>1, <2>2, Takes
  <2> HIDE DEF e, x, r
  <2> SUFFICES ASSUME ~unsaved'
               PROVE  /\ \A i \in 1 .. Len(r) : r[i].id <= nextEventID
                      /\ \A a \in Audited' :
                            /\ Covered(r, a.id)
                            /\ \A i \in 1 .. Len(r) : r[i].id = a.id => Same(r[i], a)
                      /\ \A h \in Goroutine : at'[h] = "emitted" =>
                            /\ Behind(r, h, emitting'[h])
                            /\ \A a \in Audited' :
                                  /\ a.id # emitting'[h].id
                                  /\ emitting'[h].id < a.id => Outlived(r, h, a.id)
    BY <1>1, <2>1 DEF LinkInv, Covered, Outlived, Behind, Terminal, StatusOf
  <2>7. ~unsaved
    BY <2>1
  <2>8. /\ \A i \in 1 .. Len(history) : history[i].id <= nextEventID
        /\ \A a \in Audited :
              /\ a.id \in Nat /\ Covered(history, a.id)
              /\ \A i \in 1 .. Len(history) : history[i].id = a.id => Same(history[i], a)
              /\ a.id # e.id /\ (e.id < a.id => Outlived(history, g, a.id))
        /\ Behind(history, g, e)
    BY <1>1, <2>7, AuditedEvents DEF LinkInv, e
  <2>9. /\ Len(r) \in 1 .. Len(r) /\ Same(r[Len(r)], e)
        /\ \A k \in 1 .. Len(r) : k # Len(r) => phi[k] \in 1 .. Len(history) /\ r[k] = history[phi[k]]
    <3>1. Len(r) \in Nat \ {0} /\ Same(r[Len(r)], e)
      BY <2>6 DEF TakenInto
    <3>2. QED
      BY <2>6, <3>1 DEF TakenInto
  <2>10. e.id <= nextEventID /\ x.id = e.id /\ e.id \in Nat
    BY <1>1, <2>3 DEF PipelineInv, FlightOK, Same, Event, e
  <2>11. ASSUME NEW i \in 1 .. Len(r)
         PROVE  r[i].id <= nextEventID
    BY <2>8, <2>9, <2>10 DEF Same
  <2>12. ASSUME NEW a \in Audited'
         PROVE  /\ Covered(r, a.id)
                /\ \A i \in 1 .. Len(r) : r[i].id = a.id => Same(r[i], a)
    <3>1. CASE a \in Audited
      <4>1. Covered(r, a.id)
        BY <1>1, <2>2, <2>8, <3>1, TakenCovers DEF r
      <4>2. \A i \in 1 .. Len(r) : r[i].id = a.id => Same(r[i], a)
        BY <2>8, <2>9, <3>1 DEF Same
      <4>3. QED
        BY <4>1, <4>2
    <3>2. CASE a = x
      <4>1. Covered(r, a.id)
        <5>1. r[Len(r)].id = a.id
          BY <2>9, <2>10, <3>2 DEF Same
        <5>2. a.id <= a.id
          BY <2>10, <3>2
        <5>3. QED
          BY <2>9, <5>1, <5>2 DEF Covered
      <4>2. ASSUME NEW i \in 1 .. Len(r), r[i].id = a.id
            PROVE  Same(r[i], a)
        <5>1. CASE i = Len(r)
          BY <2>3, <2>9, <3>2, <5>1 DEF Same
        <5>2. CASE i # Len(r)
          BY <2>8, <2>9, <2>10, <3>2, <4>2, <5>2 DEF Behind
        <5>3. QED
          BY <5>1, <5>2
      <4>3. QED
        BY <4>1, <4>2
    <3>3. QED
      BY <2>5, <3>1, <3>2
  <2>13. ASSUME NEW h \in Goroutine, at'[h] = "emitted"
         PROVE  /\ Behind(r, h, emitting'[h])
                /\ \A a \in Audited' :
                      a.id # emitting'[h].id /\ (emitting'[h].id < a.id => Outlived(r, h, a.id))
    <3> DEFINE f == emitting[h]
    <3>1. h # g /\ at[h] = "emitted" /\ emitting'[h] = f
      BY <1>3, <2>4, <2>13
    <3>2. /\ f \in Event /\ f.id # e.id /\ Behind(history, h, f)
          /\ \A a \in Audited : a.id # f.id /\ (f.id < a.id => Outlived(history, h, a.id))
      BY <1>1, <2>7, <3>1 DEF PipelineInv, PipelineTypeOK, FlightOK, LinkInv, e
    <3> HIDE DEF f
    <3>3. /\ Behind(r, h, f)
          /\ \A n \in Nat : f.id < n /\ Outlived(history, h, n) => Outlived(r, h, n)
      BY <1>1, <2>2, <2>8, <3>1, <3>2, TakenBehind DEF r
    <3>4. ASSUME NEW a \in Audited'
          PROVE  a.id # f.id /\ (f.id < a.id => Outlived(r, h, a.id))
      <4>1. CASE a \in Audited
        BY <2>8, <3>2, <3>3, <4>1
      <4>2. CASE a = x /\ x.status \in auditableStatuses
        <5>1. Terminal(r[Len(r)]) /\ r[Len(r)].id = a.id
          BY <2>3, <2>9, <4>2, AuditableOutcomes DEF Same, Terminal
        <5>2. a.id <= a.id
          BY <2>10, <4>2
        <5>3. QED
          BY <2>9, <2>10, <3>2, <4>2, <5>1, <5>2 DEF Outlived
      <4>3. QED
        BY <2>5, <4>1, <4>2
    <3>5. QED
      BY <3>1, <3>3, <3>4
  <2>14. QED
    BY <2>11, <2>12, <2>13
<1>6. QED
  BY <1>4, <1>5

\* The log takes the event: the record is the event's.
LEMMA LinkDeliver ==
  ASSUME PipelineInv, AuditInv, LinkInv, NEW g \in Goroutine, Deliver(g)
  PROVE  LinkInv'
<1> DEFINE e == emitting[g]
           r == recordFromEvent(e)
<1>1. /\ at[g] = "stored" /\ at' = [at EXCEPT ![g] = "done"]
      /\ emitting' = [emitting EXCEPT ![g] = None]
      /\ Record(e) /\ UNCHANGED <<history, nextEventID, unsaved>>
  BY DEF Deliver
<1>2. /\ emitting \in [Goroutine -> Event \cup {None}]
      /\ at \in [Goroutine -> {"done", "emitted", "stored"}]
      /\ TrailTypeOK
  BY DEF PipelineInv, PipelineTypeOK, AuditInv
<1>3. /\ at'[g] = "done"
      /\ \A h \in Goroutine : h # g => emitting'[h] = emitting[h] /\ at'[h] = at[h]
  BY <1>1, <1>2
<1>4. ASSUME NEW a \in Logged'
      PROVE  \E b \in Audited : Same(a, b)
  <2>1. CASE e.status \notin auditableStatuses
    <3>1. UNCHANGED <<byStack, auditFile>>
      BY <1>1, <2>1 DEF Record, auditVars
    <3>2. a \in Audited
      BY <3>1 DEF Logged, Audited
    <3>3. QED
      BY <3>2 DEF Same
  <2>2. CASE e.status \in auditableStatuses
    <3>1. /\ r \in Event /\ Same(r, e)
          /\ WithRecord(byStack, r, byStack')
          /\ \A x \in Logged' : x \in Logged \/ x = r \/ x \in ToSet(byStack'[r.stack])
      BY <1>1, <1>2, <2>2, Records, Zenon
    <3>2. e \in Audited
      BY <1>1, <2>2 DEF Audited
    <3> HIDE DEF r, e
    <3>3. byStack \in [Stack -> Seq(Event)] /\ r.stack \in Stack
      BY <1>2, <3>1 DEF TrailTypeOK, Event
    <3>4. \A x \in ToSet(byStack'[r.stack]) : x \in ToSet(byStack[r.stack]) \/ Same(x, r)
      BY <3>1, <3>3, Recorded
    <3>5. CASE a \in Logged
      BY <3>5 DEF Audited, Same
    <3>6. CASE Same(a, r)
      <4>1. Same(a, e)
        BY <3>1, <3>6 DEF Same
      <4>2. QED
        BY <3>2, <4>1
    <3>7. CASE a = r
      BY <3>1, <3>2, <3>7
    <3>8. CASE a \in ToSet(byStack'[r.stack])
      <4>1. CASE a \in ToSet(byStack[r.stack])
        <5>1. a \in Logged
          BY <3>3, <4>1 DEF Logged
        <5>2. QED
          BY <3>5, <5>1
      <4>2. QED
        BY <3>4, <3>6, <3>8, <4>1
    <3>9. QED
      BY <3>1, <3>5, <3>7, <3>8
  <2>3. QED
    BY <2>1, <2>2
<1>5. ASSUME NEW a \in Audited'
      PROVE  \E b \in Audited : Same(a, b)
  <2>1. CASE a \in Logged'
    BY <1>4, <2>1
  <2>2. CASE a \notin Logged'
    <3>1. PICK h \in Goroutine : a = emitting'[h] /\ at'[h] = "stored" /\ emitting'[h].status \in auditableStatuses
      BY <2>2 DEF Audited
    <3>2. h # g /\ a = emitting[h] /\ at[h] = "stored"
      BY <1>3, <3>1
    <3>3. a \in Audited
      BY <1>3, <3>1, <3>2 DEF Audited
    <3>4. QED
      BY <3>3 DEF Same
  <2>3. QED
    BY <2>1, <2>2
<1>6. \A h \in Goroutine : at'[h] = "emitted" => at[h] = "emitted" /\ emitting'[h] = emitting[h]
  BY <1>3
<1>7. QED
  BY <1>1, <1>5, <1>6, LinkFrame

\* A new process starts over above every ID that the history and the log hold.
LEMMA LinkRestart ==
  ASSUME PipelineInv, AuditInv, LinkInv, NEW file, NewProcess(file),
         file = auditFile \/ file = Append(auditFile, Torn)
  PROVE  LinkInv'
<1>1. TrailTypeOK
  BY DEF AuditInv
<1>2. /\ at' = [g \in Goroutine |-> "done"]
      /\ \A s \in Stack : \A x \in ToSet(byStack'[s]) :
            /\ x.stack = s
            /\ \E y \in Logged : Same(x, y)
            /\ LinesAscend(file) => \E y \in Logged : y.stack = s /\ y.latest = x.latest
      /\ \A x \in Logged' : x \in Logged \/ \E s \in Stack : x \in ToSet(byStack'[s])
  BY <1>1, Reloads, Zenon
<1>3. history' = loadHistory(historyFile) /\ nextEventID' = MaxEventID(history') /\ unsaved' = unsaved
  BY DEF NewProcess
<1> SUFFICES ASSUME ~unsaved'
             PROVE  /\ \A i \in 1 .. Len(history') : history'[i].id <= nextEventID'
                    /\ \A a \in Audited' :
                          /\ Covered(history', a.id)
                          /\ \A i \in 1 .. Len(history') : history'[i].id = a.id => Same(history'[i], a)
                    /\ \A g \in Goroutine : at'[g] # "emitted"
  BY DEF LinkInv, Covered
<1>4. /\ historyFile = history /\ historyFile \in Seq(Event) /\ Len(historyFile) <= maxHistorySize
      /\ Collapsed(historyFile) /\ top \in Nat /\ \A x \in ToSet(historyFile) : x.id <= top
  BY <1>3 DEF PipelineInv, TopOK, PipelineTypeOK, StreamTypeOK, HistoryOK
<1>5. history' = history
  BY <1>3, <1>4, Loaded
<1>6. \A i \in 1 .. Len(history) : history[i].id <= nextEventID'
  <2>1. \A x \in ToSet(history) : x.id <= MaxEventID(history)
    BY <1>4, MaxID
  <2>2. ToSet(history) = {history[i] : i \in 1 .. Len(history)}
    BY <1>4, Elems
  <2>3. QED
    BY <1>3, <1>5, <2>1, <2>2
<1>7. ASSUME NEW a \in Audited'
      PROVE  \E b \in Audited : Same(a, b)
  <2>1. a \in Logged'
    BY <1>2 DEF Audited
  <2>2. \E b \in Logged : Same(a, b)
    BY <1>2, <2>1 DEF Same
  <2>3. QED
    BY <2>2 DEF Audited
<1>8. ASSUME NEW a \in Audited'
      PROVE  /\ Covered(history, a.id)
             /\ \A i \in 1 .. Len(history) : history[i].id = a.id => Same(history[i], a)
  <2>1. PICK b \in Audited : Same(a, b)
    BY <1>7
  <2>2. a.id = b.id /\ a.stack = b.stack /\ a.status = b.status
    BY <2>1 DEF Same
  <2>3. QED
    BY <1>3, <2>2 DEF LinkInv, Same
<1>9. \A g \in Goroutine : at'[g] # "emitted"
  BY <1>2
<1>10. QED
  BY <1>5, <1>6, <1>8, <1>9

\* Whatever the order of the log's records, each is of the stack it is listed under.
OwnRecords == \A s \in Stack : \A x \in ToSet(byStack[s]) : x.stack = s

\* A record is listed under its event's stack, and records are not moved.
LEMMA OwnDeliver ==
  ASSUME PipelineInv, AuditInv, OwnRecords, NEW g \in Goroutine, Deliver(g)
  PROVE  OwnRecords'
<1> DEFINE e == emitting[g]
           r == recordFromEvent(e)
<1>1. at[g] = "stored" /\ Record(e) /\ TrailTypeOK
  BY DEF Deliver, AuditInv
<1>2. CASE e.status \notin auditableStatuses
  BY <1>1, <1>2 DEF Record, auditVars, OwnRecords
<1>3. CASE e.status \in auditableStatuses
  <2>1. r \in Event /\ WithRecord(byStack, r, byStack')
    BY <1>1, <1>3, Records, Zenon
  <2> HIDE DEF r, e
  <2>2. byStack \in [Stack -> Seq(Event)]
    BY <1>1 DEF TrailTypeOK
  <2>3. /\ \A s \in Stack : s # r.stack => byStack'[s] = byStack[s]
        /\ \A x \in ToSet(byStack'[r.stack]) : x \in ToSet(byStack[r.stack]) \/ Same(x, r)
    BY <2>1, <2>2, Recorded
  <2>4. ASSUME NEW s \in Stack, NEW x \in ToSet(byStack'[s])
        PROVE  x.stack = s
    <3>1. CASE s = r.stack
      BY <2>3, <2>4, <3>1 DEF Same, OwnRecords
    <3>2. CASE s # r.stack
      BY <2>3, <2>4, <3>2 DEF OwnRecords
    <3>3. QED
      BY <3>1, <3>2
  <2>5. QED
    BY <2>4 DEF OwnRecords
<1>4. QED
  BY <1>2, <1>3

\* A new process lists what it loads under the stack each line names.
LEMMA OwnRestart ==
  ASSUME PipelineInv, AuditInv, NEW file, NewProcess(file),
         file = auditFile \/ file = Append(auditFile, Torn)
  PROVE  OwnRecords'
<1>1. TrailTypeOK
  BY DEF AuditInv
<1>2. \A s \in Stack : \A x \in ToSet(byStack'[s]) : x.stack = s
  BY <1>1, Reloads, Zenon
<1>3. QED
  BY <1>2 DEF OwnRecords

\* A new system has stored nothing.
LEMMA LinkInit == Init => LinkInv /\ OwnRecords
<1> SUFFICES ASSUME Init
             PROVE  LinkInv /\ OwnRecords
  OBVIOUS
<1>1. /\ byStack = [s \in Stack |-> <<>>] /\ auditFile = <<>> /\ at = [g \in Goroutine |-> "done"]
      /\ history = <<>>
  BY DEF Init
<1>2. Logged = {}
  BY <1>1 DEF Logged, ToSet
<1>3. Audited = {} /\ \A g \in Goroutine : at[g] # "emitted"
  BY <1>1, <1>2 DEF Audited
<1>4. OwnRecords
  BY <1>1 DEF OwnRecords, ToSet
<1>5. QED
  BY <1>1, <1>3, <1>4 DEF LinkInv

\* The invariants of the pipeline, the trail and the links together.
LinkedInv == PipelineInv /\ AuditInv /\ LinkInv /\ OwnRecords

\* No step breaks them: one case per action.
LEMMA LinkedStep ==
  ASSUME LinkedInv, [Next]_vars
  PROVE  LinkedInv'
<1>0. PipelineInv /\ AuditInv /\ LinkInv /\ OwnRecords /\ PipelineInv' /\ AuditInv'
  BY PipelineStep, AuditStep DEF LinkedInv
<1> SUFFICES LinkInv' /\ OwnRecords'
  BY <1>0 DEF LinkedInv
<1>a. ASSUME UNCHANGED byStack PROVE OwnRecords'
  BY <1>0, <1>a DEF OwnRecords
<1>1. ASSUME NEW g \in Goroutine, EmitSome(g) PROVE LinkInv' /\ OwnRecords'
  <2>1. PICK s \in Stack, status \in StatusOf(g) : Emit(g, s, status)
    BY <1>1, Zenon DEF EmitSome, StatusOf
  <2>2. UNCHANGED byStack
    BY <2>1 DEF Emit, auditVars
  <2>3. QED
    BY <1>0, <1>a, <2>1, <2>2, LinkEmit
<1>2. ASSUME NEW g \in Goroutine, Store(g) PROVE LinkInv' /\ OwnRecords'
  <2>1. UNCHANGED byStack
    BY <1>2 DEF Store, auditVars
  <2>2. QED
    BY <1>0, <1>a, <1>2, <2>1, LinkStore
<1>3. ASSUME NEW g \in Goroutine, Deliver(g) PROVE LinkInv' /\ OwnRecords'
  BY <1>0, <1>3, LinkDeliver, OwnDeliver
<1>4. ASSUME NEW g \in Goroutine, CrashInAppend(g) PROVE LinkInv' /\ OwnRecords'
  BY <1>0, <1>4, LinkRestart, OwnRestart, Zenon DEF CrashInAppend
<1>5. ASSUME UNCHANGED <<nextEventID, emitting, at, history, unsaved, byStack, auditFile>>
      PROVE  LinkInv' /\ OwnRecords'
  <2>1. Audited' = Audited
    BY <1>5 DEF Audited, Logged
  <2>2. \A a \in Audited' : \E b \in Audited : Same(a, b)
    BY <2>1 DEF Same
  <2>3. QED
    BY <1>0, <1>a, <1>5, <2>2, LinkFrame
<1>6. CASE Client
  <2>1. UNCHANGED <<emitVars, historyVars, auditVars>>
    BY <1>6 DEF Client, Subscribe, Replay, Send, Disconnect
  <2>2. QED
    BY <1>5, <2>1 DEF emitVars, historyVars, auditVars
<1>7. CASE Crash
  BY <1>0, <1>7, LinkRestart, OwnRestart, Zenon DEF Crash
<1>8. CASE UNCHANGED vars
  BY <1>5, <1>8 DEF vars, emitVars, historyVars, auditVars
<1>9. QED
  BY <1>1, <1>2, <1>3, <1>4, <1>6, <1>7, <1>8, Zenon DEF Next

\* An event that links a rollback is emitted with the ID of a rollback of its stack.
LEMMA LinksAtEmit ==
  ASSUME LinkedInv, [Next]_vars, NEW g \in Goroutine, emitting[g] = None, emitting'[g] # None,
         ~unsaved, emitting'[g].rollback # 0
  PROVE  \E i \in DOMAIN history :
            /\ history[i].id = emitting'[g].rollback
            /\ history[i].stack = emitting'[g].stack
            /\ history[i].status \in {"rolled_back", "rolled_back_unhealthy"}
<1>0. /\ emitting \in [Goroutine -> Event \cup {None}]
      /\ \A h \in Goroutine : at[h] = "done" <=> emitting[h] = None
      /\ history \in Seq(Event) /\ byStack \in [Stack -> Seq(Event)]
  BY DEF LinkedInv, PipelineInv, PipelineTypeOK, HistoryOK, AuditInv, TrailTypeOK
<1>1. PICK s \in Stack, status \in StatusOf(g) : Emit(g, s, status)
  <2>1. CASE EmitSome(g)
    BY <2>1, Zenon DEF EmitSome, StatusOf
  <2>2. ASSUME NEW h \in Goroutine, h # g, EmitSome(h) PROVE FALSE
    <3>1. PICK s \in Stack, status \in StatusOf(h) : Emit(h, s, status)
      BY <2>2, Zenon DEF EmitSome, StatusOf
    <3>2. PICK e : emitting' = [emitting EXCEPT ![h] = e]
      BY <3>1, Zenon DEF Emit
    <3>3. QED
      BY <1>0, <2>2, <3>2
  <2>3. ASSUME NEW h \in Goroutine, Store(h) PROVE FALSE
    <3>1. h # g
      BY <1>0, <2>3 DEF Store
    <3>2. PICK e : emitting' = [emitting EXCEPT ![h] = e]
      BY <2>3, StoredEvent DEF LinkedInv
    <3>3. QED
      BY <1>0, <3>1, <3>2
  <2>4. ASSUME NEW h \in Goroutine, Deliver(h) PROVE FALSE
    BY <1>0, <2>4 DEF Deliver
  <2>5. ASSUME NEW file, NewProcess(file) PROVE FALSE
    BY <2>5 DEF NewProcess
  <2>6. ASSUME NEW h \in Goroutine, CrashInAppend(h) PROVE FALSE
    BY <2>5, <2>6, Zenon DEF CrashInAppend
  <2>7. CASE Crash
    BY <2>5, <2>7, Zenon DEF Crash
  <2>8. CASE Client
    BY <2>8 DEF Client, Subscribe, Replay, Send, Disconnect, emitVars
  <2>9. CASE UNCHANGED vars
    BY <2>9 DEF vars, emitVars
  <2>10. QED
    BY <2>1, <2>2, <2>3, <2>4, <2>6, <2>7, <2>8, <2>9, Zenon DEF Next
<1> DEFINE prev == lastOutcome(s)
           retry == status = "success" /\ prev.status \in {"rolled_back", "rolled_back_unhealthy"}
           link == IF retry THEN prev.id ELSE 0
           e == [id |-> nextEventID', stack |-> s, status |-> status, count |-> 0,
                 first |-> 0, latest |-> clock', rollback |-> link]
           q == byStack[s]
<1>2. emitting' = [emitting EXCEPT ![g] = e]
  BY <1>1, Zenon DEF Emit
<1> HIDE DEF prev
<1>3. emitting'[g] = e
  BY <1>0, <1>2
<1>4. emitting'[g].rollback = link /\ emitting'[g].stack = s
  BY <1>3
<1>5. retry /\ link = prev.id /\ prev.id # 0
  BY <1>4
<1>6. q # <<>> /\ prev = [status |-> Last(q).status, id |-> IF EventByID(history, Last(q).id) THEN Last(q).id ELSE 0]
  <2>1. CASE q = <<>>
    <3>1. prev = [status |-> None, id |-> 0]
      BY <2>1, Zenon DEF lastOutcome, prev
    <3>2. QED
      BY <1>5, <3>1
  <2>2. CASE q # <<>>
    BY <2>2, Zenon DEF lastOutcome, prev
  <2>3. QED
    BY <2>1, <2>2
<1> DEFINE a == Last(q)
<1>7. a \in ToSet(q) /\ a.stack = s
  <2>1. q \in Seq(Event) /\ \A x \in ToSet(q) : x.stack = s
    BY <1>0 DEF LinkedInv, OwnRecords
  <2> HIDE DEF q
  <2>2. Len(q) \in 1 .. Len(q) /\ Last(q) = q[Len(q)]
    BY <1>6, <2>1 DEF Last
  <2>3. Last(q) \in ToSet(q)
    BY <2>1, <2>2, Elems
  <2>4. QED
    BY <2>1, <2>3
<1>8. prev.status = a.status /\ prev.id = a.id /\ EventByID(history, a.id)
  <2> HIDE DEF a, q
  <2> QED
    BY <1>5, <1>6 DEF a
<1>9. PICK i \in DOMAIN history : history[i].id = a.id
  BY <1>8 DEF EventByID
<1>10. a \in Audited
  <2>1. a \in Logged
    BY <1>7 DEF Logged
  <2>2. QED
    BY <2>1 DEF Audited
<1>11. i \in 1 .. Len(history)
  BY <1>0
<1> HIDE DEF a
<1>12. Same(history[i], a)
  BY <1>9, <1>10, <1>11 DEF LinkedInv, LinkInv
<1>13. history[i].id = emitting'[g].rollback /\ history[i].stack = emitting'[g].stack
  BY <1>4, <1>5, <1>7, <1>8, <1>12 DEF Same
<1>14. history[i].status \in {"rolled_back", "rolled_back_unhealthy"}
  BY <1>5, <1>8, <1>12 DEF Same
<1>15. QED
  BY <1>13, <1>14

\* A success that retries a rollback links an event that is a rollback of its stack,
\* across trimming, collapsing and restarts.
THEOREM LinksAreRollbacks == Spec => LinkIsRollback
<1>1. Init => LinkedInv
  BY PipelineInit, AuditInit, LinkInit DEF LinkedInv
<1>2. LinkedInv /\ [Next]_vars => LinkedInv'
  BY LinkedStep
<1>3. LinkedInv /\ [Next]_vars =>
         [\A g \in Goroutine :
            (emitting[g] = None /\ emitting'[g] # None /\ ~unsaved /\ emitting'[g].rollback # 0) =>
                \E i \in DOMAIN history :
                    /\ history[i].id = emitting'[g].rollback
                    /\ history[i].stack = emitting'[g].stack
                    /\ history[i].status \in {"rolled_back", "rolled_back_unhealthy"}]_vars
  BY LinksAtEmit
<1>4. QED
  BY <1>1, <1>2, <1>3, PTL DEF Spec, LinkIsRollback
=============================================================================
