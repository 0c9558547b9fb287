-------------------------- MODULE UpdateCheckProofs --------------------------
(***************************************************************************)
(* For every number of stacks, tags, targets and events: NewerTag finds    *)
(* the newest version, markers are about what runs, an update is alerted   *)
(* once, and every alert is accounted for at every target.                 *)
(***************************************************************************)
EXTENDS UpdateCheck, TLAPS, NaturalsInduction, WellFoundedInduction

\* A set of numbers that has a member has a least one.
LEMMA LeastNat ==
  ASSUME NEW S, S \subseteq Nat, S # {}
  PROVE  \E n \in S : \A m \in Nat : m < n => m \notin S
<1>1. PICK n \in S : \A m \in S : ~(<<m, n>> \in OpToRel(<, Nat))
  BY NatLessThanWellFounded, WFMin, Zenon
<1>2. ASSUME NEW m \in Nat, m < n
      PROVE  m \notin S
  BY <1>1, <1>2 DEF OpToRel
<1>3. QED
  BY <1>2

-----------------------------------------------------------------------------
(* Image tags.                                                             *)

\* NewerTag's `newer`: the tag to suggest instead of the best one so far.
Better(cur, best, t) == parseTagShape(t) /\ comparable(cur, t) /\ less(best, t)

\* f[i] is the best of the first i tags.
BestSoFar(f, cur, ts) ==
    f = [i \in 0 .. Len(ts) |->
            IF i = 0 THEN cur
            ELSE IF Better(cur, f[i - 1], ts[i]) THEN ts[i] ELSE f[i - 1]]

\* The loop of NewerTag has a result: one best tag after another.
LEMMA BestExists ==
  ASSUME NEW cur, NEW ts, Len(ts) \in Nat
  PROVE  \E f : BestSoFar(f, cur, ts)
<1> DEFINE Upto(n, f) == f = [i \in 0 .. n |->
            IF i = 0 THEN cur
            ELSE IF Better(cur, f[i - 1], ts[i]) THEN ts[i] ELSE f[i - 1]]
           Bad == {n \in Nat : ~\E f : Upto(n, f)}
<1>1. ASSUME NEW n \in Bad, \A m \in Nat : m < n => m \notin Bad
      PROVE  FALSE
  <2>1. CASE n = 0
    <3>1. Upto(0, [i \in 0 .. 0 |-> cur])
      OBVIOUS
    <3>2. QED
      BY <2>1, <3>1
  <2>2. CASE n # 0
    <3>1. PICK g : Upto(n - 1, g)
      BY <1>1, <2>2
    <3> DEFINE last == IF Better(cur, g[n - 1], ts[n]) THEN ts[n] ELSE g[n - 1]
               h == [i \in 0 .. n |-> IF i = n THEN last ELSE g[i]]
    <3>2. \A i \in 0 .. n - 1 : h[i] = g[i]
      BY <2>2
    <3>3. \A i \in 0 .. n - 1 : g[i] = IF i = 0 THEN cur
            ELSE IF Better(cur, g[i - 1], ts[i]) THEN ts[i] ELSE g[i - 1]
      BY <3>1
    <3>4. ASSUME NEW i \in 0 .. n
          PROVE  h[i] = IF i = 0 THEN cur
            ELSE IF Better(cur, h[i - 1], ts[i]) THEN ts[i] ELSE h[i - 1]
      <4>1. CASE i = n
        BY <2>2, <3>2, <4>1
      <4>2. CASE i # n
        BY <3>2, <3>3, <4>2
      <4>3. QED
        BY <4>1, <4>2
    <3>5. Upto(n, h)
      BY <3>4
    <3>6. QED
      BY <3>5
  <2>3. QED
    BY <2>1, <2>2
<1>2. Bad = {}
  BY <1>1, LeastNat
<1>3. QED
  BY <1>2 DEF BestSoFar

\* NewerTag returns the last of them.
LEMMA NewerTagIsBest ==
  ASSUME NEW cur, NEW ts, Len(ts) \in Nat, parseTagShape(cur)
  PROVE  \E f : BestSoFar(f, cur, ts) /\ NewerTag(cur, ts) = f[Len(ts)]
<1> DEFINE best == CHOOSE f : BestSoFar(f, cur, ts)
<1>1. BestSoFar(best, cur, ts)
  BY BestExists
<1>2. NewerTag(cur, ts) = best[Len(ts)]
  BY DEF NewerTag, BestSoFar, Better
<1>3. QED
  BY <1>1, <1>2

\* `less` on the numbers alone.
NumsLess(x, y) ==
    \E k \in 1 .. Len(x) : x[k] < y[k] /\ \A j \in 1 .. k - 1 : x[j] = y[j]

\* It is a strict order on numbers of one length.
LEMMA NumsLessIsOrder ==
  ASSUME NEW x \in Seq(Nat), NEW y \in Seq(Nat), NEW z \in Seq(Nat),
         Len(x) = Len(y), Len(y) = Len(z)
  PROVE  ~NumsLess(x, x) /\ (NumsLess(x, y) /\ NumsLess(y, z) => NumsLess(x, z))
<1>0. \A j \in 1 .. Len(x) : x[j] \in Nat /\ y[j] \in Nat /\ z[j] \in Nat
  OBVIOUS
<1>1. ~NumsLess(x, x)
  BY <1>0 DEF NumsLess
<1>2. ASSUME NumsLess(x, y), NumsLess(y, z)
      PROVE  NumsLess(x, z)
  <2>1. PICK a \in 1 .. Len(x) : x[a] < y[a] /\ \A j \in 1 .. a - 1 : x[j] = y[j]
    BY <1>2 DEF NumsLess
  <2>2. PICK b \in 1 .. Len(x) : y[b] < z[b] /\ \A j \in 1 .. b - 1 : y[j] = z[j]
    BY <1>2 DEF NumsLess
  <2>3. CASE a < b
    <3>1. x[a] < z[a] /\ \A j \in 1 .. a - 1 : x[j] = z[j]
      BY <2>1, <2>2, <2>3
    <3>2. QED
      BY <3>1 DEF NumsLess
  <2>4. CASE ~(a < b)
    <3>1. x[b] < z[b]
      <4>1. CASE a = b
        BY <1>0, <2>1, <2>2, <4>1
      <4>2. CASE a # b
        BY <2>1, <2>2, <2>4, <4>2
      <4>3. QED
        BY <4>1, <4>2
    <3>2. \A j \in 1 .. b - 1 : x[j] = z[j]
      BY <2>1, <2>2, <2>4
    <3>3. QED
      BY <3>1, <3>2 DEF NumsLess
  <2>5. QED
    BY <2>3, <2>4
<1>3. QED
  BY <1>1, <1>2

\* Version numbers are ordered: by the first place at which they differ.
LEMMA LessIsOrder ==
  ASSUME NEW s, NEW o, NEW p, s.nums \in Seq(Nat), o.nums \in Seq(Nat), p.nums \in Seq(Nat),
         Len(s.nums) = Len(o.nums), Len(o.nums) = Len(p.nums)
  PROVE  ~less(s, s) /\ (less(s, o) /\ less(o, p) => less(s, p))
<1>1. ~NumsLess(s.nums, s.nums)
  BY NumsLessIsOrder, Zenon
<1>2. NumsLess(s.nums, o.nums) /\ NumsLess(o.nums, p.nums) => NumsLess(s.nums, p.nums)
  BY NumsLessIsOrder, Zenon
<1>3. DOMAIN s.nums = 1 .. Len(s.nums) /\ DOMAIN o.nums = 1 .. Len(o.nums)
  OBVIOUS
<1>4. QED
  BY <1>1, <1>2, <1>3, Zenon DEF less, NumsLess

\* An upgrade is what `newer` looks for.
LEMMA UpgradeIsLess ==
  ASSUME NEW t, NEW u, t.nums \in Seq(Nat), u.nums \in Seq(Nat)
  PROVE  Upgrade(t, u) <=> parseTagShape(t) /\ comparable(t, u) /\ less(t, u)
<1>1. ASSUME NEW x \in Seq(Nat), NEW y \in Seq(Nat), Len(x) = Len(y), NEW k \in 1 .. Len(x)
      PROVE  SubSeq(x, 1, k - 1) = SubSeq(y, 1, k - 1) <=> \A j \in 1 .. k - 1 : x[j] = y[j]
  <2> DEFINE v == SubSeq(x, 1, k - 1)
             w == SubSeq(y, 1, k - 1)
  <2>1. /\ v \in Seq(Nat) /\ Len(v) = k - 1 /\ \A j \in 1 .. k - 1 : v[j] = x[j]
        /\ w \in Seq(Nat) /\ Len(w) = k - 1 /\ \A j \in 1 .. k - 1 : w[j] = y[j]
    BY <1>1
  <2> HIDE DEF v, w
  <2>2. v = w <=> \A j \in 1 .. k - 1 : v[j] = w[j]
    BY <2>1
  <2>3. QED
    BY <2>1, <2>2 DEF v, w
<1>2. Len(t.nums) = Len(u.nums) =>
        \A k \in 1 .. Len(t.nums) :
            SubSeq(t.nums, 1, k - 1) = SubSeq(u.nums, 1, k - 1)
                <=> \A j \in 1 .. k - 1 : t.nums[j] = u.nums[j]
  BY <1>1, Zenon
<1>3. DOMAIN t.nums = 1 .. Len(t.nums)
  OBVIOUS
<1>4. QED
  BY <1>2, <1>3, Zenon DEF Upgrade, parseTagShape, comparable, less

\* What NewerTag has found after i tags: nothing, or a listed upgrade of the
\* running tag that none of them is an upgrade of.
Best(cur, ts, i, b) ==
    \/ b = cur /\ \A j \in 1 .. i : ~Upgrade(cur, ts[j])
    \/ /\ \E j \in 1 .. i : b = ts[j]
       /\ Upgrade(cur, b) /\ \A j \in 1 .. i : ~Upgrade(b, ts[j])

\* The next tag replaces the best one exactly if it is an upgrade of it.
LEMMA NextBest ==
  ASSUME NEW cur, NEW ts \in Seq(AllTags), NEW i \in 1 .. Len(ts), NEW b,
         cur.nums \in Seq(Nat), parseTagShape(cur), Best(cur, ts, i - 1, b)
  PROVE  Best(cur, ts, i, IF Better(cur, b, ts[i]) THEN ts[i] ELSE b)
<1>1. \A j \in 1 .. Len(ts) : ts[j].nums \in Seq(Nat)
  BY UpdateAssumption
<1>2. b.nums \in Seq(Nat) /\ (b = cur \/ Upgrade(cur, b))
  BY <1>1 DEF Best
<1>3. b = cur \/ (comparable(cur, b) /\ less(cur, b))
  <2>1. Upgrade(cur, b) <=> parseTagShape(cur) /\ comparable(cur, b) /\ less(cur, b)
    BY <1>2, UpgradeIsLess
  <2>2. QED
    BY <1>2, <2>1, Zenon
<1>4. Better(cur, b, ts[i]) <=> Upgrade(b, ts[i])
  <2>1. Upgrade(b, ts[i]) <=> parseTagShape(b) /\ comparable(b, ts[i]) /\ less(b, ts[i])
    BY <1>1, <1>2, UpgradeIsLess
  <2>2. parseTagShape(b) /\ (comparable(b, ts[i]) <=> comparable(cur, ts[i]))
    BY <1>2, <1>3 DEF comparable, parseTagShape, Upgrade
  <2>3. comparable(cur, ts[i]) => parseTagShape(ts[i])
    BY <1>1 DEF comparable, parseTagShape
  <2>4. QED
    BY <2>1, <2>2, <2>3 DEF Better
<1>5. CASE ~Better(cur, b, ts[i])
  <2>1. \A j \in 1 .. i - 1 : j \in 1 .. i
    OBVIOUS
  <2>2. \A j \in 1 .. i : j \in 1 .. i - 1 \/ j = i
    OBVIOUS
  <2>3. QED
    BY <1>4, <1>5, <2>1, <2>2 DEF Best
<1>6. CASE Better(cur, b, ts[i])
  <2>1. comparable(b, ts[i]) /\ less(b, ts[i])
    BY <1>1, <1>2, <1>4, <1>6, UpgradeIsLess
  <2>2. Upgrade(cur, ts[i])
    <3>1. less(cur, ts[i])
      BY <1>1, <1>2, <1>3, <2>1, LessIsOrder DEF comparable
    <3>2. QED
      BY <1>1, <1>6, <3>1, UpgradeIsLess DEF Better
  <2>3. ASSUME NEW j \in 1 .. i, Upgrade(ts[i], ts[j])
        PROVE  FALSE
    <3>1. comparable(ts[i], ts[j]) /\ less(ts[i], ts[j])
      BY <1>1, <2>3, UpgradeIsLess
    <3>2. j # i
      BY <1>1, <3>1, LessIsOrder
    <3>n. /\ b.nums \in Seq(Nat) /\ ts[i].nums \in Seq(Nat) /\ ts[j].nums \in Seq(Nat)
          /\ Len(b.nums) = Len(ts[i].nums) /\ Len(ts[i].nums) = Len(ts[j].nums)
      BY <1>1, <1>2, <2>1, <3>1 DEF comparable
    <3>l. less(b, ts[j])
      BY <2>1, <3>1, <3>n, LessIsOrder, Zenon
    <3>3. comparable(b, ts[j]) /\ parseTagShape(b)
      BY <1>2, <2>1, <3>1 DEF comparable, Upgrade, parseTagShape
    <3>4. Upgrade(b, ts[j])
      BY <3>n, <3>l, <3>3, UpgradeIsLess, Zenon
    <3>5. j \in 1 .. i - 1
      BY <3>2
    <3>6. QED
      BY <3>4, <3>5 DEF Best
  <2>4. QED
    BY <1>6, <2>2, <2>3 DEF Best
<1>7. QED
  BY <1>5, <1>6

\* NewerTag suggests the newest listed version of the same shape, if one is newer.
LEMMA NewerTagIsNewest ==
  ASSUME NEW cur, NEW ts \in Seq(AllTags), cur.nums \in Seq(Nat)
  PROVE  Best(cur, ts, Len(ts), NewerTag(cur, ts))
<1>1. CASE ~parseTagShape(cur)
  <2>1. NewerTag(cur, ts) = cur
    BY <1>1 DEF NewerTag
  <2>2. QED
    BY <1>1, <2>1 DEF Best, Upgrade, parseTagShape
<1>2. CASE parseTagShape(cur)
  <2>0. Len(ts) \in Nat
    OBVIOUS
  <2>1. PICK f : BestSoFar(f, cur, ts) /\ NewerTag(cur, ts) = f[Len(ts)]
    BY <1>2, <2>0, NewerTagIsBest
  <2>2. \A i \in 0 .. Len(ts) : f[i] =
            IF i = 0 THEN cur
            ELSE IF Better(cur, f[i - 1], ts[i]) THEN ts[i] ELSE f[i - 1]
    BY <2>1 DEF BestSoFar
  <2> DEFINE Bad == {i \in 0 .. Len(ts) : ~Best(cur, ts, i, f[i])}
  <2>3. ASSUME NEW n \in Bad, \A m \in Nat : m < n => m \notin Bad
        PROVE  FALSE
    <3>1. CASE n = 0
      BY <2>2, <2>3, <3>1 DEF Best
    <3>2. CASE n # 0
      <4>1. n \in 1 .. Len(ts) /\ n - 1 \in Nat /\ n - 1 < n /\ n - 1 \in 0 .. Len(ts)
        BY <2>0, <3>2
      <4>2. Best(cur, ts, n - 1, f[n - 1])
        BY <2>3, <4>1
      <4>3. Best(cur, ts, n, IF Better(cur, f[n - 1], ts[n]) THEN ts[n] ELSE f[n - 1])
        BY <1>2, <4>1, <4>2, NextBest
      <4>4. f[n] = IF Better(cur, f[n - 1], ts[n]) THEN ts[n] ELSE f[n - 1]
        BY <2>2, <3>2, <4>1
      <4>5. QED
        BY <2>3, <4>3, <4>4, Zenon
    <3>3. QED
      BY <3>1, <3>2
  <2>b. Bad \subseteq Nat
    BY <2>0
  <2> HIDE DEF Bad
  <2>4. Bad = {}
    BY <2>3, <2>b, LeastNat
  <2>5. Len(ts) \in 0 .. Len(ts)
    BY <2>0
  <2>6. Best(cur, ts, Len(ts), f[Len(ts)])
    BY <2>4, <2>5, Zenon DEF Bad
  <2>7. QED
    BY <2>1, <2>6, Zenon
<1>3. QED
  BY <1>1, <1>2

-----------------------------------------------------------------------------
(* The check.                                                              *)

RepositoryOK == tags \in Seq(AllTags) /\ digest \in [AllTags -> Nat]
HostOK == running \in [Stack -> Image \cup {None}] /\ local \in [AllTags -> Nat]
NudgesOK == comparing \in Nat /\ nudged \in Nat
CheckOK == check \in CheckRun \cup {None}
RecordsOK ==
    /\ notified \in [Stack -> Advertised \cup {None}]
    /\ notifiedFile \in [Stack -> Advertised \cup {None}]
    /\ told \in [Stack -> Advertised \cup {None}]
TransportOK ==
    /\ items \in Seq(Stack \X Advertised)
    /\ (targets = 0 => items = <<>>) /\ turn \in 0 .. targets
    /\ pushed \in Nat /\ dropped \in Nat
    /\ lost \in [1 .. targets -> Nat] /\ sends \in [1 .. targets -> Nat]

TypeOK == RepositoryOK /\ HostOK /\ NudgesOK /\ CheckOK /\ RecordsOK /\ TransportOK

\* Every marker names the tag of the image that the given record has for its stack.
Agrees(markers, images) ==
    \A s \in Stack : markers[s] # None => images[s] # None /\ markers[s].running = images[s].tag

MarkerInv ==
    /\ check # None =>
        /\ check.images = lastRunning /\ Agrees(check.snap, lastRunning)
        /\ \A s \in ToSet(check.todo) : lastRunning[s] # None
    /\ check = None /\ snapshot # None => Agrees(snapshot, lastRunning)
    /\ lastRunning # running =>
            hook \/ comparing > 0 \/ nudged > 0 \/ (snapshot = None /\ check = None)

AlertInv ==
    /\ \A s \in Stack : told[s] # None => notified[s] = told[s]
    /\ check # None => \A s \in Stack :
            s \notin ToSet(check.todo) \cup check.failed /\ check.snap[s] = None => told[s] = None
    /\ ~unsaved /\ ~(check # None /\ check.changed) => notifiedFile = notified

\* What checkService concludes: nothing, or an update of the tag that is running.
LEMMA CheckServiceResult ==
  ASSUME RepositoryOK, NEW s \in Stack, NEW image \in Image, NEW inspected
  PROVE  checkService(s, image, inspected) \notin {Error, None} =>
            /\ checkService(s, image, inspected) \in ServiceUpdate
            /\ checkService(s, image, inspected).running = image.tag
<1> USE DEF RepositoryOK
<1>1. image.tag \in AllTags /\ image.tag.nums \in Seq(Nat)
  BY UpdateAssumption DEF Image
<1>2. ASSUME NEW listed, listed = Tags(registry), listed # Error
      PROVE  listed \in Seq(AllTags)
  <2> DEFINE pages == IF Len(tags) > maxTagsPages THEN maxTagsPages ELSE Len(tags)
  <2>1. listed = SubSeq(tags, 1, pages)
    BY <1>2, Zenon DEF Tags
  <2>2. pages \in 0 .. Len(tags)
    BY UpdateAssumption
  <2> HIDE DEF pages
  <2>3. QED
    BY <2>1, <2>2
<1>3. ASSUME NEW listed \in Seq(AllTags)
      PROVE  NewerTag(image.tag, listed) \in AllTags
  <2>1. Best(image.tag, listed, Len(listed), NewerTag(image.tag, listed))
    BY <1>1, NewerTagIsNewest
  <2>2. QED
    BY <1>1, <2>1 DEF Best
<1>4. ASSUME NEW r, r = checkDigest(s, image, inspected), r \notin {Error, None}
      PROVE  r \in ServiceUpdate /\ r.running = image.tag
  <2>1. r = [running |-> image.tag, advertised |-> <<"digest", ManifestDigest(registry, image.tag)>>]
        /\ ManifestDigest(registry, image.tag) # Error
    BY <1>4, Zenon DEF checkDigest
  <2>2. ManifestDigest(registry, image.tag) \in Nat
    BY <1>1, <2>1 DEF ManifestDigest
  <2>3. <<"digest", ManifestDigest(registry, image.tag)>> \in Advertised
    BY <2>2 DEF Advertised
  <2>4. QED
    BY <1>1, <2>1, <2>3 DEF ServiceUpdate
<1>5. ASSUME NEW r, r = checkService(s, image, inspected), r \notin {Error, None},
             r # checkDigest(s, image, inspected)
      PROVE  r \in ServiceUpdate /\ r.running = image.tag
  <2>1. /\ r = [running |-> image.tag, advertised |-> <<"tag", NewerTag(image.tag, Tags(registry))>>]
        /\ Tags(registry) # Error
    BY <1>5, Zenon DEF checkService
  <2>2. <<"tag", NewerTag(image.tag, Tags(registry))>> \in Advertised
    BY <1>2, <1>3, <2>1 DEF Advertised
  <2>3. QED
    BY <1>1, <2>1, <2>2 DEF ServiceUpdate
<1>6. QED
  BY <1>4, <1>5

\* The three ways a service's question can end.
NoAnswer(s) ==
    /\ check'.failed = check.failed \cup {s} /\ check'.snap = check.snap
    /\ (check'.changed <=> check.changed)
    /\ UNCHANGED <<notified, told, transportVars>>
NoUpdate(s) ==
    /\ check'.failed = check.failed /\ check'.snap = check.snap
    /\ (check'.changed <=> check.changed)
    /\ told' = [told EXCEPT ![s] = None] /\ UNCHANGED <<notified, transportVars>>
Update(s, r) ==
    /\ r # None /\ r.running = check.images[s].tag
    /\ check'.failed = check.failed /\ check'.snap = [check.snap EXCEPT ![s] = r]
    /\ (check'.changed <=> check.changed \/ r.advertised # notified[s])
    /\ told' = [told EXCEPT ![s] = r.advertised] /\ notified' = [notified EXCEPT ![s] = r.advertised]
    /\ IF r.advertised # notified[s] THEN push(<<s, r.advertised>>) ELSE UNCHANGED transportVars

\* A check asks for one service after the other, with one of these three ends.
LEMMA CheckServiceCases ==
  ASSUME TypeOK, MarkerInv, CheckService
  PROVE  /\ check \in CheckRun /\ check # None /\ check' \in CheckRun /\ check'.images = check.images
         /\ UNCHANGED <<upstreamVars, hostVars, nudgeVars, notifiedFile, unsaved, lastRunning, snapshot>>
         /\ \E s \in Stack :
                /\ ToSet(check.todo) = {s} \cup ToSet(check'.todo)
                /\ check.images[s] # None
                /\ NoAnswer(s) \/ NoUpdate(s) \/ \E r \in ServiceUpdate : Update(s, r)
<1> USE DEF TypeOK
<1>1. check \in CheckRun /\ check # None /\ check.todo # <<>>
  BY DEF CheckService, CheckOK
<1>2. /\ check.images \in [Stack -> Image \cup {None}] /\ check.todo \in Seq(Stack)
      /\ check.snap \in [Stack -> ServiceUpdate \cup {None}] /\ check.failed \in SUBSET Stack
      /\ check.changed \in BOOLEAN
  BY <1>1 DEF CheckRun
<1>3. PICK s : s = Head(check.todo)
  OBVIOUS
<1>4. s \in Stack /\ Tail(check.todo) \in Seq(Stack) /\ ToSet(check.todo) = {s} \cup ToSet(Tail(check.todo))
  <2>1. PICK q \in Seq(Stack) : q = check.todo /\ q # <<>>
    BY <1>1, <1>2
  <2>2. /\ Head(q) \in Stack /\ Tail(q) \in Seq(Stack) /\ Len(Tail(q)) = Len(q) - 1 /\ Head(q) = q[1]
        /\ \A k \in 1 .. Len(Tail(q)) : Tail(q)[k] = q[k + 1]
        /\ Len(q) \in Nat \ {0}
    BY <2>1
  <2>3. ASSUME NEW k \in 1 .. Len(q)
        PROVE  q[k] = Head(q) \/ (k - 1 \in 1 .. Len(Tail(q)) /\ q[k] = Tail(q)[k - 1])
    BY <2>2
  <2>4. ASSUME NEW k \in 1 .. Len(Tail(q))
        PROVE  k + 1 \in 1 .. Len(q) /\ Tail(q)[k] = q[k + 1]
    BY <2>2
  <2>5. ToSet(q) = {q[k] : k \in 1 .. Len(q)} /\ ToSet(Tail(q)) = {Tail(q)[k] : k \in 1 .. Len(Tail(q))}
    <3>1. DOMAIN q = 1 .. Len(q) /\ DOMAIN Tail(q) = 1 .. Len(Tail(q))
      BY <2>1, <2>2
    <3>2. QED
      BY <3>1, Zenon DEF ToSet
  <2>6. ToSet(q) \subseteq {Head(q)} \cup ToSet(Tail(q))
    BY <2>3, <2>5
  <2>7. Head(q) \in ToSet(q) /\ ToSet(Tail(q)) \subseteq ToSet(q)
    BY <2>2, <2>4, <2>5
  <2>8. QED
    BY <1>3, <2>1, <2>2, <2>6, <2>7
<1>5. check.images[s] \in Image /\ check.images[s] # None
  <2>1. check.images[s] # None
    BY <1>1, <1>4 DEF MarkerInv
  <2>2. QED
    BY <1>2, <1>4, <2>1
<1>6. ASSUME NEW r, ApplyResult(s, r), r \notin {Error, None} => r \in ServiceUpdate /\ r.running = check.images[s].tag
      PROVE  /\ check' \in CheckRun /\ check'.images = check.images /\ check'.todo = Tail(check.todo)
             /\ NoAnswer(s) \/ NoUpdate(s) \/ \E u \in ServiceUpdate : Update(s, u)
  <2> DEFINE rest == [check EXCEPT !.todo = Tail(@)]
  <2>0. /\ rest \in CheckRun /\ rest.images = check.images /\ rest.todo = Tail(check.todo)
        /\ rest.snap = check.snap /\ rest.failed = check.failed /\ rest.changed = check.changed
    BY <1>1, <1>4 DEF CheckRun
  <2> HIDE DEF rest
  <2>1. CASE r = Error /\ check' = [rest EXCEPT !.failed = @ \cup {s}] /\ UNCHANGED <<notified, told, transportVars>>
    <3>1. /\ check' \in CheckRun /\ check'.images = check.images /\ check'.todo = Tail(check.todo)
          /\ check'.failed = check.failed \cup {s} /\ check'.snap = check.snap /\ check'.changed = check.changed
      BY <2>0, <2>1, <1>4 DEF CheckRun
    <3>2. NoAnswer(s)
      BY <2>1, <3>1 DEF NoAnswer
    <3>3. QED
      BY <3>1, <3>2
  <2>2. CASE r = None /\ check' = rest /\ told' = [told EXCEPT ![s] = None] /\ UNCHANGED <<notified, transportVars>>
    <3>1. NoUpdate(s)
      BY <2>0, <2>2 DEF NoUpdate
    <3>2. QED
      BY <2>0, <2>2, <3>1
  <2>3. CASE /\ r \notin {Error, None}
             /\ check' = [rest EXCEPT !.snap[s] = r, !.changed = @ \/ r.advertised # notified[s]]
             /\ told' = [told EXCEPT ![s] = r.advertised]
             /\ notified' = [notified EXCEPT ![s] = r.advertised]
             /\ IF r.advertised # notified[s] THEN push(<<s, r.advertised>>) ELSE UNCHANGED transportVars
    <3>1. r \in ServiceUpdate /\ r.running = check.images[s].tag /\ r # None
      BY <1>6, <2>3
    <3>2. PICK new \in BOOLEAN : new <=> (rest.changed \/ r.advertised # notified[s])
      BY Zenon
    <3>3. check' = [rest EXCEPT !.snap = [@ EXCEPT ![s] = r], !.changed = new]
      BY <2>0, <2>3, <3>2, <1>2
    <3>4. /\ check' \in CheckRun /\ check'.images = check.images /\ check'.todo = Tail(check.todo)
          /\ check'.failed = check.failed /\ check'.snap = [check.snap EXCEPT ![s] = r] /\ check'.changed = new
      BY <2>0, <3>1, <3>3, <1>4 DEF CheckRun
    <3>5. check'.changed <=> check.changed \/ r.advertised # notified[s]
      BY <2>0, <3>2, <3>4, Zenon
    <3>6. Update(s, r)
      BY <2>3, <3>1, <3>4, <3>5, Zenon DEF Update
    <3>7. QED
      BY <3>1, <3>4, <3>6
  <2>4. QED
    BY <1>6, <2>1, <2>2, <2>3, Zenon DEF ApplyResult, rest
<1>7. /\ check' \in CheckRun /\ check'.images = check.images /\ check'.todo = Tail(check.todo)
      /\ NoAnswer(s) \/ NoUpdate(s) \/ \E u \in ServiceUpdate : Update(s, u)
  <2>1. CASE ApplyResult(s, checkService(s, check.images[s], TRUE))
    BY <1>4, <1>5, <1>6, <2>1, CheckServiceResult
  <2>2. CASE ApplyResult(s, Error)
    BY <1>6, <2>2
  <2>3. CASE /\ check' = [check EXCEPT !.todo = Tail(@)] /\ told' = [told EXCEPT ![s] = None]
             /\ UNCHANGED <<notified, transportVars>>
    <3>1. /\ check' \in CheckRun /\ check'.images = check.images /\ check'.todo = Tail(check.todo)
          /\ check'.failed = check.failed /\ check'.snap = check.snap /\ check'.changed = check.changed
      BY <1>1, <1>4, <2>3 DEF CheckRun
    <3>2. QED
      BY <2>3, <3>1 DEF NoUpdate
  <2>4. QED
    BY <1>3, <2>1, <2>2, <2>3 DEF CheckService
<1>8. QED
  BY <1>1, <1>4, <1>5, <1>7 DEF CheckService

-----------------------------------------------------------------------------
(* The invariant.                                                          *)

UpdateInv == TypeOK /\ MarkerInv /\ AlertInv /\ EveryTargetGetsEach

\* What the queue does keeps its count.
LEMMA PushCounts ==
  ASSUME TransportOK, EveryTargetGetsEach, NEW item \in Stack \X Advertised, push(item)
  PROVE  TransportOK' /\ EveryTargetGetsEach'
<1>1. CASE UNCHANGED transportVars
  BY <1>1 DEF TransportOK, EveryTargetGetsEach, owed, transportVars
<1>2. ASSUME pushed' = pushed + 1, UNCHANGED <<turn, lost, sends>>, targets # 0,
             \/ items' = Append(items, item) /\ dropped' = dropped
             \/ items' = items /\ dropped' = dropped + 1
      PROVE  TransportOK' /\ EveryTargetGetsEach'
  <2>1. /\ items' \in Seq(Stack \X Advertised) /\ dropped' \in Nat
        /\ Len(items) \in Nat /\ Len(items') \in Nat
        /\ Len(items') + dropped' = Len(items) + dropped + 1
    <3>1. CASE items' = Append(items, item) /\ dropped' = dropped
      BY <3>1 DEF TransportOK
    <3>2. CASE items' = items /\ dropped' = dropped + 1
      BY <3>2 DEF TransportOK
    <3>3. QED
      BY <1>2, <3>1, <3>2
  <2>2. \A t \in 1 .. targets : owed(t)' + dropped' = owed(t) + dropped + 1 /\ owed(t) \in Nat /\ owed(t)' \in Nat
    BY <1>2, <2>1 DEF TransportOK, owed
  <2>3. TransportOK'
    <3>1. pushed' \in Nat
      BY <1>2 DEF TransportOK
    <3>2. QED
      BY <1>2, <2>1, <3>1 DEF TransportOK
  <2>4. ASSUME NEW t \in 1 .. targets
        PROVE  pushed' = sends'[t] + dropped' + lost'[t] + owed(t)'
    <3>1. pushed = sends[t] + dropped + lost[t] + owed(t) /\ sends[t] \in Nat /\ lost[t] \in Nat /\ dropped \in Nat
      BY DEF EveryTargetGetsEach, TransportOK
    <3>2. dropped' + owed(t)' = dropped + owed(t) + 1 /\ owed(t) \in Nat /\ owed(t)' \in Nat
      BY <2>1, <2>2, <3>1
    <3>3. sends'[t] = sends[t] /\ lost'[t] = lost[t] /\ pushed' = pushed + 1
      BY <1>2
    <3>4. PICK sent \in Nat, gone \in Nat, left \in Nat, b \in Nat, x \in Nat, y \in Nat :
            /\ sent = sends[t] /\ gone = lost[t] /\ left = owed(t) /\ b = dropped
            /\ x = dropped' /\ y = owed(t)'
      BY <2>1, <3>1, <3>2
    <3>5. pushed + 1 = sent + x + gone + y
      <4>1. x + y = b + left + 1
        BY <3>2, <3>4
      <4>2. pushed = sent + b + gone + left
        BY <3>1, <3>4
      <4>3. QED
        BY <4>1, <4>2
    <3>6. QED
      BY <3>3, <3>4, <3>5
  <2>5. QED
    BY <2>3, <2>4 DEF EveryTargetGetsEach
<1>3. QED
  BY <1>1, <1>2 DEF push

\* Alerts are counted, whatever happens to them.
LEMMA TransportStep ==
  ASSUME UpdateInv, [Next]_vars
  PROVE  TransportOK' /\ EveryTargetGetsEach'
<1>0. TransportOK /\ EveryTargetGetsEach
  BY DEF UpdateInv, TypeOK
<1>1. CASE UNCHANGED <<items, turn, pushed, dropped, lost, sends>>
  BY <1>0, <1>1 DEF TransportOK, EveryTargetGetsEach, owed
<1>2. CASE CheckService
  <2>1. PICK s \in Stack : NoAnswer(s) \/ NoUpdate(s) \/ \E r \in ServiceUpdate : Update(s, r)
    BY <1>2, CheckServiceCases DEF UpdateInv
  <2>2. CASE UNCHANGED transportVars
    BY <1>1, <2>2 DEF transportVars
  <2>3. ASSUME NEW r \in ServiceUpdate, push(<<s, r.advertised>>)
        PROVE  TransportOK' /\ EveryTargetGetsEach'
    BY <1>0, <2>3, PushCounts DEF ServiceUpdate
  <2>4. QED
    BY <2>1, <2>2, <2>3, Zenon DEF NoAnswer, NoUpdate, Update
<1>3. CASE Alerter
  <2>1. CASE take
    <3>1. /\ turn = 0 /\ items # <<>> /\ items' = Tail(items) /\ turn' = 1
          /\ UNCHANGED <<pushed, dropped, lost, sends>>
      BY <2>1 DEF take
    <3>2. items' \in Seq(Stack \X Advertised) /\ Len(items) = Len(items') + 1 /\ Len(items') \in Nat
      BY <1>0, <3>1 DEF TransportOK
    <3>3. \A t \in 1 .. targets : owed(t)' = owed(t)
      BY <1>0, <3>1, <3>2, TransportAssumption DEF owed
    <3>4. QED
      BY <1>0, <3>1, <3>2, <3>3, TransportAssumption DEF TransportOK, EveryTargetGetsEach
  <2>2. CASE deliverOne
    <3>1. /\ turn \in 1 .. targets /\ turn' = (IF turn = targets THEN 0 ELSE turn + 1)
          /\ sends' = [sends EXCEPT ![turn] = @ + 1] /\ UNCHANGED <<items, pushed, dropped, lost>>
      BY <1>0, <2>2, TransportAssumption DEF deliverOne, TransportOK
    <3>2. turn' \in 0 .. targets /\ \A t \in 1 .. targets : turn' \in 1 .. t <=> turn \in 1 .. t /\ t # turn
      BY <3>1, TransportAssumption
    <3>3. TransportOK'
      BY <1>0, <3>1, <3>2 DEF TransportOK
    <3>4. ASSUME NEW t \in 1 .. targets
          PROVE  pushed' = sends'[t] + dropped' + lost'[t] + owed(t)'
      <4>1. pushed = sends[t] + dropped + lost[t] + owed(t) /\ sends[t] \in Nat /\ lost[t] \in Nat
            /\ dropped \in Nat /\ Len(items) \in Nat
        BY <1>0 DEF EveryTargetGetsEach, TransportOK
      <4>2. CASE t = turn
        <5>1. sends'[t] = sends[t] + 1 /\ owed(t) = Len(items) + 1 /\ owed(t)' = Len(items)
          BY <1>0, <3>1, <3>2, <4>2 DEF owed, TransportOK
        <5>2. /\ pushed' = pushed /\ dropped' = dropped /\ lost'[t] = lost[t]
          BY <3>1
        <5>3. PICK sent \in Nat, gone \in Nat, b \in Nat, queued \in Nat :
                sent = sends[t] /\ gone = lost[t] /\ b = dropped /\ queued = Len(items)
          BY <4>1
        <5>4. pushed = sent + b + gone + (queued + 1)
          BY <4>1, <5>1, <5>3
        <5>5. pushed = (sent + 1) + b + gone + queued
          BY <5>4
        <5>6. QED
          BY <5>1, <5>2, <5>3, <5>5
      <4>3. CASE t # turn
        <5>1. sends'[t] = sends[t] /\ owed(t)' = owed(t) /\ owed(t) \in Nat
          BY <1>0, <3>1, <3>2, <4>3 DEF owed, TransportOK
        <5>2. /\ pushed' = pushed /\ dropped' = dropped /\ lost'[t] = lost[t]
          BY <3>1
        <5>3. QED
          BY <4>1, <5>1, <5>2
      <4>4. QED
        BY <4>2, <4>3
    <3>5. QED
      BY <3>3, <3>4 DEF EveryTargetGetsEach
  <2>3. QED
    BY <1>3, <2>1, <2>2 DEF Alerter, handle
<1>4. CASE Restart
  <2>1. /\ items' = <<>> /\ turn' = 0 /\ lost' = [t \in 1 .. targets |-> lost[t] + owed(t)]
        /\ UNCHANGED <<pushed, dropped, sends>>
    BY <1>4 DEF Restart, TransportRestart
  <2>2. Len(items') = 0 /\ items' \in Seq(Stack \X Advertised)
    BY <2>1
  <2>3. Len(items) \in Nat /\ \A t \in 1 .. targets : owed(t) \in Nat /\ owed(t)' = 0
    BY <1>0, <2>1, <2>2 DEF TransportOK, owed
  <2>4. TransportOK'
    <3>1. lost' \in [1 .. targets -> Nat]
      <4>1. \A t \in 1 .. targets : lost[t] + owed(t) \in Nat
        <5>1. TAKE t \in 1 .. targets
        <5>2. lost[t] \in Nat /\ owed(t) \in Nat
          BY <1>0, <2>3, <5>1 DEF TransportOK
        <5>3. QED
          BY <5>2
      <4>2. QED
        BY <2>1, <4>1
    <3>2. sends' \in [1 .. targets -> Nat] /\ pushed' \in Nat /\ dropped' \in Nat
      BY <1>0, <2>1 DEF TransportOK
    <3>3. turn' \in 0 .. targets
      BY <2>1, TransportAssumption
    <3>4. QED
      BY <2>1, <2>2, <3>1, <3>2, <3>3 DEF TransportOK
  <2>5. ASSUME NEW t \in 1 .. targets
        PROVE  pushed' = sends'[t] + dropped' + lost'[t] + owed(t)'
    <3>1. pushed = sends[t] + dropped + lost[t] + owed(t) /\ sends[t] \in Nat /\ lost[t] \in Nat /\ dropped \in Nat
      BY <1>0 DEF EveryTargetGetsEach, TransportOK
    <3>2. QED
      BY <2>1, <2>3, <3>1
  <2>6. QED
    BY <2>4, <2>5 DEF EveryTargetGetsEach
<1>5. CASE ~CheckService /\ ~Alerter /\ ~Restart
  <2>1. UNCHANGED <<items, turn, pushed, dropped, lost, sends>>
    BY <1>5 DEF Next, Checks, Tick, CompareRunning, StartCheck, FinishCheck, PostRunHook,
                RemoveStack, Toggle, Deploy, Publish, Republish, Withdraw, RegistryChanges,
                Shutdown, ShutdownSignal, Event, Fault, Spend, vars, transportVars
  <2>2. QED
    BY <1>1, <2>1
<1>6. QED
  BY <1>2, <1>3, <1>4, <1>5

\* A new check asks for every stack that runs something.
LEMMA StartCheckIs ==
  ASSUME HostOK, NEW w, StartCheck(w)
  PROVE  /\ check = None /\ check' \in CheckRun /\ check' # None
         /\ check'.images = running /\ lastRunning' = running
         /\ check'.snap = NoMarkers /\ check'.failed = {} /\ check'.changed = FALSE
         /\ \A s \in Stack : s \in ToSet(check'.todo) <=> running[s] # None
         /\ ToSet(check'.todo) \subseteq Stack
         /\ told' = [s \in Stack |-> IF running[s] = None THEN None ELSE told[s]]
         /\ UNCHANGED <<tags, digest, local, running, hook, comparing, notified, notifiedFile, unsaved, snapshot>>
         /\ (nudged \in Nat => nudged' \in Nat)
<1> DEFINE up == {s \in Stack : running[s] # None}
<1>1. /\ check = None /\ lastRunning' = running
      /\ check' = [images |-> running, todo |-> sortedKeys[up],
                   snap |-> NoMarkers, failed |-> {}, changed |-> FALSE]
      /\ told' = [s \in Stack |-> IF running[s] = None THEN None ELSE told[s]]
      /\ UNCHANGED <<tags, digest, local, running, hook, comparing, notified, notifiedFile, unsaved, snapshot>>
  BY DEF StartCheck, upstreamVars, hostVars
<1>2. sortedKeys[up] \in Seq(Stack) /\ ToSet(sortedKeys[up]) = up
  BY UpdateAssumption
<1>3. NoMarkers \in [Stack -> ServiceUpdate \cup {None}]
  BY DEF NoMarkers
<1>4. nudged \in Nat => nudged' \in Nat
  BY DEF StartCheck
<1> HIDE DEF up
<1>5. check' \in CheckRun
  BY <1>1, <1>2, <1>3 DEF CheckRun, HostOK
<1>6. check' # None
  BY <1>5, UpdateAssumption
<1>7. /\ check'.images = running /\ check'.todo = sortedKeys[up]
      /\ check'.snap = NoMarkers /\ check'.failed = {} /\ check'.changed = FALSE
  BY <1>1
<1>8. \A s \in Stack : s \in up <=> running[s] # None
  BY DEF up
<1>9. up \subseteq Stack
  BY DEF up
<1>10. QED
  BY <1>1, <1>2, <1>4, <1>5, <1>6, <1>7, <1>8, <1>9

\* The state keeps its types.
LEMMA TypeStep ==
  ASSUME UpdateInv, [Next]_vars
  PROVE  TypeOK'
<1>0. RepositoryOK /\ HostOK /\ NudgesOK /\ CheckOK /\ RecordsOK /\ TransportOK' /\ TypeOK /\ MarkerInv
  BY TransportStep DEF UpdateInv, TypeOK
<1>1. CASE UNCHANGED <<tags, digest>> /\ UNCHANGED <<local, running, comparing, nudged, check>>
           /\ UNCHANGED <<notified, notifiedFile, told>>
  BY <1>0, <1>1 DEF TypeOK, RepositoryOK, HostOK, NudgesOK, CheckOK, RecordsOK
<1>2. CASE Checks
  <2>1. CASE Tick
    BY <1>1, <2>1 DEF Tick, upstreamVars, hostVars, recordVars, checkVars
  <2>2. CASE CompareRunning
    <3>1. comparing' \in Nat /\ nudged' \in Nat
      BY <1>0, <2>2 DEF CompareRunning, NudgesOK
    <3>2. UNCHANGED <<tags, digest, local, running, check, notified, notifiedFile, told>>
      BY <2>2 DEF CompareRunning, upstreamVars, hostVars, recordVars, checkVars
    <3>3. QED
      BY <1>0, <3>1, <3>2 DEF TypeOK, RepositoryOK, HostOK, NudgesOK, CheckOK, RecordsOK
  <2>3. ASSUME NEW w, StartCheck(w)
        PROVE  TypeOK'
    <3>1. told' \in [Stack -> Advertised \cup {None}]
      BY <1>0, <2>3, StartCheckIs DEF RecordsOK
    <3>2. QED
      BY <1>0, <2>3, <3>1, StartCheckIs DEF TypeOK, RepositoryOK, HostOK, NudgesOK, CheckOK, RecordsOK
  <2>4. CASE CheckService
    <3>1. check' \in CheckRun /\ UNCHANGED <<tags, digest, local, running, comparing, nudged, notifiedFile>>
      BY <1>0, <2>4, CheckServiceCases DEF upstreamVars, hostVars, nudgeVars
    <3>2. PICK s \in Stack : NoAnswer(s) \/ NoUpdate(s) \/ \E r \in ServiceUpdate : Update(s, r)
      BY <1>0, <2>4, CheckServiceCases
    <3>3. told' \in [Stack -> Advertised \cup {None}] /\ notified' \in [Stack -> Advertised \cup {None}]
      <4>1. CASE NoAnswer(s) \/ NoUpdate(s)
        BY <1>0, <4>1 DEF NoAnswer, NoUpdate, RecordsOK
      <4>2. ASSUME NEW r \in ServiceUpdate, Update(s, r)
            PROVE  told' \in [Stack -> Advertised \cup {None}] /\ notified' \in [Stack -> Advertised \cup {None}]
        <5>1. r.advertised \in Advertised
          BY DEF ServiceUpdate
        <5>2. told' = [told EXCEPT ![s] = r.advertised] /\ notified' = [notified EXCEPT ![s] = r.advertised]
          BY <4>2 DEF Update
        <5>3. QED
          BY <1>0, <5>1, <5>2 DEF RecordsOK
      <4>3. QED
        BY <3>2, <4>1, <4>2
    <3>4. QED
      BY <1>0, <3>1, <3>3 DEF TypeOK, RepositoryOK, HostOK, NudgesOK, CheckOK, RecordsOK
  <2>5. CASE FinishCheck
    <3>1. UNCHANGED <<tags, digest, local, running, comparing, nudged, told>> /\ check' = None
      BY <2>5 DEF FinishCheck, upstreamVars, hostVars, nudgeVars
    <3>2. notified' \in [Stack -> Advertised \cup {None}]
      BY <1>0, <2>5 DEF FinishCheck, RecordsOK
    <3>3. notifiedFile' \in {notified', notifiedFile}
      BY <2>5 DEF FinishCheck
    <3>4. QED
      BY <1>0, <3>1, <3>2, <3>3 DEF TypeOK, RepositoryOK, HostOK, NudgesOK, CheckOK, RecordsOK
  <2>6. QED
    BY <1>2, <2>1, <2>2, <2>3, <2>4, <2>5 DEF Checks
<1>3. CASE PostRunHook
  <2>1. comparing' \in Nat /\ UNCHANGED <<tags, digest, local, running, nudged, check, notified, notifiedFile, told>>
    BY <1>0, <1>3 DEF PostRunHook, upstreamVars, recordVars, checkVars, NudgesOK
  <2>2. QED
    BY <1>0, <2>1 DEF TypeOK, RepositoryOK, HostOK, NudgesOK, CheckOK, RecordsOK
<1>4. ASSUME NEW s \in Stack, RemoveStack(s)
      PROVE  TypeOK'
  <2>1. running' \in [Stack -> Image \cup {None}]
        /\ UNCHANGED <<tags, digest, local, comparing, nudged, check, notified, notifiedFile, told>>
    BY <1>0, <1>4 DEF RemoveStack, upstreamVars, nudgeVars, recordVars, checkVars, HostOK
  <2>2. QED
    BY <1>0, <2>1 DEF TypeOK, RepositoryOK, HostOK, NudgesOK, CheckOK, RecordsOK
<1>5. ASSUME NEW s \in Stack, NEW t \in AllTags, NEW read \in BOOLEAN, Deploy(s, t, read)
      PROVE  TypeOK'
  <2>1. PICK id \in {digest[t], local[t]} :
            /\ local' = [local EXCEPT ![t] = id]
            /\ running' = running \/ running' = [running EXCEPT ![s] = [tag |-> t, id |-> id]]
            /\ UNCHANGED <<tags, digest, comparing, nudged, check, notified, notifiedFile, told>>
    BY <1>5 DEF Deploy, upstreamVars, nudgeVars, recordVars, checkVars
  <2>2. id \in Nat /\ [tag |-> t, id |-> id] \in Image
    BY <1>0 DEF RepositoryOK, HostOK, Image
  <2>3. HostOK'
    BY <1>0, <2>1, <2>2 DEF HostOK
  <2>4. QED
    BY <1>0, <2>1, <2>3 DEF TypeOK, RepositoryOK, NudgesOK, CheckOK, RecordsOK
<1>6. ASSUME NEW t \in AllTags, Publish(t) \/ Republish(t) \/ Withdraw(t)
      PROVE  TypeOK'
  <2>1. UNCHANGED <<local, running, comparing, nudged, check, notified, notifiedFile, told>>
    BY <1>6 DEF Publish, Republish, Withdraw, hostVars, nudgeVars, recordVars, checkVars
  <2>2. CASE Publish(t)
    BY <1>0, <2>1, <2>2 DEF Publish, TypeOK, RepositoryOK, HostOK, NudgesOK, CheckOK, RecordsOK
  <2>3. CASE Republish(t)
    BY <1>0, <2>1, <2>3 DEF Republish, TypeOK, RepositoryOK, HostOK, NudgesOK, CheckOK, RecordsOK
  <2>4. CASE Withdraw(t)
    <3>1. PICK k \in DOMAIN tags : tags' = RemoveAt(tags, k) /\ digest' = digest
      BY <2>4 DEF Withdraw
    <3>2. k \in 1 .. Len(tags) /\ tags \in Seq(AllTags)
      BY <1>0 DEF RepositoryOK
    <3>3. SubSeq(tags, 1, k - 1) \in Seq(AllTags) /\ SubSeq(tags, k + 1, Len(tags)) \in Seq(AllTags)
      BY <3>2
    <3>4. tags' \in Seq(AllTags)
      BY <3>1, <3>3 DEF RemoveAt
    <3>5. QED
      BY <1>0, <2>1, <3>1, <3>4 DEF TypeOK, RepositoryOK, HostOK, NudgesOK, CheckOK, RecordsOK
  <2>5. QED
    BY <1>6, <2>2, <2>3, <2>4
<1>7. CASE Restart
  <2>1. /\ UNCHANGED <<tags, digest, local, running, notifiedFile>>
        /\ comparing' = 0 /\ nudged' = 0 /\ check' = None /\ notified' = notifiedFile
    BY <1>7 DEF Restart, upstreamVars
  <2>2. told' \in [Stack -> Advertised \cup {None}]
    BY <1>0, <1>7 DEF Restart, RecordsOK
  <2>3. QED
    BY <1>0, <2>1, <2>2 DEF TypeOK, RepositoryOK, HostOK, NudgesOK, CheckOK, RecordsOK
<1>8. CASE Alerter \/ RegistryChanges \/ Shutdown \/ (\E s \in Stack : Toggle(s)) \/ UNCHANGED vars
  BY <1>1, <1>8 DEF Alerter, RegistryChanges, Shutdown, Toggle, vars, upstreamVars, hostVars, nudgeVars,
                    recordVars, checkVars
<1>9. QED
  BY <1>2, <1>3, <1>4, <1>5, <1>6, <1>7, <1>8 DEF Next

\* Markers agree with the images of the check they come from, and a nudge is due
\* while those are not what runs.
LEMMA MarkerStep ==
  ASSUME UpdateInv, [Next]_vars
  PROVE  MarkerInv'
<1>0. TypeOK /\ MarkerInv /\ HostOK
  BY DEF UpdateInv, TypeOK
<1>1. CASE UNCHANGED <<running, hook, comparing, nudged, check, lastRunning, snapshot>>
  BY <1>0, <1>1 DEF MarkerInv, Agrees, ToSet
<1>2. CASE CompareRunning
  <2>1. UNCHANGED <<running, hook, check, lastRunning, snapshot>> /\ check = None
    BY <1>2 DEF CompareRunning, hostVars, checkVars
  <2>2. lastRunning # running => nudged' > 0
    BY <1>0, <1>2 DEF CompareRunning, TypeOK, NudgesOK
  <2>3. QED
    BY <1>0, <2>1, <2>2 DEF MarkerInv, Agrees
<1>3. ASSUME NEW w, StartCheck(w)
      PROVE  MarkerInv'
  <2>1. Agrees(check.snap, lastRunning)'
    BY <1>0, <1>3, StartCheckIs DEF Agrees, NoMarkers
  <2>2. \A s \in ToSet(check.todo)' : lastRunning'[s] # None
    BY <1>0, <1>3, StartCheckIs
  <2>3. check'.images = lastRunning' /\ check' # None /\ lastRunning' = running'
    BY <1>0, <1>3, StartCheckIs
  <2>4. QED
    BY <2>1, <2>2, <2>3 DEF MarkerInv
<1>4. CASE CheckService
  <2>1. /\ UNCHANGED <<running, hook, comparing, nudged, lastRunning, snapshot>>
        /\ check # None /\ check' \in CheckRun /\ check'.images = check.images /\ check \in CheckRun
    BY <1>0, <1>4, CheckServiceCases DEF hostVars, nudgeVars
  <2>2. check' # None
    BY <2>1, UpdateAssumption
  <2>3. PICK s \in Stack :
            /\ ToSet(check.todo) = {s} \cup ToSet(check'.todo) /\ check.images[s] # None
            /\ NoAnswer(s) \/ NoUpdate(s) \/ \E r \in ServiceUpdate : Update(s, r)
    BY <1>0, <1>4, CheckServiceCases
  <2>4. Agrees(check'.snap, lastRunning)
    <3>1. CASE check'.snap = check.snap
      BY <1>0, <2>1, <3>1 DEF MarkerInv, Agrees
    <3>2. ASSUME NEW r \in ServiceUpdate, Update(s, r)
          PROVE  Agrees(check'.snap, lastRunning)
      <4>1. check.images = lastRunning /\ Agrees(check.snap, lastRunning)
        BY <1>0, <2>1 DEF MarkerInv
      <4>2. check'.snap = [check.snap EXCEPT ![s] = r] /\ r.running = check.images[s].tag
        BY <3>2 DEF Update
      <4>3. check.snap \in [Stack -> ServiceUpdate \cup {None}]
        BY <2>1 DEF CheckRun
      <4>4. QED
        BY <2>3, <4>1, <4>2, <4>3 DEF Agrees
    <3>3. QED
      BY <2>3, <3>1, <3>2 DEF NoAnswer, NoUpdate
  <2>5. Agrees(check.snap, lastRunning)'
    BY <2>1, <2>4 DEF Agrees
  <2>6. ToSet(check.todo)' = ToSet(check'.todo)
    BY DEF ToSet
  <2>7. QED
    BY <1>0, <2>1, <2>2, <2>3, <2>5, <2>6 DEF MarkerInv
<1>5. CASE FinishCheck
  <2>1. /\ check # None /\ check' = None /\ snapshot' = check.snap
        /\ UNCHANGED <<running, hook, comparing, nudged, lastRunning>>
    BY <1>5 DEF FinishCheck, hostVars, nudgeVars
  <2>2. Agrees(snapshot, lastRunning)'
    BY <1>0, <2>1 DEF MarkerInv, Agrees
  <2>3. QED
    BY <1>0, <2>1, <2>2 DEF MarkerInv
<1>6. CASE PostRunHook
  <2>1. UNCHANGED <<running, check, lastRunning, snapshot>> /\ comparing' > 0
    BY <1>0, <1>6 DEF PostRunHook, checkVars, TypeOK, NudgesOK
  <2>2. QED
    BY <1>0, <2>1 DEF MarkerInv, Agrees, ToSet
<1>7. CASE \E s \in Stack : RemoveStack(s) \/ \E t \in AllTags, read \in BOOLEAN : Deploy(s, t, read)
  <2>1. UNCHANGED <<check, lastRunning, snapshot>> /\ hook' = TRUE
    BY <1>7 DEF RemoveStack, Deploy, checkVars
  <2>2. QED
    BY <1>0, <2>1 DEF MarkerInv, Agrees, ToSet
<1>8. CASE Restart
  <2>1. check' = None /\ snapshot' = None
    BY <1>8 DEF Restart
  <2>2. QED
    BY <2>1 DEF MarkerInv
<1>9. CASE \/ Tick \/ Alerter \/ RegistryChanges \/ Shutdown \/ UNCHANGED vars
           \/ \E s \in Stack : Toggle(s)
           \/ \E t \in AllTags : Publish(t) \/ Republish(t) \/ Withdraw(t)
  BY <1>1, <1>9 DEF Tick, Alerter, RegistryChanges, Shutdown, Toggle, Publish, Republish, Withdraw,
                    vars, hostVars, nudgeVars, checkVars
<1>10. QED
  BY <1>2, <1>3, <1>4, <1>5, <1>6, <1>7, <1>8, <1>9 DEF Next, Checks

\* What has been alerted and still stands is on record, and what a check did not
\* find is forgotten unless its question failed.
LEMMA AlertStep ==
  ASSUME UpdateInv, [Next]_vars
  PROVE  AlertInv'
<1>0. TypeOK /\ MarkerInv /\ AlertInv /\ HostOK /\ RecordsOK
  BY DEF UpdateInv, TypeOK
<1>1. CASE UNCHANGED <<check, notified, notifiedFile, told, unsaved>>
  BY <1>0, <1>1 DEF AlertInv, ToSet
<1>2. ASSUME NEW w, StartCheck(w)
      PROVE  AlertInv'
  <2>1. /\ check = None /\ UNCHANGED <<notified, notifiedFile, unsaved>> /\ check'.changed = FALSE
        /\ told' = [s \in Stack |-> IF running[s] = None THEN None ELSE told[s]]
    BY <1>0, <1>2, StartCheckIs
  <2>2. \A s \in Stack : s \notin ToSet(check.todo)' => told'[s] = None
    BY <1>0, <1>2, <2>1, StartCheckIs
  <2>3. \A s \in Stack : told'[s] # None => notified'[s] = told'[s]
    BY <1>0, <2>1 DEF AlertInv
  <2>4. ~unsaved' => notifiedFile' = notified'
    BY <1>0, <2>1 DEF AlertInv
  <2>5. QED
    BY <2>2, <2>3, <2>4 DEF AlertInv
<1>3. CASE CheckService
  <2>1. check # None /\ check \in CheckRun /\ UNCHANGED <<notifiedFile, unsaved>> /\ check' \in CheckRun
    BY <1>0, <1>3, CheckServiceCases
  <2>2. PICK s \in Stack :
            /\ ToSet(check.todo) = {s} \cup ToSet(check'.todo)
            /\ NoAnswer(s) \/ NoUpdate(s) \/ \E r \in ServiceUpdate : Update(s, r)
    BY <1>0, <1>3, CheckServiceCases
  <2>3. /\ check.snap \in [Stack -> ServiceUpdate \cup {None}]
        /\ told \in [Stack -> Advertised \cup {None}] /\ notified \in [Stack -> Advertised \cup {None}]
        /\ \A x \in Stack : told[x] # None => notified[x] = told[x]
        /\ \A x \in Stack : x \notin ToSet(check.todo) \cup check.failed /\ check.snap[x] = None => told[x] = None
        /\ ~unsaved /\ ~check.changed => notifiedFile = notified
    BY <1>0, <2>1 DEF CheckRun, RecordsOK, AlertInv
  <2>4. /\ \A x \in Stack : told'[x] # None => notified'[x] = told'[x]
        /\ \A x \in Stack : x \notin ToSet(check'.todo) \cup check'.failed /\ check'.snap[x] = None
                => told'[x] = None
        /\ ~unsaved' /\ ~check'.changed => notifiedFile' = notified'
    <3>1. CASE NoAnswer(s)
      <4>1. /\ check'.failed = check.failed \cup {s} /\ check'.snap = check.snap
            /\ UNCHANGED <<notified, told>>
        BY <3>1 DEF NoAnswer
      <4>2. check'.changed <=> check.changed
        BY <3>1 DEF NoAnswer
      <4>3. ~unsaved' /\ ~check'.changed => notifiedFile' = notified'
        BY <2>1, <2>3, <4>1, <4>2, Zenon
      <4>4. QED
        BY <2>2, <2>3, <4>1, <4>3
    <3>2. CASE NoUpdate(s)
      <4>1. /\ check'.failed = check.failed /\ check'.snap = check.snap
            /\ told' = [told EXCEPT ![s] = None] /\ notified' = notified
        BY <3>2 DEF NoUpdate
      <4>2. check'.changed <=> check.changed
        BY <3>2 DEF NoUpdate
      <4>3. ~unsaved' /\ ~check'.changed => notifiedFile' = notified'
        BY <2>1, <2>3, <4>1, <4>2, Zenon
      <4>4. QED
        BY <2>2, <2>3, <4>1, <4>3
    <3>3. ASSUME NEW r \in ServiceUpdate, Update(s, r)
          PROVE  /\ \A x \in Stack : told'[x] # None => notified'[x] = told'[x]
                 /\ \A x \in Stack : x \notin ToSet(check'.todo) \cup check'.failed /\ check'.snap[x] = None
                        => told'[x] = None
                 /\ ~unsaved' /\ ~check'.changed => notifiedFile' = notified'
      <4>1. /\ check'.failed = check.failed /\ check'.snap = [check.snap EXCEPT ![s] = r] /\ r # None
            /\ told' = [told EXCEPT ![s] = r.advertised] /\ notified' = [notified EXCEPT ![s] = r.advertised]
        BY <3>3 DEF Update
      <4>2. check'.changed <=> check.changed \/ r.advertised # notified[s]
        BY <3>3 DEF Update
      <4>3. r.advertised = notified[s] => notified' = notified
        BY <2>3, <4>1
      <4>4. ~unsaved' /\ ~check'.changed => notifiedFile' = notified'
        BY <2>1, <2>3, <4>2, <4>3, Zenon
      <4>5. QED
        BY <2>2, <2>3, <4>1, <4>4
    <3>4. QED
      BY <2>2, <3>1, <3>2, <3>3
  <2>5. ToSet(check.todo)' = ToSet(check'.todo)
    BY DEF ToSet
  <2>6. (check # None => \A x \in Stack :
            x \notin ToSet(check.todo) \cup check.failed /\ check.snap[x] = None => told[x] = None)'
    BY <2>4, <2>5
  <2>7. (\A x \in Stack : told[x] # None => notified[x] = told[x])'
    BY <2>4
  <2>8. (~unsaved /\ ~(check # None /\ check.changed) => notifiedFile = notified)'
    <3>1. check' # None
      BY <2>1, UpdateAssumption
    <3>2. QED
      BY <2>4, <3>1, Zenon
  <2>9. QED
    BY <2>6, <2>7, <2>8, Zenon DEF AlertInv
<1>4. CASE FinishCheck
  <2>1. /\ check # None /\ check.todo = <<>> /\ check' = None /\ told' = told
        /\ notified' = [s \in Stack |-> IF Done(s) THEN None ELSE notified[s]]
    BY <1>4 DEF FinishCheck
  <2>2. ASSUME NEW s \in Stack, told[s] # None
        PROVE  notified'[s] = told[s]
    <3>1. s \notin ToSet(check.todo)
      BY <2>1 DEF ToSet
    <3>2. ~Done(s)
      BY <1>0, <2>1, <2>2, <3>1 DEF AlertInv, Done
    <3>3. QED
      BY <1>0, <2>1, <2>2, <3>2 DEF AlertInv
  <2>3. ~unsaved' => notifiedFile' = notified'
    <3>1. CASE check.changed \/ \E s \in Stack : Done(s)
      BY <1>4, <3>1 DEF FinishCheck
    <3>2. CASE ~(check.changed \/ \E s \in Stack : Done(s))
      <4>1. notified' = notified
        BY <1>0, <2>1, <3>2 DEF RecordsOK
      <4>2. UNCHANGED <<notifiedFile, unsaved>>
        BY <1>4, <3>2 DEF FinishCheck
      <4>3. ~unsaved => notifiedFile = notified
        BY <1>0, <3>2, Zenon DEF AlertInv
      <4>4. QED
        BY <4>1, <4>2, <4>3, Zenon
    <3>3. QED
      BY <3>1, <3>2
  <2>4. QED
    BY <2>1, <2>2, <2>3 DEF AlertInv
<1>5. CASE Restart
  <2>1. /\ check' = None /\ notified' = notifiedFile /\ notifiedFile' = notifiedFile
        /\ told' = IF unsaved \/ (check # None /\ check.changed)
                    THEN [s \in Stack |-> IF told[s] = notifiedFile[s] THEN told[s] ELSE None] ELSE told
    BY <1>5 DEF Restart
  <2>2. ASSUME NEW s \in Stack, told'[s] # None
        PROVE  notifiedFile[s] = told'[s]
    <3>1. CASE unsaved \/ (check # None /\ check.changed)
      BY <2>1, <2>2, <3>1
    <3>2. CASE ~(unsaved \/ (check # None /\ check.changed))
      <4>1. notifiedFile = notified
        BY <1>0, <3>2, Zenon DEF AlertInv
      <4>2. told' = told
        BY <2>1, <3>2
      <4>3. QED
        BY <1>0, <2>2, <4>1, <4>2 DEF AlertInv
    <3>3. QED
      BY <3>1, <3>2
  <2>3. QED
    BY <2>1, <2>2 DEF AlertInv
<1>6. CASE ~(CheckService \/ FinishCheck \/ Restart \/ \E w \in {"ticker", "nudge"} : StartCheck(w))
  <2>1. UNCHANGED <<check, notified, notifiedFile, told, unsaved>>
    BY <1>6 DEF Next, Checks, Tick, CompareRunning, PostRunHook, Alerter, RemoveStack, Toggle, Deploy,
                Publish, Republish, Withdraw, RegistryChanges, Shutdown, vars, recordVars, checkVars
  <2>2. QED
    BY <1>1, <2>1
<1>7. QED
  BY <1>2, <1>3, <1>4, <1>5, <1>6

\* The process starts with nothing shown, nothing recorded and nothing alerted.
LEMMA UpdateInit == Init => UpdateInv
<1> SUFFICES ASSUME Init
             PROVE  UpdateInv
  OBVIOUS
<1>1. PICK first : /\ first = [s \in Stack |-> [tag |-> FirstTag, id |-> 0]] /\ running = first
  BY DEF Init
<1>2. /\ tags = <<FirstTag>> /\ digest = [t \in AllTags |-> 0] /\ local = digest
      /\ comparing = 0 /\ nudged = 0 /\ check = None /\ lastRunning = None /\ snapshot = None
      /\ notified = NoMarkers /\ notifiedFile = NoMarkers /\ told = NoMarkers
      /\ items = <<>> /\ turn = 0 /\ pushed = 0 /\ dropped = 0
      /\ lost = [t \in 1 .. targets |-> 0] /\ sends = lost
  BY DEF Init, TransportInit
<1>3. FirstTag \in AllTags
  BY DEF AllTags
<1>4. RepositoryOK /\ NudgesOK /\ CheckOK
  BY <1>2, <1>3 DEF RepositoryOK, NudgesOK, CheckOK
<1>5. HostOK
  BY <1>1, <1>2, <1>3 DEF HostOK, Image
<1>6. RecordsOK /\ AlertInv
  BY <1>2 DEF RecordsOK, NoMarkers, AlertInv
<1>7. TransportOK /\ EveryTargetGetsEach
  BY <1>2, TransportAssumption DEF TransportOK, EveryTargetGetsEach, owed
<1>8. MarkerInv
  BY <1>2 DEF MarkerInv
<1>9. QED
  BY <1>4, <1>5, <1>6, <1>7, <1>8 DEF UpdateInv, TypeOK

\* The invariant holds throughout.
LEMMA UpdateInductive == Spec => []UpdateInv
<1>1. UpdateInv /\ [Next]_vars => UpdateInv'
  BY TransportStep, TypeStep, MarkerStep, AlertStep DEF UpdateInv
<1>2. QED
  BY <1>1, UpdateInit, PTL DEF Spec

\* However many targets, stacks and alerts there are and whichever targets fail
\* (UpdateAlerter.handle): for every target, each alert pushed was sent to it, dropped
\* by a full queue, lost with a process before that target's turn, or still awaits it.
THEOREM AlertsReachEveryTarget == Spec => []EveryTargetGetsEach
<1>1. UpdateInv => EveryTargetGetsEach
  BY DEF UpdateInv
<1>2. QED
  BY <1>1, UpdateInductive, PTL

\* Whatever deploys, nudges, ticks and restarts do to each other: once the nudge of
\* the last run is through, every marker is about the image that runs.
THEOREM MarkersAreCurrent == Spec => []MarkersFollowDeploys
<1>1. UpdateInv => MarkersFollowDeploys
  BY DEF UpdateInv, TypeOK, NudgesOK, MarkerInv, Agrees, MarkersFollowDeploys, Idle
<1>2. QED
  BY <1>1, UpdateInductive, PTL

\* For tags with any number of components: what NewerTag suggests is a listed
\* upgrade of the running tag that no listed tag is an upgrade of, and nothing if
\* no listed tag is one.
THEOREM SuggestionIsNewest == Spec => []NewestSuggested
<1>1. UpdateInv => NewestSuggested
  <2> SUFFICES ASSUME UpdateInv, NEW t \in ToSet(tags)
               PROVE  LET upgrades == {u \in ToSet(tags) : Upgrade(t, u)}
                          suggested == NewerTag(t, tags)
                      IN  IF upgrades = {} THEN suggested = t
                          ELSE suggested \in upgrades /\ ~\E u \in upgrades : Upgrade(suggested, u)
    BY DEF NewestSuggested
  <2>1. tags \in Seq(AllTags) /\ ToSet(tags) = {tags[j] : j \in 1 .. Len(tags)}
    BY DEF UpdateInv, TypeOK, RepositoryOK, ToSet
  <2>2. t.nums \in Seq(Nat)
    BY <2>1, UpdateAssumption
  <2>3. Best(t, tags, Len(tags), NewerTag(t, tags))
    BY <2>1, <2>2, NewerTagIsNewest
  <2>4. QED
    BY <2>1, <2>3 DEF Best
<1>2. QED
  BY <1>1, UpdateInductive, PTL

\* No alert is repeated while its update stands: an alert is pushed only for an
\* update that was not yet alerted, or that a check has missed, or whose record was
\* lost with a restart.
THEOREM OneAlertPerUpdate == Spec => AlertedOnce
<1>1. ASSUME UpdateInv, [Next]_vars, pushed' # pushed
      PROVE  \E s \in Stack : told'[s] # told[s] /\ told'[s] # None
  <2>0. TypeOK /\ MarkerInv /\ AlertInv /\ RecordsOK
    BY <1>1 DEF UpdateInv, TypeOK
  <2>1. CheckService
    BY <1>1 DEF Next, Checks, Tick, CompareRunning, StartCheck, FinishCheck, PostRunHook,
                RemoveStack, Toggle, Deploy, Publish, Republish, Withdraw, RegistryChanges, Alerter, handle, take, deliverOne,
                Shutdown, ShutdownSignal, Restart, TransportRestart, Event, Fault, Spend, vars, transportVars
  <2>2. PICK s \in Stack : NoAnswer(s) \/ NoUpdate(s) \/ \E r \in ServiceUpdate : Update(s, r)
    BY <2>0, <2>1, CheckServiceCases
  <2>3. PICK r \in ServiceUpdate : Update(s, r)
    BY <1>1, <2>2 DEF NoAnswer, NoUpdate, transportVars
  <2>4. r.advertised # notified[s]
    BY <1>1, <2>3 DEF Update, transportVars
  <2>5. told'[s] = r.advertised
    BY <2>0, <2>3 DEF Update, RecordsOK
  <2>6. r.advertised \in Advertised /\ r.advertised # None
    BY UpdateAssumption DEF ServiceUpdate
  <2>7. told[s] # r.advertised
    BY <2>0, <2>4, <2>6 DEF AlertInv
  <2>8. QED
    BY <2>5, <2>6, <2>7
<1>2. UpdateInv /\ [Next]_vars => [pushed' # pushed => \E s \in Stack : told'[s] # told[s] /\ told'[s] # None]_vars
  BY <1>1
<1>3. QED
  BY <1>2, UpdateInductive, PTL DEF Spec, AlertedOnce
=============================================================================
