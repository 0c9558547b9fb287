-------------------------- MODULE StackOrderProofs --------------------------
(***************************************************************************)
(* For every number of stacks and every config: a run leaves out exactly   *)
(* the stacks that can never go first, and orderStacks places a stack only *)
(* after the ones it depends on, as long as no dependency leads out of the *)
(* run.                                                                    *)
(***************************************************************************)
EXTENDS StackOrder, TLAPS, FiniteSetTheorems

\* The pass so far has seen only stacks that are peeled already or wait.
SeenOK ==
    ~progressed => \A k \in 1 .. i - 1 :
        k <= Len(stacks) => stacks[k] \in resolved \/ ~allResolved(stacks[k])

\* No stack of a group that waits for itself is ever peeled.
NeverStuck == \A C \in SUBSET Valid : Waiting(C) => resolved \cap C = {}

\* LeftOutIffStuck, made inductive.
SetInv ==
    /\ config.known \subseteq Stack /\ config.disabled \subseteq config.known
    /\ dependsOn \in [Stack -> SUBSET Stack]
    /\ i \in Nat \ {0}
    /\ phase \in {"load", "peel", "order", "refused"}
    /\ resolved \subseteq Valid /\ NeverStuck
    /\ phase = "load" => resolved = {} /\ i = 1
    /\ phase = "peel" =>
        /\ stacks = InConfigOrder[Valid] /\ SeenOK
        /\ stackErrs = (config.overridden \ config.known)
                            \cup (config.known \ (config.disabled \cup Valid))
    /\ phase = "order" => stacks = InConfigOrder[resolved]
    /\ LeftOutIffStuck

\* The stacks in config order: each once, and no others.
LEMMA InOrder ==
  ASSUME NEW S \in SUBSET Stack
  PROVE  /\ InConfigOrder[S] \in Seq(Stack) /\ Elements(InConfigOrder[S]) = S
         /\ \A j, k \in 1 .. Len(InConfigOrder[S]) :
                j # k => InConfigOrder[S][j] # InConfigOrder[S][k]
BY OrderAssumption

\* The stack set as read is well formed ...
LEMMA SetInitInv == SetInit => SetInv
<1> SUFFICES ASSUME SetInit
             PROVE  SetInv
  OBVIOUS
<1>1. PICK c \in Configs :
        /\ dependsOn = c.dependsOn
        /\ config = [discovery |-> c.discovery, known |-> c.known, overridden |-> c.overridden,
                     disabled |-> c.disabled, broken |-> c.broken]
  BY DEF SetInit
<1>2. /\ config.known \subseteq Stack /\ config.disabled \subseteq config.known
      /\ dependsOn \in [Stack -> SUBSET Stack]
  BY <1>1, ConfigsAssumption
<1>3. NeverStuck
  BY DEF SetInit, NeverStuck
<1>4. /\ phase = "load" /\ resolved = {} /\ i = 1 /\ progressed = FALSE
  BY DEF SetInit
<1>5. LeftOutIffStuck /\ resolved \subseteq Valid /\ 1 \in Nat \ {0}
  BY <1>4 DEF LeftOutIffStuck
<1>6. QED
  BY <1>2, <1>3, <1>4, <1>5 DEF SetInv

\* When a pass resolves nothing more, what is left is one group that waits for
\* itself: exactly the stuck stacks.
LEMMA PeeledAll == SetInv /\ Peeled => resolved = Valid \ Stuck
<1> SUFFICES ASSUME SetInv, Peeled
             PROVE  resolved = Valid \ Stuck
  OBVIOUS
<1> USE DEF SetInv
<1>1. resolved \cap Stuck = {}
  BY DEF Stuck, NeverStuck
<1>2. Valid \subseteq Stack
  BY DEF Valid
<1>3. stacks \in Seq(Stack) /\ Elements(stacks) = Valid
  BY <1>2, InOrder DEF Peeled
<1>4. ASSUME NEW s \in Valid \ resolved
      PROVE  s \in Stuck
  <2> DEFINE left == Valid \ resolved
  <2>1. ~progressed
    BY <1>3 DEF Peeled
  <2>2. ASSUME NEW t \in left
        PROVE  dependsOn[t] \cap left # {}
    <3>1. PICK k \in 1 .. Len(stacks) : stacks[k] = t
      BY <1>3 DEF Elements
    <3>2. k \in 1 .. i - 1
      BY <1>3, <3>1 DEF Peeled
    <3>3. ~allResolved(t)
      BY <2>1, <3>1, <3>2 DEF Peeled, SeenOK
    <3>4. QED
      BY <1>3, <3>3 DEF allResolved
  <2>3. QED
    BY <2>2 DEF Stuck, Waiting
<1>5. QED
  BY <1>1, <1>4

\* ... and stays so as stacks are refused.
LEMMA SetStep == SetInv /\ SetNext => SetInv'
<1> SUFFICES ASSUME SetInv, SetNext
             PROVE  SetInv'
  OBVIOUS
<1> USE DEF SetInv
<1>c. UNCHANGED <<config, dependsOn>>
  BY DEF SetNext, ValidateConfig, LoadStacks, Peel, PassOver, PeelAgain, RefuseCycle, dropDependencyCycles
<1>v. Valid' = Valid /\ Stuck' = Stuck /\ Valid \subseteq Stack
  BY <1>c DEF Valid, Stuck, Waiting, invalidDependency
<1>k. resolved' = resolved => NeverStuck'
  BY <1>c, <1>v DEF NeverStuck, Waiting
<1>1. CASE ValidateConfig
  BY <1>1, <1>c, <1>v, <1>k DEF ValidateConfig, LeftOutIffStuck
<1>2. CASE LoadStacks
  <2>1. i' = 1 /\ resolved' = resolved /\ SeenOK'
    BY <1>2 DEF LoadStacks, SeenOK
  <2>2. LeftOutIffStuck'
    BY <1>2 DEF LoadStacks, LeftOutIffStuck
  <2>3. QED
    BY <1>2, <1>c, <1>v, <1>k, <2>1, <2>2 DEF LoadStacks
<1>3. CASE Peel
  <2>1. stacks \in Seq(Stack) /\ Elements(stacks) = Valid /\ stacks[i] \in Valid
    <3>1. stacks \in Seq(Stack) /\ Elements(stacks) = Valid
      BY <1>3, <1>v, InOrder DEF Peel
    <3>2. QED
      BY <1>3, <3>1 DEF Peel, Elements
  <2>2. ASSUME NEW C \in SUBSET Valid, Waiting(C)
        PROVE  stacks[i] \notin C
    <3>1. resolved \cap C = {}
      BY <2>2 DEF NeverStuck
    <3>2. dependsOn[stacks[i]] \cap Valid \subseteq resolved
      BY <1>3, <2>1 DEF Peel, allResolved
    <3>3. QED
      BY <2>2, <3>1, <3>2 DEF Waiting
  <2>3. NeverStuck'
    BY <1>3, <1>c, <1>v, <2>2 DEF Peel, NeverStuck, Waiting
  <2>4. progressed' /\ phase' = "peel" /\ UNCHANGED <<stacks, stackErrs>>
    BY <1>3 DEF Peel
  <2>5. SeenOK' /\ LeftOutIffStuck'
    BY <2>4 DEF SeenOK, LeftOutIffStuck
  <2>6. QED
    BY <1>3, <1>c, <1>v, <2>1, <2>3, <2>4, <2>5 DEF Peel
<1>4. CASE PassOver
  <2>1. /\ UNCHANGED <<phase, stacks, stackErrs, resolved, progressed>> /\ i' = i + 1
        /\ phase = "peel"
    BY <1>4 DEF PassOver
  <2>2. \A s : allResolved(s)' = allResolved(s)
    BY <1>c, <2>1 DEF allResolved, Elements
  <2>3. stacks \in Seq(Stack)
    BY <2>1, <1>v, InOrder
  <2>4. SeenOK'
    <3> SUFFICES ASSUME ~progressed, NEW k \in 1 .. i, k <= Len(stacks)
                 PROVE  stacks[k] \in resolved \/ ~allResolved(stacks[k])
      BY <2>1, <2>2, <2>3 DEF SeenOK
    <3>1. CASE k = i
      BY <3>1, <1>4 DEF PassOver
    <3>2. CASE k # i
      BY <3>2, <2>1, <2>3 DEF SeenOK
    <3>3. QED
      BY <3>1, <3>2
  <2>5. QED
    BY <1>c, <1>v, <1>k, <2>1, <2>4 DEF LeftOutIffStuck
<1>5. CASE PeelAgain
  <2>1. SeenOK' /\ LeftOutIffStuck'
    BY <1>5 DEF PeelAgain, SeenOK, LeftOutIffStuck
  <2>2. /\ phase = "peel" /\ i' = 1 /\ progressed' = FALSE
        /\ UNCHANGED <<phase, stacks, stackErrs, resolved>>
    BY <1>5 DEF PeelAgain
  <2>3. i' \in Nat \ {0} /\ phase' = "peel"
    BY <2>2
  <2>4. QED
    BY <1>c, <1>v, <1>k, <2>1, <2>2, <2>3
<1>6. CASE RefuseCycle
  <2>1. Elements(stacks) = Valid /\ Stuck # {}
    BY <1>6, <1>v, InOrder, PeeledAll DEF RefuseCycle, Peeled
  <2>2. QED
    BY <1>6, <1>c, <1>v, <1>k, <2>1 DEF RefuseCycle, Peeled, LeftOutIffStuck
<1>7. CASE dropDependencyCycles
  <2>1. /\ phase = "peel" /\ phase' = "order" /\ stacks' = InConfigOrder[resolved]
        /\ stackErrs' = stackErrs \cup (Elements(stacks) \ resolved)
        /\ resolved' = resolved /\ i' = 1 /\ progressed' = FALSE
    BY <1>7 DEF dropDependencyCycles, Peeled
  <2>2. Elements(stacks) = Valid /\ Elements(stacks') = resolved
    BY <2>1, <1>v, InOrder
  <2>3. resolved = Valid \ Stuck
    BY <1>7, PeeledAll DEF dropDependencyCycles
  <2>4. Valid \subseteq config.known \ config.disabled
    BY DEF Valid
  <2>5. LeftOutIffStuck'
    BY <1>c, <1>v, <2>1, <2>2, <2>3, <2>4 DEF LeftOutIffStuck, Elements
  <2>6. i' \in Nat \ {0} /\ phase' # "load" /\ phase' # "peel"
    BY <2>1
  <2>7. QED
    BY <1>c, <1>v, <1>k, <2>1, <2>5, <2>6
<1>8. QED
  BY <1>1, <1>2, <1>3, <1>4, <1>5, <1>6, <1>7 DEF SetNext

-----------------------------------------------------------------------------
\* A pass that has emitted nothing so far has seen only stacks that are placed
\* already or still wait for a dependency.
PassOK ==
    ~progressed => \A k \in 1 .. i - 1 :
        k <= Len(stacks) => stacks[k] \in emitted \/ ~dependenciesEmitted(stacks[k])

\* Each stack is placed at most once.
PlacedOnce == \A j, k \in 1 .. Len(ordered) : j # k => ordered[j] # ordered[k]

OrderTypeOK ==
    /\ SetInv
    /\ ordered \in Seq(Stack)
    /\ phase = "order" => emitted \subseteq Elements(stacks)
    /\ phase # "order" => ordered = <<>>
    /\ PlacedOnce

\* DependenciesFirst, made inductive.
OrderInv == OrderTypeOK /\ (phase = "order" /\ Closed => PassOK) /\ DependenciesFirst

\* A list without repetitions that is longer than another one has an element
\* the other one lacks.
LEMMA LongerHasMore ==
  ASSUME NEW long \in Seq(Stack), NEW short \in Seq(Stack),
         \A j, k \in 1 .. Len(long) : j # k => long[j] # long[k],
         Len(short) < Len(long)
  PROVE  Elements(long) \ Elements(short) # {}
<1> SUFFICES ASSUME Elements(long) \subseteq Elements(short)
             PROVE  FALSE
  OBVIOUS
<1> DEFINE place == [k \in 1 .. Len(long) |-> CHOOSE j \in 1 .. Len(short) : short[j] = long[k]]
<1>1. ASSUME NEW k \in 1 .. Len(long)
      PROVE  place[k] \in 1 .. Len(short) /\ short[place[k]] = long[k]
  <2>1. \E j \in 1 .. Len(short) : short[j] = long[k]
    BY DEF Elements
  <2>2. QED
    BY <2>1
<1>2. place \in [1 .. Len(long) -> 1 .. Len(short)]
  BY <1>1
<1>3. ASSUME NEW n \in Nat
      PROVE  IsFiniteSet(1 .. n) /\ Cardinality(1 .. n) = n
  <2>1. 1 \in Int /\ n \in Int
    OBVIOUS
  <2>2. IsFiniteSet(1 .. n) /\ Cardinality(1 .. n) = IF 1 > n THEN 0 ELSE n - 1 + 1
    BY <2>1, FS_Interval, Zenon
  <2>3. (IF 1 > n THEN 0 ELSE n - 1 + 1) = n
    OBVIOUS
  <2>4. QED
    BY <2>2, <2>3
<1>4. Len(long) \in Nat /\ Len(short) \in Nat
  OBVIOUS
<1> HIDE DEF place
<1>5. PICK j \in 1 .. Len(long), k \in 1 .. Len(long) : j # k /\ place[j] = place[k]
  <2>1. Cardinality(1 .. Len(short)) < Cardinality(1 .. Len(long))
    BY <1>3, <1>4
  <2>2. QED
    BY <1>2, <1>3, <1>4, <2>1, FS_PigeonHole
<1>6. long[j] = long[k]
  BY <1>1, <1>5
<1>7. QED
  BY <1>5, <1>6

\* Ordering starts with nothing placed.
LEMMA OrderInit == Init => OrderInv
<1> SUFFICES ASSUME Init
             PROVE  OrderInv
  OBVIOUS
<1>1. emitted = {} /\ ordered = <<>> /\ <<>> \in Seq(Stack) /\ phase = "load"
  BY DEF Init, SetInit, emitted, Elements
<1>2. OrderTypeOK
  BY <1>1, SetInitInv DEF Init, OrderTypeOK, PlacedOnce
<1>3. QED
  BY <1>1, <1>2 DEF OrderInv, DependenciesFirst

\* Appending a list none of whose stacks is placed keeps every stack placed once.
LEMMA AppendOnce ==
  ASSUME NEW more \in Seq(Stack), ordered \in Seq(Stack), PlacedOnce,
         Elements(more) \cap emitted = {},
         \A j, k \in 1 .. Len(more) : j # k => more[j] # more[k],
         ordered' = ordered \o more
  PROVE  ordered' \in Seq(Stack) /\ emitted' = emitted \cup Elements(more) /\ PlacedOnce'
<1>1. /\ ordered' \in Seq(Stack) /\ Len(ordered') = Len(ordered) + Len(more)
      /\ Len(ordered) \in Nat /\ Len(more) \in Nat
  OBVIOUS
<1>2. ASSUME NEW k \in 1 .. Len(ordered')
      PROVE  \/ k \in 1 .. Len(ordered) /\ ordered'[k] = ordered[k]
             \/ k - Len(ordered) \in 1 .. Len(more) /\ ordered'[k] = more[k - Len(ordered)]
  BY <1>1
<1>3. /\ \A k \in 1 .. Len(ordered) : k \in 1 .. Len(ordered') /\ ordered'[k] = ordered[k]
      /\ \A k \in 1 .. Len(more) :
            k + Len(ordered) \in 1 .. Len(ordered') /\ ordered'[k + Len(ordered)] = more[k]
  BY <1>1
<1>4. emitted' = emitted \cup Elements(more)
  <2>1. emitted' \subseteq emitted \cup Elements(more)
    BY <1>2 DEF emitted, Elements
  <2>2. \A k \in 1 .. Len(ordered') : ordered'[k] \in emitted'
    BY DEF emitted, Elements
  <2>3. emitted \subseteq emitted'
    <3> SUFFICES ASSUME NEW k \in 1 .. Len(ordered)
                 PROVE  ordered[k] \in emitted'
      BY DEF emitted, Elements
    <3>1. QED
      BY <1>3, <2>2
  <2>4. Elements(more) \subseteq emitted'
    <3> SUFFICES ASSUME NEW k \in 1 .. Len(more)
                 PROVE  more[k] \in emitted'
      BY DEF Elements
    <3>1. QED
      BY <1>3, <2>2
  <2>5. QED
    BY <2>1, <2>3, <2>4
<1>m. /\ \A k \in 1 .. Len(ordered) : ordered[k] \in emitted
      /\ \A k \in 1 .. Len(more) : more[k] \in Elements(more)
  BY DEF emitted, Elements
<1>5. ASSUME NEW j \in 1 .. Len(ordered'), NEW k \in 1 .. Len(ordered'), j # k
      PROVE  ordered'[j] # ordered'[k]
  <2>1. CASE j \in 1 .. Len(ordered) /\ k \in 1 .. Len(ordered)
    BY <1>3, <1>5, <2>1 DEF PlacedOnce
  <2>2. CASE j \in 1 .. Len(ordered) /\ k \notin 1 .. Len(ordered)
    BY <1>2, <1>3, <1>m, <2>2
  <2>3. CASE j \notin 1 .. Len(ordered) /\ k \in 1 .. Len(ordered)
    BY <1>2, <1>3, <1>m, <2>3
  <2>4. CASE j \notin 1 .. Len(ordered) /\ k \notin 1 .. Len(ordered)
    <3>1. j - Len(ordered) \in 1 .. Len(more) /\ ordered'[j] = more[j - Len(ordered)]
      BY <1>2, <2>4
    <3>2. k - Len(ordered) \in 1 .. Len(more) /\ ordered'[k] = more[k - Len(ordered)]
      BY <1>2, <2>4
    <3>3. j - Len(ordered) # k - Len(ordered)
      BY <1>1, <1>5
    <3>4. QED
      BY <3>1, <3>2, <3>3
  <2>5. QED
    BY <2>1, <2>2, <2>3, <2>4
<1>6. QED
  BY <1>1, <1>4, <1>5 DEF PlacedOnce

\* A step places no stack that the run does not have, and none for a second time.
LEMMA TypeStep == OrderTypeOK /\ [Next]_vars => OrderTypeOK'
<1> SUFFICES ASSUME OrderTypeOK, [Next]_vars
             PROVE  OrderTypeOK'
  OBVIOUS
<1> USE DEF OrderTypeOK
<1>s. CASE SetNext /\ UNCHANGED <<ordered, fellBack>>
  <2>1. phase # "order" /\ ordered' = ordered /\ ordered = <<>>
    BY <1>s DEF SetNext, ValidateConfig, LoadStacks, Peel, PassOver, PeelAgain, Peeled,
                RefuseCycle, dropDependencyCycles
  <2>2. emitted' = {} /\ PlacedOnce'
    BY <2>1 DEF emitted, Elements, PlacedOnce
  <2>3. SetInv'
    BY <1>s, SetStep
  <2>4. QED
    BY <2>1, <2>2, <2>3
<1> SUFFICES ASSUME ~(SetNext /\ UNCHANGED <<ordered, fellBack>>)
             PROVE  OrderTypeOK'
  BY <1>s
<1>c. UNCHANGED unchangedSet
  BY DEF Next, Emit, Skip, NextPass, AppendRemainder, Return, vars, setVars, unchangedSet
<1>u. UNCHANGED <<config, dependsOn, phase, stacks, stackErrs, resolved>> /\ Elements(stacks)' = Elements(stacks)
  BY <1>c DEF unchangedSet, Elements
<1>1. SetInv'
  <2>1. i' \in {i, i + 1, 1}
    BY DEF Next, Emit, Skip, NextPass, AppendRemainder, Return, vars, setVars
  <2>2. phase # "order" => i' = i /\ progressed' = progressed
    BY DEF Next, Emit, Skip, NextPass, AppendRemainder, Return, Done, vars, setVars
  <2>3. Valid' = Valid /\ Stuck' = Stuck
    BY <1>u DEF Valid, Stuck, Waiting, invalidDependency
  <2>4. NeverStuck' /\ LeftOutIffStuck'
    BY <1>u, <2>3 DEF SetInv, NeverStuck, Waiting, LeftOutIffStuck
  <2>5. phase # "order" /\ SeenOK => SeenOK'
    BY <1>u, <2>2 DEF SeenOK, allResolved
  <2>6. i' \in Nat \ {0}
    BY <2>1 DEF SetInv
  <2>7. QED
    BY <1>u, <2>2, <2>3, <2>4, <2>5, <2>6 DEF SetInv
<1>2. CASE Emit
  <2>1. Turn \in Elements(stacks) /\ Turn \in Stack
    <3>1. stacks \in Seq(Stack) /\ i \in 1 .. Len(stacks)
      BY <1>2, InOrder DEF Emit, SetInv, Valid
    <3>2. QED
      BY <3>1 DEF Turn, Elements
  <2>2. DEFINE more == <<Turn>>
  <2>3. /\ more \in Seq(Stack) /\ Len(more) = 1 /\ Elements(more) = {Turn}
        /\ ordered' = ordered \o more
    BY <1>2, <2>1 DEF Emit, Elements
  <2>4. Elements(more) \cap emitted = {} /\ \A j, k \in 1 .. Len(more) : j = k
    BY <1>2, <2>3 DEF Emit
  <2> HIDE DEF more
  <2>5. ordered' \in Seq(Stack) /\ emitted' = emitted \cup {Turn} /\ PlacedOnce'
    BY <2>3, <2>4, AppendOnce
  <2>6. phase = "order"
    BY <1>2 DEF Emit
  <2>7. QED
    BY <1>1, <1>u, <2>1, <2>5, <2>6
<1>3. CASE AppendRemainder
  <2>1. Elements(stacks) \ emitted \in SUBSET Stack /\ phase = "order"
    <3>1. resolved \in SUBSET Stack /\ stacks = InConfigOrder[resolved] /\ phase = "order"
      BY <1>3 DEF AppendRemainder, SetInv, Valid
    <3>2. Elements(stacks) = resolved
      BY <3>1, InOrder
    <3>3. QED
      BY <3>1, <3>2
  <2>2. DEFINE more == InConfigOrder[Elements(stacks) \ emitted]
  <2>3. ordered' = ordered \o more
    BY <1>3 DEF AppendRemainder
  <2>4. more \in Seq(Stack) /\ Elements(more) = Elements(stacks) \ emitted
        /\ \A j, k \in 1 .. Len(more) : j # k => more[j] # more[k]
    BY <2>1, InOrder
  <2> HIDE DEF more
  <2>5. ordered' \in Seq(Stack) /\ emitted' = emitted \cup Elements(more) /\ PlacedOnce'
    BY <2>3, <2>4, AppendOnce
  <2>6. QED
    BY <1>1, <1>u, <2>1, <2>4, <2>5
<1>4. CASE ~Emit /\ ~AppendRemainder
  <2>1. ordered' = ordered
    BY <1>4 DEF Next, Skip, NextPass, Return, vars
  <2>2. emitted' = emitted /\ PlacedOnce'
    BY <2>1 DEF emitted, Elements, PlacedOnce
  <2>3. QED
    BY <1>1, <1>u, <2>1, <2>2
<1>5. QED
  BY <1>2, <1>3, <1>4

\* In a run that no dependency leads out of, a pass places at least one stack:
\* among the stacks that are left, one depends on none of the others.
LEMMA NoRemainder == OrderInv /\ Closed => ~AppendRemainder
<1> SUFFICES ASSUME OrderInv, Closed, AppendRemainder
             PROVE  FALSE
  OBVIOUS
<1> USE DEF OrderInv, OrderTypeOK
<1> DEFINE left == Elements(stacks) \ emitted
<1>1. /\ stacks \in Seq(Stack) /\ Elements(stacks) = resolved
      /\ \A j, k \in 1 .. Len(stacks) : j # k => stacks[j] # stacks[k]
  BY InOrder DEF AppendRemainder, SetInv, Valid
<1>2. left # {}
  BY <1>1, LongerHasMore DEF AppendRemainder, emitted
<1>3. PICK s \in left : dependsOn[s] \cap left = {}
  <2>1. left \subseteq Valid /\ resolved \cap left # {}
    BY <1>1, <1>2 DEF SetInv
  <2>2. ~Waiting(left)
    BY <2>1 DEF SetInv, NeverStuck
  <2>3. QED
    BY <2>2 DEF Waiting
<1>4. dependenciesEmitted(s)
  BY <1>3 DEF Closed, dependenciesEmitted
<1>5. PICK k \in 1 .. Len(stacks) : stacks[k] = s
  BY <1>3 DEF Elements
<1>6. k \in 1 .. i - 1
  BY <1>1, <1>5 DEF AppendRemainder, SetInv
<1>7. QED
  BY <1>1, <1>3, <1>4, <1>5, <1>6 DEF AppendRemainder, PassOK

\* Every pass keeps what is placed in order.
LEMMA OrderStep == OrderInv /\ [Next]_vars => OrderInv'
<1> SUFFICES ASSUME OrderInv, [Next]_vars
             PROVE  OrderInv'
  OBVIOUS
<1>0. OrderTypeOK'
  BY TypeStep DEF OrderInv
<1> USE DEF OrderInv, OrderTypeOK
<1>s. CASE SetNext /\ UNCHANGED <<ordered, fellBack>>
  <2>1. phase # "order" /\ ordered = <<>> /\ ordered' = <<>>
    BY <1>s DEF SetNext, ValidateConfig, LoadStacks, Peel, PassOver, PeelAgain, Peeled,
                RefuseCycle, dropDependencyCycles
  <2>2. phase' = "order" => i' = 1
    BY <1>s, <2>1 DEF SetNext, ValidateConfig, LoadStacks, Peel, PassOver, PeelAgain, Peeled,
                RefuseCycle, dropDependencyCycles
  <2>3. emitted' = {} /\ <<>> \in Seq(Stack)
    BY <2>1 DEF emitted, Elements
  <2>4. phase' = "order" => PassOK'
    BY <2>2 DEF PassOK
  <2>5. DependenciesFirst'
    BY <2>3 DEF DependenciesFirst
  <2>6. QED
    BY <1>0, <2>4, <2>5
<1> SUFFICES ASSUME ~(SetNext /\ UNCHANGED <<ordered, fellBack>>)
             PROVE  OrderInv'
  BY <1>s
<1>c. UNCHANGED unchangedSet
  BY DEF Next, Emit, Skip, NextPass, AppendRemainder, Return, vars, setVars, unchangedSet
<1>u. UNCHANGED <<config, dependsOn, phase, stacks, stackErrs, resolved>>
  BY <1>c DEF unchangedSet
<1>t. Closed' = Closed
  BY <1>u DEF Closed, Elements
<1>e. CASE phase # "order"
  <2>1. emitted' = {}
    BY <1>0, <1>e, <1>u DEF emitted, Elements
  <2>2. QED
    BY <1>0, <1>e, <1>t, <1>u, <2>1 DEF DependenciesFirst
<1> SUFFICES ASSUME Closed, phase = "order"
             PROVE  PassOK' /\ DependenciesFirst'
  BY <1>0, <1>e, <1>t, <1>u DEF DependenciesFirst
<1>n. ~AppendRemainder
  BY NoRemainder
<1>r. stacks \in Seq(Stack) /\ i \in Nat \ {0}
  BY InOrder DEF SetInv, Valid
<1>1. CASE Emit
  <2>1. Turn \in Stack
    BY <1>1, <1>r DEF Emit, Turn
  <2>2. ordered' = Append(ordered, Turn) /\ ordered' \in Seq(Stack)
    BY <1>1, <2>1 DEF Emit
  <2>3. emitted' = emitted \cup {Turn}
    BY <2>1, <2>2 DEF emitted, Elements
  <2>4. ASSUME NEW s \in emitted', NEW d \in dependsOn[s]
        PROVE  Before(ordered', d, s)
    <3>1. CASE s \in emitted
      <4>1. Before(ordered, d, s)
        BY <3>1 DEF DependenciesFirst
      <4>2. QED
        BY <4>1, <2>1, <2>2 DEF Before
    <3>2. CASE s = Turn
      <4>1. d \in emitted
        BY <1>1, <3>2 DEF Emit, dependenciesEmitted
      <4>2. PICK j \in 1 .. Len(ordered) : ordered[j] = d
        BY <4>1 DEF emitted, Elements
      <4>3. /\ j \in 1 .. Len(ordered') /\ Len(ordered) + 1 \in 1 .. Len(ordered')
            /\ j < Len(ordered) + 1
            /\ ordered'[j] = d /\ ordered'[Len(ordered) + 1] = s
        BY <4>2, <3>2, <2>1, <2>2
      <4>4. QED
        BY <4>3 DEF Before
    <3>3. QED
      BY <2>3, <3>1, <3>2
  <2>5. PassOK'
    BY <1>1 DEF PassOK, Emit
  <2>6. QED
    BY <2>4, <2>5, <1>u DEF DependenciesFirst
<1>2. CASE Skip
  <2>1. UNCHANGED <<ordered, progressed, stacks, dependsOn>> /\ i' = i + 1
    BY <1>2, <1>u DEF Skip
  <2>2. emitted' = emitted /\ \A s \in Stack : dependenciesEmitted(s)' = dependenciesEmitted(s)
    BY <2>1 DEF emitted, Elements, dependenciesEmitted
  <2>3. PassOK'
    <3> SUFFICES ASSUME ~progressed, NEW k \in 1 .. i, k <= Len(stacks)
                 PROVE  stacks[k] \in emitted \/ ~dependenciesEmitted(stacks[k])
      BY <2>1, <2>2, <1>r DEF PassOK
    <3>1. CASE k = i
      BY <3>1, <1>2 DEF Skip, Turn
    <3>2. CASE k # i
      BY <3>2, <1>r DEF PassOK
    <3>3. QED
      BY <3>1, <3>2
  <2>4. DependenciesFirst'
    BY <2>1, <2>2, <1>t DEF DependenciesFirst, Before
  <2>5. QED
    BY <2>3, <2>4
<1>3. CASE NextPass
  <2>1. PassOK'
    BY <1>3 DEF NextPass, PassOK
  <2>2. DependenciesFirst'
    BY <1>3, <1>t, <1>u DEF NextPass, DependenciesFirst, Before, emitted, Elements
  <2>3. QED
    BY <2>1, <2>2
<1>4. CASE Return \/ UNCHANGED vars
  <2>1. UNCHANGED <<stacks, dependsOn, ordered, i, progressed>>
    BY <1>4 DEF Return, vars, setVars
  <2>2. emitted' = emitted /\ \A s : dependenciesEmitted(s)' = dependenciesEmitted(s)
    BY <2>1 DEF emitted, Elements, dependenciesEmitted
  <2>3. PassOK'
    BY <2>1, <2>2 DEF PassOK, dependenciesEmitted
  <2>4. DependenciesFirst'
    BY <2>1, <2>2, <1>t DEF DependenciesFirst, Before
  <2>5. QED
    BY <2>3, <2>4
<1>5. QED
  BY <1>1, <1>2, <1>3, <1>4, <1>n DEF Next

\* The ordering invariant holds throughout.
LEMMA OrderInductive == Spec => []OrderInv
BY OrderInit, OrderStep, PTL DEF Spec

\* However many stacks a config has and however they depend on each other, self
\* references, unknown names and cycles included: as long as every dependency
\* takes part in the run, orderStacks places no stack before one it depends on,
\* at any point of its loop.
THEOREM OrderRespectsDependencies == Spec => []DependenciesFirst
<1>1. OrderInv => DependenciesFirst
  BY DEF OrderInv
<1>2. QED
  BY <1>1, OrderInductive, PTL

\* For every config: a run has all the stacks that are fine except for exactly
\* those on a cycle or waiting for one, and reports every one it leaves out.
THEOREM OnlyStuckLeftOut == Spec => []LeftOutIffStuck
<1>1. OrderInv => LeftOutIffStuck
  BY DEF OrderInv, OrderTypeOK, SetInv
<1>2. QED
  BY <1>1, OrderInductive, PTL

-----------------------------------------------------------------------------
(* Config order.  A group of stacks whose dependencies are all in the       *)
(* group, each listed before the stack that needs it, is placed in the      *)
(* first pass: every one finds its dependencies placed when its turn comes. *)

Settled(G) == \A u \in G : \A d \in dependsOn[u] : d \in G /\ Before(stacks, d, u)

\* The loop has passed no stack of the group without placing it, and has placed
\* none that is listed behind it in front of it.
PlacedInTurn(G) ==
    /\ \A k \in 1 .. Len(stacks) : k < i /\ stacks[k] \in G => stacks[k] \in emitted
    /\ \A x \in G, y \in emitted : Before(stacks, x, y) => Before(ordered, x, y)

\* ConfigOrderKept, made inductive.
InTurn == phase = "order" => \A G \in SUBSET Elements(stacks) : Settled(G) => PlacedInTurn(G)

\* What is placed stays in place when more is appended.
LEMMA AppendKeepsBefore ==
  ASSUME NEW more \in Seq(Stack), ordered \in Seq(Stack), ordered' = ordered \o more,
         NEW x, NEW y, Before(ordered, x, y)
  PROVE  Before(ordered', x, y)
<1>1. PICK j \in 1 .. Len(ordered), k \in 1 .. Len(ordered) :
        j < k /\ ordered[j] = x /\ ordered[k] = y
  BY DEF Before
<1>2. /\ j \in 1 .. Len(ordered') /\ ordered'[j] = x
      /\ k \in 1 .. Len(ordered') /\ ordered'[k] = y
  BY <1>1
<1>3. QED
  BY <1>1, <1>2 DEF Before

\* What is appended lies behind what is placed.
LEMMA AppendedBehind ==
  ASSUME NEW more \in Seq(Stack), ordered \in Seq(Stack), ordered' = ordered \o more,
         NEW x \in emitted, NEW y \in Elements(more)
  PROVE  Before(ordered', x, y)
<1>1. PICK j \in 1 .. Len(ordered) : ordered[j] = x
  BY DEF emitted, Elements
<1>2. PICK k \in 1 .. Len(more) : more[k] = y
  BY DEF Elements
<1>3. /\ j \in 1 .. Len(ordered') /\ ordered'[j] = x
      /\ Len(ordered) + k \in 1 .. Len(ordered') /\ ordered'[Len(ordered) + k] = y
      /\ j < Len(ordered) + k
  BY <1>1, <1>2
<1>4. QED
  BY <1>3 DEF Before

\* In a list without repetitions, one stack cannot lie both before and behind
\* another one.
LEMMA OneOrder ==
  ASSUME ordered \in Seq(Stack), PlacedOnce, NEW x, NEW y,
         Before(ordered, x, y), Before(ordered, y, x)
  PROVE  FALSE
<1>1. PICK j \in 1 .. Len(ordered), k \in 1 .. Len(ordered) :
        j < k /\ ordered[j] = x /\ ordered[k] = y
  BY DEF Before
<1>2. PICK l \in 1 .. Len(ordered), m \in 1 .. Len(ordered) :
        l < m /\ ordered[l] = y /\ ordered[m] = x
  BY DEF Before
<1>3. j = m /\ k = l
  BY <1>1, <1>2 DEF PlacedOnce
<1>4. QED
  BY <1>1, <1>2, <1>3

\* The stacks of the run, as a list of distinct ones.
LEMMA RunStacks ==
  ASSUME SetInv, phase = "order"
  PROVE  /\ stacks \in Seq(Stack) /\ Elements(stacks) = resolved /\ resolved \subseteq Valid
         /\ \A j, k \in 1 .. Len(stacks) : j # k => stacks[j] # stacks[k]
         /\ Len(stacks) \in Nat /\ i \in Nat \ {0}
<1>1. resolved \in SUBSET Stack /\ stacks = InConfigOrder[resolved]
  BY DEF SetInv, Valid
<1>2. QED
  BY <1>1, InOrder DEF SetInv

\* No step places a stack out of turn that depends on nothing listed behind it.
LEMMA InTurnStep == OrderTypeOK /\ InTurn /\ [Next]_vars => InTurn'
<1> SUFFICES ASSUME OrderTypeOK, InTurn, [Next]_vars
             PROVE  InTurn'
  OBVIOUS
<1> USE DEF OrderTypeOK
<1>s. CASE SetNext /\ UNCHANGED <<ordered, fellBack>>
  <2>1. ordered' = <<>> /\ phase' = "order" => i' = 1 /\ emitted' = {}
    BY <1>s DEF SetNext, ValidateConfig, LoadStacks, Peel, PassOver, PeelAgain, Peeled,
                RefuseCycle, dropDependencyCycles, emitted, Elements
  <2>2. ordered' = <<>>
    BY <1>s DEF SetNext, ValidateConfig, LoadStacks, Peel, PassOver, PeelAgain, Peeled,
                RefuseCycle, dropDependencyCycles
  <2>3. ASSUME phase' = "order", NEW G
        PROVE  PlacedInTurn(G)'
    BY <2>1, <2>2, <2>3 DEF PlacedInTurn
  <2>4. QED
    BY <2>3 DEF InTurn
<1>o. CASE phase # "order"
  <2>1. phase' # "order" \/ (SetNext /\ UNCHANGED <<ordered, fellBack>>)
    BY <1>o DEF Next, Emit, Skip, NextPass, AppendRemainder, Return, vars, setVars
  <2>2. QED
    BY <2>1, <1>s DEF InTurn
<1> SUFFICES ASSUME ~(SetNext /\ UNCHANGED <<ordered, fellBack>>), phase = "order"
             PROVE  InTurn'
  BY <1>s, <1>o
<1>u. UNCHANGED <<config, dependsOn, phase, stacks, stackErrs, resolved>>
  BY DEF Next, Emit, Skip, NextPass, AppendRemainder, Return, vars, setVars, unchangedSet
<1>r. /\ stacks \in Seq(Stack) /\ Elements(stacks) = resolved
      /\ \A j, k \in 1 .. Len(stacks) : j # k => stacks[j] # stacks[k]
      /\ Len(stacks) \in Nat /\ i \in Nat \ {0}
  BY RunStacks
<1> SUFFICES ASSUME NEW G \in SUBSET Elements(stacks), Settled(G)
             PROVE  PlacedInTurn(G)'
  BY <1>u DEF InTurn, Settled, Before, Elements
<1>h. PlacedInTurn(G)
  BY DEF InTurn
<1>1. CASE Emit
  <2>1. Turn \in Stack /\ i \in 1 .. Len(stacks)
    BY <1>1, <1>r DEF Emit, Turn
  <2>2. DEFINE more == <<Turn>>
  <2>3. /\ more \in Seq(Stack) /\ Len(more) = 1 /\ Elements(more) = {Turn}
        /\ ordered' = ordered \o more
    BY <1>1, <2>1 DEF Emit, Elements
  <2>4. emitted' = emitted \cup {Turn}
    <3>1. Elements(more) \cap emitted = {} /\ \A j, k \in 1 .. Len(more) : j = k
      BY <1>1, <2>3 DEF Emit
    <3> HIDE DEF more
    <3>2. QED
      BY <2>3, <3>1, AppendOnce
  <2> HIDE DEF more
  <2>5. ASSUME NEW k \in 1 .. Len(stacks), k < i + 1, stacks[k] \in G
        PROVE  stacks[k] \in emitted'
    <3>1. CASE k = i
      BY <2>4, <3>1 DEF Turn
    <3>2. CASE k < i
      BY <2>4, <2>5, <3>2, <1>h DEF PlacedInTurn
    <3>3. QED
      BY <2>5, <3>1, <3>2, <1>r
  <2>6. ASSUME NEW x \in G, NEW y \in emitted', Before(stacks, x, y)
        PROVE  Before(ordered', x, y)
    <3>1. CASE y \in emitted
      BY <2>3, <2>6, <3>1, <1>h, AppendKeepsBefore DEF PlacedInTurn
    <3>2. CASE y = Turn
      <4>1. PICK j \in 1 .. Len(stacks), k \in 1 .. Len(stacks) :
                j < k /\ stacks[j] = x /\ stacks[k] = y
        BY <2>6 DEF Before
      <4>2. k = i
        BY <4>1, <3>2, <2>1, <1>r DEF Turn
      <4>3. x \in emitted
        BY <4>1, <4>2, <1>h DEF PlacedInTurn
      <4>4. y \in Elements(more)
        BY <2>3, <3>2
      <4>5. QED
        BY <2>3, <4>3, <4>4, AppendedBehind
    <3>3. QED
      BY <2>4, <3>1, <3>2
  <2>7. i' = i + 1
    BY <1>1 DEF Emit
  <2>8. QED
    BY <2>5, <2>6, <2>7, <1>u DEF PlacedInTurn, Before
<1>2. CASE Skip
  <2>1. emitted' = emitted /\ ordered' = ordered /\ i' = i + 1 /\ i \in 1 .. Len(stacks)
    BY <1>2, <1>r DEF Skip, emitted, Elements
  <2>2. ASSUME NEW k \in 1 .. Len(stacks), k < i + 1, stacks[k] \in G
        PROVE  stacks[k] \in emitted
    <3>1. CASE k < i
      BY <2>2, <3>1, <1>h DEF PlacedInTurn
    <3>2. CASE k = i
      <4>1. ASSUME NEW d \in dependsOn[Turn]
            PROVE  d \in emitted
        <5>1. d \in G /\ Before(stacks, d, Turn)
          BY <2>2, <3>2 DEF Settled, Turn
        <5>2. PICK j \in 1 .. Len(stacks), l \in 1 .. Len(stacks) :
                j < l /\ stacks[j] = d /\ stacks[l] = Turn
          BY <5>1 DEF Before
        <5>3. l = i
          BY <5>2, <2>1, <1>r DEF Turn
        <5>4. QED
          BY <5>1, <5>2, <5>3, <1>h DEF PlacedInTurn
      <4>2. dependenciesEmitted(Turn)
        BY <4>1 DEF dependenciesEmitted
      <4>3. QED
        BY <1>2, <3>2, <4>2 DEF Skip, Turn
    <3>3. QED
      BY <2>2, <3>1, <3>2, <1>r
  <2>3. QED
    BY <2>1, <2>2, <1>h, <1>u DEF PlacedInTurn, Before
<1>3. CASE NextPass
  <2>1. emitted' = emitted /\ ordered' = ordered /\ i' = 1
    BY <1>3 DEF NextPass, emitted, Elements
  <2>2. \A k \in 1 .. Len(stacks) : ~(k < 1)
    BY <1>r
  <2>3. QED
    BY <2>1, <2>2, <1>h, <1>u DEF PlacedInTurn, Before
<1>4. CASE AppendRemainder
  <2>1. DEFINE more == InConfigOrder[Elements(stacks) \ emitted]
  <2>2. ordered' = ordered \o more /\ i' = i
    BY <1>4 DEF AppendRemainder
  <2>3. more \in Seq(Stack) /\ Elements(more) = Elements(stacks) \ emitted
        /\ \A j, k \in 1 .. Len(more) : j # k => more[j] # more[k]
    <3>1. Elements(stacks) \ emitted \in SUBSET Stack
      BY <1>r DEF SetInv, Valid
    <3>2. QED
      BY <3>1, InOrder
  <2> HIDE DEF more
  <2>4. emitted' = emitted \cup Elements(more)
    BY <2>2, <2>3, AppendOnce
  <2>5. G \subseteq emitted
    <3> SUFFICES ASSUME NEW x \in G
                 PROVE  x \in emitted
      OBVIOUS
    <3>1. PICK k \in 1 .. Len(stacks) : stacks[k] = x
      BY DEF Elements
    <3>2. k < i
      BY <1>4, <1>r DEF AppendRemainder
    <3>3. QED
      BY <3>1, <3>2, <1>h DEF PlacedInTurn
  <2>6. ASSUME NEW x \in G, NEW y \in emitted', Before(stacks, x, y)
        PROVE  Before(ordered', x, y)
    <3>1. CASE y \in emitted
      BY <2>2, <2>3, <2>6, <3>1, <1>h, AppendKeepsBefore DEF PlacedInTurn
    <3>2. CASE y \in Elements(more)
      BY <2>2, <2>3, <2>5, <3>2, AppendedBehind
    <3>3. QED
      BY <2>4, <3>1, <3>2
  <2>7. QED
    BY <2>4, <2>5, <2>6, <1>u DEF PlacedInTurn, Before
<1>5. CASE Return \/ UNCHANGED vars
  <2>1. emitted' = emitted /\ ordered' = ordered /\ i' = i
    BY <1>5 DEF Return, vars, setVars, emitted, Elements
  <2>2. QED
    BY <2>1, <1>h, <1>u DEF PlacedInTurn, Before
<1>6. QED
  BY <1>1, <1>2, <1>3, <1>4, <1>5 DEF Next

\* The dependencies of a stack and of what it waits for are stacks it waits for.
LEMMA UpstreamIsClosed ==
  ASSUME SetInv, NEW x \in Stack
  PROVE  /\ dependsOn[x] \subseteq Upstream(x) /\ Upstream(x) \subseteq Stack
         /\ \A u \in Upstream(x) : dependsOn[u] \subseteq Upstream(x)
         /\ \A C \in SUBSET Stack :
                dependsOn[x] \subseteq C /\ (\A u \in C : dependsOn[u] \subseteq C) => Upstream(x) \subseteq C
<1>1. dependsOn \in [Stack -> SUBSET Stack]
  BY DEF SetInv
<1>2. dependsOn[x] \subseteq Upstream(x) /\ Upstream(x) \subseteq Stack
  BY <1>1 DEF Upstream
<1>3. ASSUME NEW u \in Upstream(x), NEW d \in dependsOn[u]
      PROVE  d \in Upstream(x)
  BY <1>1 DEF Upstream
<1>4. QED
  BY <1>2, <1>3 DEF Upstream

\* A stack that drops behind one listed after it has a reason to.
LEMMA DroppedForAReason == OrderTypeOK /\ InTurn => ConfigOrderKept
<1> SUFFICES ASSUME OrderTypeOK, InTurn, Done, NEW x \in emitted, NEW y \in emitted,
                    Before(stacks, x, y), Before(ordered, y, x),
                    \A u \in {x} \cup Upstream(x) : \A d \in dependsOn[u] :
                        ~Before(stacks, u, d) /\ d \in emitted
             PROVE  FALSE
  BY DEF ConfigOrderKept
<1> USE DEF OrderTypeOK
<1>1. phase = "order"
  BY DEF Done
<1>2. /\ stacks \in Seq(Stack) /\ Elements(stacks) = resolved /\ resolved \subseteq Valid
      /\ \A j, k \in 1 .. Len(stacks) : j # k => stacks[j] # stacks[k]
      /\ Len(stacks) \in Nat
  BY <1>1, RunStacks
<1>3. emitted \subseteq Elements(stacks) /\ Valid \subseteq Stack /\ x \in Stack
  BY <1>1, <1>2 DEF SetInv, Valid
<1> DEFINE G == {x} \cup Upstream(x)
<1>4. G \subseteq emitted
  <2> DEFINE C == Upstream(x) \cap emitted
  <2>1. C \in SUBSET Stack /\ dependsOn[x] \subseteq C
    BY <1>3, UpstreamIsClosed
  <2>2. \A u \in C : dependsOn[u] \subseteq C
    BY <1>3, UpstreamIsClosed
  <2>3. Upstream(x) \subseteq C
    BY <1>3, <2>1, <2>2, UpstreamIsClosed
  <2>4. QED
    BY <2>3
<1>5. ASSUME NEW u \in G, NEW d \in dependsOn[u]
      PROVE  d \in G /\ Before(stacks, d, u)
  <2>1. d \in G /\ ~Before(stacks, u, d)
    BY <1>3, UpstreamIsClosed
  <2>2. u \in Elements(stacks) /\ d \in Elements(stacks)
    BY <1>3, <1>4, <2>1
  <2>3. PICK j \in 1 .. Len(stacks), k \in 1 .. Len(stacks) : stacks[j] = d /\ stacks[k] = u
    BY <2>2 DEF Elements
  <2>4. u # d
    BY <1>2, <2>2 DEF Valid, invalidDependency
  <2>5. j < k \/ k < j
    BY <2>3, <2>4, <1>2
  <2>6. QED
    BY <2>1, <2>3, <2>5 DEF Before
<1>6. G \in SUBSET Elements(stacks) /\ Settled(G)
  BY <1>3, <1>4, <1>5 DEF Settled
<1>7. Before(ordered, x, y)
  BY <1>1, <1>6 DEF InTurn, PlacedInTurn
<1>8. QED
  BY <1>7, OneOrder

\* Whatever the config: among stacks not otherwise constrained orderStacks keeps
\* the config order.  A stack drops behind one listed after it only when it, or a
\* stack it waits for, depends on one that is listed later or not in the run.
THEOREM OrderStaysAsConfigured == Spec => []ConfigOrderKept
<1>1. Init => OrderTypeOK /\ InTurn
  BY OrderInit DEF Init, SetInit, InTurn, OrderInv
<1>2. OrderTypeOK /\ InTurn /\ [Next]_vars => OrderTypeOK' /\ InTurn'
  BY TypeStep, InTurnStep
<1>3. QED
  BY <1>1, <1>2, DroppedForAReason, PTL DEF Spec

\* When the loop is done, every stack that is fine and not stuck is placed, and
\* placed once.
EachPlacedOnce == Done => emitted = Valid \ Stuck /\ PlacedOnce

\* Whatever the depends_on edges are, a cycle among the dependencies outside the
\* run or a dependency that never comes included: orderStacks returns every stack
\* of the run, and none twice.
THEOREM NothingIsLeftOut == Spec => []EachPlacedOnce
<1>1. OrderTypeOK => EachPlacedOnce
  <2> SUFFICES ASSUME OrderTypeOK, Done
               PROVE  Elements(stacks) \subseteq emitted
    BY DEF EachPlacedOnce, OrderTypeOK, Done, SetInv, LeftOutIffStuck
  <2> USE DEF OrderTypeOK
  <2>1. phase = "order" /\ Len(ordered) = Len(stacks)
    BY DEF Done
  <2>2. stacks \in Seq(Stack) /\ Elements(stacks) \subseteq Stack
    BY <2>1, RunStacks DEF Elements
  <2>3. ASSUME NEW s \in Elements(stacks) \ emitted
        PROVE  FALSE
    <3> DEFINE long == Append(ordered, s)
    <3>1. long \in Seq(Stack) /\ Len(stacks) < Len(long) /\ Len(long) = Len(ordered) + 1
      BY <2>1, <2>2
    <3>2. ASSUME NEW k \in 1 .. Len(long)
          PROVE  IF k \in 1 .. Len(ordered) THEN long[k] = ordered[k] /\ long[k] \in emitted
                                            ELSE long[k] = s /\ k = Len(ordered) + 1
      <4>1. CASE k \in 1 .. Len(ordered)
        BY <4>1 DEF emitted, Elements
      <4>2. CASE k \notin 1 .. Len(ordered)
        BY <3>1, <4>2
      <4>3. QED
        BY <4>1, <4>2
    <3> HIDE DEF long
    <3>3. \A j, k \in 1 .. Len(long) : j # k => long[j] # long[k]
      BY <2>3, <3>2 DEF PlacedOnce
    <3>4. Elements(long) \subseteq Elements(stacks)
      BY <2>1, <2>3, <3>2 DEF Elements
    <3>5. QED
      BY <2>2, <3>1, <3>3, <3>4, LongerHasMore
  <2>4. QED
    BY <2>3
<1>2. OrderInv => OrderTypeOK
  BY DEF OrderInv
<1>3. QED
  BY <1>1, <1>2, OrderInductive, PTL
=============================================================================
