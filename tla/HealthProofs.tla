---------------------------- MODULE HealthProofs ----------------------------
(***************************************************************************)
(* The two that act on the poller's snapshots.  The self-heal engine, for   *)
(* any number of stacks and any budget: what it remembers of an outage and  *)
(* what was really done about it never drift apart by more than the one     *)
(* heal that a deploy can overtake.  The watchdog's debounce and its alert  *)
(* cooldown, for any stacks, services, containers, debounce and cooldown,   *)
(* with failing saves and restarts.                                         *)
(***************************************************************************)
EXTENDS SelfHeal, HealthWatch, TLAPS

-----------------------------------------------------------------------------
(* The self-heal engine                                                     *)

InFlight(s) == heal # None /\ heal.stack = s
Ran(s) == InFlight(s) /\ heal.at = "ran"

\* An outage the engine remembers: its attempts lag behind the heals by the one
\* that ran and is not counted yet, and by one that was decided before a reset.
Tracked(s) ==
    /\ states[s].healthy = calm[s] /\ calm[s] < minPolls
    /\ states[s].attempts <= heals[s]
    /\ heals[s] <= states[s].attempts + 2
    /\ Ran(s) => states[s].attempts < heals[s]
    /\ ~Ran(s) => heals[s] <= states[s].attempts + 1
    /\ InFlight(s) => states[s].attempts < maxAttempts

\* No outage: at most one heal overtook the reset, and none is still to come.
Untracked(s) == heals[s] <= 1 /\ (InFlight(s) /\ ~Ran(s) => heals[s] = 0)

Budgeted(s) == IF states[s] = None THEN Untracked(s) ELSE Tracked(s)

Types ==
    /\ states \in [Stack -> StackState \cup {None}]
    /\ heals \in [Stack -> Nat]
    /\ calm \in [Stack -> 0..minPolls]
    /\ heal \in HealState \cup {None}

Budget == Types /\ \A s \in Stack : Budgeted(s)

-----------------------------------------------------------------------------
(* Changes of a stack's state stay in its type.                            *)

\* The outage an evaluation starts from is a stack state, the fresh one included.
LEMMA FreshState == fresh \in StackState
<1>1. /\ minPolls \in Nat /\ maxAttempts \in Nat /\ cooldown \in Nat
  BY SelfHealAssumption
<1>. QED BY <1>1 DEF fresh, StackState

\* Counting an attempt starts the cooldown and keeps the rest.
LEMMA AttemptCounted ==
  ASSUME NEW st \in StackState, st.attempts < maxAttempts,
         NEW c \in 0..cooldown
  PROVE  LET up == [st EXCEPT !.attempts = @ + 1, !.cool = c]
         IN  /\ up \in StackState
             /\ up.attempts = st.attempts + 1 /\ up.healthy = st.healthy
<1>. DEFINE a == st.attempts + 1
<1>1. a \in 0..maxAttempts
  BY SelfHealAssumption DEF StackState
<1>. HIDE DEF a
<1>2. [st EXCEPT !.attempts = a, !.cool = c] \in StackState
  BY <1>1 DEF StackState
<1>3. /\ [st EXCEPT !.attempts = a, !.cool = c].attempts = a
      /\ [st EXCEPT !.attempts = a, !.cool = c].healthy = st.healthy
  BY DEF StackState
<1>. QED BY <1>2, <1>3 DEF a

\* A healthy poll is counted until the outage ends.
LEMMA HealthyCounted ==
  ASSUME NEW st \in StackState, st.healthy < minPolls
  PROVE  LET up == [st EXCEPT !.degraded = 0, !.healthy = @ + 1]
         IN  /\ up \in StackState
             /\ up.healthy = st.healthy + 1 /\ up.attempts = st.attempts
             /\ up.exhausted = st.exhausted
<1>. DEFINE h == st.healthy + 1
<1>1. h \in 0..minPolls /\ 0 \in 0..minPolls
  BY SelfHealAssumption DEF StackState
<1>. HIDE DEF h
<1>2. [st EXCEPT !.degraded = 0, !.healthy = h] \in StackState
  BY <1>1 DEF StackState
<1>3. /\ [st EXCEPT !.degraded = 0, !.healthy = h].healthy = h
      /\ [st EXCEPT !.degraded = 0, !.healthy = h].attempts = st.attempts
      /\ [st EXCEPT !.degraded = 0, !.healthy = h].exhausted = st.exhausted
  BY DEF StackState
<1>. QED BY <1>2, <1>3 DEF h

\* A degraded poll ends the healthy ones and leaves the attempts alone.
LEMMA DegradedCounted ==
  ASSUME Types, NEW s \in Stack
  PROVE  /\ counted(s) \in StackState
         /\ counted(s).healthy = 0
         /\ counted(s).attempts = current(s).attempts
         /\ counted(s).exhausted = current(s).exhausted
<1>1. current(s) \in StackState
  BY FreshState DEF Types, current
<1>. DEFINE st == [current(s) EXCEPT !.healthy = 0]
            d == st.degraded + 1
<1>2. 0 \in 0..minPolls
  BY SelfHealAssumption
<1>3. /\ st \in StackState /\ st.healthy = 0
      /\ st.attempts = current(s).attempts /\ st.exhausted = current(s).exhausted
  BY <1>1, <1>2 DEF StackState
<1>. HIDE DEF st
<1>4. st.degraded # minPolls => d \in 0..minPolls
  BY <1>3, SelfHealAssumption DEF StackState
<1>. HIDE DEF d
<1>5. ASSUME st.degraded # minPolls
      PROVE  /\ [st EXCEPT !.degraded = d] \in StackState
             /\ [st EXCEPT !.degraded = d].healthy = 0
             /\ [st EXCEPT !.degraded = d].attempts = st.attempts
             /\ [st EXCEPT !.degraded = d].exhausted = st.exhausted
  BY <1>3, <1>4, <1>5 DEF StackState
<1>6. counted(s) = IF st.exhausted \/ st.degraded = minPolls THEN st
                   ELSE [st EXCEPT !.degraded = d]
  BY DEF counted, st, d
<1>. QED BY <1>3, <1>5, <1>6

\* Giving a stack up changes nothing else.
LEMMA GivingUp ==
  ASSUME NEW st \in StackState, NEW x \in BOOLEAN
  PROVE  LET up == [st EXCEPT !.exhausted = @ \/ x]
         IN  /\ up \in StackState
             /\ up.healthy = st.healthy /\ up.attempts = st.attempts
<1>1. st.exhausted \in BOOLEAN
  BY DEF StackState
<1>. DEFINE e == st.exhausted \/ x
<1>2. e \in BOOLEAN
  OBVIOUS
<1>. HIDE DEF e
<1>3. [st EXCEPT !.exhausted = e] \in StackState
  BY <1>2 DEF StackState
<1>4. /\ [st EXCEPT !.exhausted = e].healthy = st.healthy
      /\ [st EXCEPT !.exhausted = e].attempts = st.attempts
  BY DEF StackState
<1>. QED BY <1>3, <1>4 DEF e

\* A tick only shortens the cooldown.
LEMMA Cooled ==
  ASSUME NEW st \in StackState, st.cool # 0
  PROVE  LET up == [st EXCEPT !.cool = @ - 1]
         IN  /\ up \in StackState
             /\ up.healthy = st.healthy /\ up.attempts = st.attempts
<1>1. /\ minPolls \in Nat /\ maxAttempts \in Nat /\ cooldown \in Nat
  BY SelfHealAssumption
<1>. QED BY <1>1 DEF StackState

\* A declined heal is remembered, and nothing else.
LEMMA DeclinedNoted ==
  ASSUME NEW st \in StackState
  PROVE  LET up == [st EXCEPT !.declined = TRUE]
         IN  /\ up \in StackState
             /\ up.healthy = st.healthy /\ up.attempts = st.attempts
BY DEF StackState

-----------------------------------------------------------------------------
(* The budget is inductive.                                                *)

\* Nothing is nothing else.
LEMMA NoneApart == None \notin Stack /\ None \notin StackState /\ None \notin HealState
BY SelfHealAssumption

\* At the start there is no outage.
LEMMA BudgetInit == Init => Budget
<1>. SUFFICES ASSUME Init PROVE Budget
  OBVIOUS
<1>1. 0 \in 0..minPolls
  BY SelfHealAssumption
<1>. QED BY <1>1 DEF Init, Budget, Types, Budgeted, Untracked, InFlight

\* What leaves the engine's memory and the ghosts alone leaves the budget alone.
LEMMA BudgetFrame ==
  ASSUME Budget, UNCHANGED <<states, heals, calm, heal>>
  PROVE  Budget'
BY DEF Budget, Types, Budgeted, Tracked, Untracked, InFlight, Ran

\* Pruning forgets a stack's outage together with the heals counted for it.
LEMMA BudgetObserve ==
  ASSUME Budget, NEW readable \in SUBSET refs, Observe(readable)
  PROVE  Budget'
<1>1. Types'
  BY DEF Budget, Types, Observe
<1>2. ASSUME NEW s \in Stack PROVE Budgeted(s)'
  <2>1. CASE s \in refs
    BY <2>1 DEF Budget, Types, Observe, Budgeted, Tracked, Untracked, InFlight, Ran
  <2>2. CASE s \notin refs
    BY <2>2 DEF Budget, Types, Observe, Budgeted, Untracked
  <2>. QED BY <2>1, <2>2
<1>. QED BY <1>1, <1>2 DEF Budget

\* A healthy snapshot moves calm, and ends the count of heals at minPolls.
LEMMA CalmSeen ==
  ASSUME Budget, NEW s \in Stack, SeenHealthy(s)
  PROVE  /\ calm' \in [Stack -> 0..minPolls] /\ heals' \in [Stack -> Nat]
         /\ calm'[s] = IF calm[s] < minPolls THEN calm[s] + 1 ELSE calm[s]
         /\ heals'[s] = IF calm'[s] = minPolls THEN 0 ELSE heals[s]
         /\ \A u \in Stack \ {s} : calm'[u] = calm[u] /\ heals'[u] = heals[u]
BY SelfHealAssumption DEF Budget, Types, SeenHealthy

\* The stacks an evaluation is not about keep what they have, and no heal is
\* under way for them afterwards.
LEMMA OthersKept ==
  ASSUME Budget, NEW s \in Stack, NEW u \in Stack \ {s},
         heal = None, heal' = None \/ heal'.stack = s,
         states'[u] = states[u], heals'[u] = heals[u], calm'[u] = calm[u]
  PROVE  Budgeted(u)'
BY DEF Budget, Types, Budgeted, Tracked, Untracked, InFlight, Ran

\* An evaluation that only waits may still see a healthy poll.
LEMMA BudgetWait ==
  ASSUME Budget, NEW s \in Stack, Wait(s)
  PROVE  Budget'
<1>1. CASE category(s) # "recovered"
  BY <1>1, BudgetFrame DEF Wait
<1>2. CASE category(s) = "recovered"
  <2>1. /\ states[s] = None /\ heal = None /\ heal' = None /\ states' = states
        /\ SeenHealthy(s)
    BY <1>2 DEF Wait, Evaluating
  <2>2. Types'
    BY <2>1, CalmSeen DEF Budget, Types
  <2>3. Budgeted(s)'
    BY <2>1, CalmSeen DEF Budget, Types, Budgeted, Untracked, InFlight
  <2>4. ASSUME NEW u \in Stack \ {s} PROVE Budgeted(u)'
    BY <2>1, CalmSeen, OthersKept
  <2>. QED BY <2>2, <2>3, <2>4 DEF Budget
<1>. QED BY <1>1, <1>2

\* A healthy evaluation counts towards the end of the outage, and ends it together
\* with the heals counted for it.
LEMMA BudgetRecovered ==
  ASSUME Budget, NEW s \in Stack, Recovered(s)
  PROVE  Budget'
<1>. DEFINE st == [states[s] EXCEPT !.degraded = 0, !.healthy = @ + 1]
            ended == st.healthy >= minPolls
<1>1. /\ heal = None /\ heal' = None /\ states[s] # None /\ SeenHealthy(s)
      /\ states' = [states EXCEPT ![s] = IF ended THEN None ELSE st]
  BY DEF Recovered, Evaluating
<1>2. states[s] \in StackState /\ Tracked(s)
  BY <1>1 DEF Budget, Types, Budgeted
<1>3. /\ st \in StackState /\ st.healthy = states[s].healthy + 1
      /\ st.attempts = states[s].attempts
  BY <1>2, HealthyCounted DEF Tracked
<1>. HIDE DEF st
<1>4. Types'
  BY <1>1, <1>3, CalmSeen DEF Budget, Types
<1>5. calm[s] \in Nat /\ heals[s] \in Nat /\ minPolls \in Nat
  BY SelfHealAssumption DEF Budget, Types
<1>6. ended <=> calm'[s] = minPolls
  BY <1>2, <1>3, <1>5, CalmSeen, <1>1 DEF Tracked
<1>7. Budgeted(s)'
  <2>1. CASE ended
    <3>1. states'[s] = None /\ heals'[s] = 0
      BY <1>1, <1>6, <2>1, CalmSeen DEF Budget, Types
    <3>. QED BY <3>1, <1>1 DEF Budgeted, Untracked
  <2>2. CASE ~ended
    <3>1. states'[s] = st /\ heals'[s] = heals[s] /\ calm'[s] = calm[s] + 1
      BY <1>1, <1>2, <1>5, <1>6, <2>2, CalmSeen DEF Budget, Types, Tracked
    <3>2. st # None
      BY <1>3, NoneApart
    <3>3. st.attempts \in Nat /\ st.healthy < minPolls /\ st.healthy = calm[s] + 1
      BY <1>2, <1>3, <1>5, <2>2, SelfHealAssumption DEF StackState, Tracked
    <3>4. ~InFlight(s) /\ ~InFlight(s)' /\ ~Ran(s) /\ ~Ran(s)'
      BY <1>1 DEF InFlight, Ran
    <3>5. Tracked(s)'
      BY <1>2, <1>3, <1>5, <3>1, <3>3, <3>4 DEF Tracked
    <3>. QED BY <3>1, <3>2, <3>5 DEF Budgeted
  <2>. QED BY <2>1, <2>2
<1>8. ASSUME NEW u \in Stack \ {s} PROVE Budgeted(u)'
  <2>1. states'[u] = states[u]
    BY <1>1 DEF Budget, Types
  <2>. QED BY <1>1, <2>1, CalmSeen, OthersKept
<1>. QED BY <1>4, <1>7, <1>8 DEF Budget

\* A degraded evaluation starts an outage, gives it up, or decides one more heal.
LEMMA BudgetDegraded ==
  ASSUME Budget, NEW s \in Stack, Degraded(s)
  PROVE  Budget'
<1>. DEFINE c == counted(s)
            st == [c EXCEPT !.exhausted = @ \/ givenUp(c)]
<1>1. /\ heal = None /\ heals' = heals /\ calm' = [calm EXCEPT ![s] = 0]
      /\ states' = [states EXCEPT ![s] = st]
      /\ heal' = IF healNow(c) THEN [stack |-> s, at |-> "decided"] ELSE None
  BY DEF Degraded, Evaluating
<1>2. /\ c \in StackState /\ c.attempts = current(s).attempts
  BY DegradedCounted DEF Budget
<1>3. c.healthy = 0
  BY DegradedCounted DEF Budget
<1>4. givenUp(c) \in BOOLEAN
  BY DEF givenUp, persistent
<1>5. /\ st \in StackState /\ st.healthy = 0
      /\ st.attempts = current(s).attempts
  BY <1>2, <1>3, <1>4, GivingUp
<1>6. healNow(c) => current(s).attempts < maxAttempts
  BY <1>2 DEF healNow
<1>. HIDE DEF st, c
<1>7. /\ [stack |-> s, at |-> "decided"] \in HealState
      /\ [stack |-> s, at |-> "decided"] # None
  BY NoneApart DEF HealState
<1>8. 0 \in 0..minPolls /\ 0 < minPolls
  BY SelfHealAssumption
<1>9. Types'
  BY <1>1, <1>5, <1>7, <1>8 DEF Budget, Types
<1>10. /\ current(s).attempts \in Nat
       /\ current(s).attempts <= heals[s] /\ heals[s] <= current(s).attempts + 1
  <2>1. heals[s] \in Nat /\ ~InFlight(s) /\ ~Ran(s) /\ Budgeted(s)
    BY <1>1 DEF Budget, Types, InFlight, Ran
  <2>2. CASE states[s] = None
    BY <2>1, <2>2 DEF current, fresh, Budgeted, Untracked
  <2>3. CASE states[s] # None
    <3>1. states[s].attempts \in Nat
      BY <2>3, SelfHealAssumption DEF Budget, Types, StackState
    <3>. QED BY <2>1, <2>3, <3>1 DEF current, Budgeted, Tracked
  <2>. QED BY <2>2, <2>3
<1>11. Budgeted(s)'
  <2>1. states'[s] = st /\ st # None /\ calm'[s] = 0 /\ heals'[s] = heals[s]
    BY <1>1, <1>5, NoneApart DEF Budget, Types
  <2>2. ~Ran(s)' /\ (InFlight(s)' => current(s).attempts < maxAttempts)
    BY <1>1, <1>6 DEF Ran, InFlight
  <2>3. heals[s] \in Nat
    BY DEF Budget, Types
  <2>4. Tracked(s)'
    BY <1>5, <1>8, <1>10, <2>1, <2>2, <2>3 DEF Tracked
  <2>. QED BY <2>1, <2>4 DEF Budgeted
<1>12. ASSUME NEW u \in Stack \ {s} PROVE Budgeted(u)'
  <2>1. /\ states'[u] = states[u] /\ heals'[u] = heals[u] /\ calm'[u] = calm[u]
        /\ heal' = None \/ heal'.stack = s
    BY <1>1 DEF Budget, Types
  <2>. QED BY <1>1, <2>1, OthersKept
<1>. QED BY <1>9, <1>11, <1>12 DEF Budget

\* A heal moves on, or is given up, without having run and without a change of
\* the outage that counts.
LEMMA BudgetNotRun ==
  ASSUME Budget, heal # None, heal.at # "ran",
         heal' = None \/ (heal' = [heal EXCEPT !.at = "locked"] /\ heal.at = "decided"),
         heals' = heals, calm' = calm, states' \in [Stack -> StackState \cup {None}],
         \A s \in Stack : /\ states'[s] = None <=> states[s] = None
                          /\ states[s] # None => /\ states'[s].healthy = states[s].healthy
                                                 /\ states'[s].attempts = states[s].attempts
  PROVE  Budget'
<1>1. heal \in HealState /\ [heal EXCEPT !.at = "locked"] \in HealState
  BY DEF Budget, Types, HealState
<1>2. heal' # None => heal'.stack = heal.stack /\ heal'.at = "locked"
  BY <1>1 DEF HealState
<1>3. Types'
  BY <1>1 DEF Budget, Types
<1>4. ASSUME NEW s \in Stack PROVE Budgeted(s)'
  <2>1. Budgeted(s) /\ heals[s] \in Nat
    BY DEF Budget, Types
  <2>2. CASE states[s] = None
    <3>1. states'[s] = None
      BY <2>2
    <3>. QED BY <1>2, <2>1, <2>2, <3>1 DEF Budgeted, Untracked, Ran, InFlight
  <2>3. CASE states[s] # None
    <3>1. /\ states'[s] # None /\ states'[s].healthy = states[s].healthy
          /\ states'[s].attempts = states[s].attempts
      BY <2>3
    <3>. QED BY <1>2, <2>1, <2>3, <3>1 DEF Budgeted, Tracked, Ran, InFlight
  <2>. QED BY <2>2, <2>3
<1>. QED BY <1>3, <1>4 DEF Budget

\* A heal is skipped, deferred, run, or counted; only a run moves the count of heals.
LEMMA BudgetHeal ==
  ASSUME Budget, Heal
  PROVE  Budget'
<1>1. CASE SkipBusy
  BY <1>1, BudgetNotRun DEF SkipBusy, Budget, Types
<1>2. CASE LockMutex
  BY <1>2, BudgetNotRun DEF LockMutex, Budget, Types
<1>3. CASE Deferred
  <2>1. heal \in HealState /\ heal.stack \in Stack
    BY <1>3 DEF Deferred, Budget, Types, HealState
  <2>. DEFINE h == heal.stack
              st == [states[h] EXCEPT !.declined = TRUE]
  <2>2. states' = [states EXCEPT ![h] = IF states[h] = None THEN None ELSE st]
    BY <1>3, <2>1 DEF Deferred, Budget, Types
  <2>3. states[h] # None => /\ st \in StackState /\ st # None
                            /\ st.healthy = states[h].healthy
                            /\ st.attempts = states[h].attempts
    BY <2>1, DeclinedNoted, NoneApart DEF Budget, Types
  <2>. HIDE DEF st
  <2>4. /\ states' \in [Stack -> StackState \cup {None}]
        /\ \A s \in Stack : /\ states'[s] = None <=> states[s] = None
                            /\ states[s] # None => /\ states'[s].healthy = states[s].healthy
                                                   /\ states'[s].attempts = states[s].attempts
    BY <2>1, <2>2, <2>3 DEF Budget, Types
  <2>. QED BY <1>3, <2>4, BudgetNotRun DEF Deferred
<1>4. CASE RunHeal
  <2>1. /\ heal \in HealState /\ heal # None /\ heal.at = "locked"
        /\ heal' = [heal EXCEPT !.at = "ran"]
        /\ heals' = [heals EXCEPT ![heal.stack] = @ + 1]
        /\ states' = states /\ calm' = calm
    BY <1>4 DEF RunHeal, Budget, Types
  <2>2. /\ heal' \in HealState /\ heal' # None /\ heal.stack \in Stack
        /\ heal'.stack = heal.stack /\ heal'.at = "ran"
    BY <2>1, NoneApart DEF HealState
  <2>3. Types'
    BY <2>1, <2>2 DEF Budget, Types
  <2>4. ASSUME NEW s \in Stack PROVE Budgeted(s)'
    <3>1. Budgeted(s) /\ heals[s] \in Nat
      BY DEF Budget, Types
    <3>2. CASE s = heal.stack
      <4>1. InFlight(s) /\ ~Ran(s) /\ Ran(s)' /\ InFlight(s)' /\ heals'[s] = heals[s] + 1
        BY <2>1, <2>2, <3>2 DEF InFlight, Ran, Budget, Types
      <4>2. CASE states[s] = None
        BY <2>1, <3>1, <4>1, <4>2 DEF Budgeted, Untracked
      <4>3. CASE states[s] # None
        <5>1. states[s].attempts \in Nat
          BY <4>3, SelfHealAssumption DEF Budget, Types, StackState
        <5>. QED BY <2>1, <3>1, <4>1, <4>3, <5>1 DEF Budgeted, Tracked
      <4>. QED BY <4>2, <4>3
    <3>3. CASE s # heal.stack
      BY <2>1, <2>2, <3>1, <3>3 DEF Budgeted, Tracked, Untracked, InFlight, Ran, Budget, Types
    <3>. QED BY <3>2, <3>3
  <2>. QED BY <2>3, <2>4 DEF Budget
<1>5. CASE CountAttempt
  <2>1. /\ heal \in HealState /\ heal # None /\ heal.at = "ran" /\ heal.stack \in Stack
        /\ heal' = None /\ heals' = heals /\ calm' = calm
    BY <1>5 DEF CountAttempt, Budget, Types, HealState
  <2>. DEFINE h == heal.stack
              st == [states[h] EXCEPT !.attempts = states[h].attempts + 1, !.cool = cooldown]
  <2>2. states' = [states EXCEPT ![h] = IF states[h] = None THEN None ELSE st]
    BY <1>5, Zenon DEF CountAttempt
  <2>3. Budgeted(h) /\ InFlight(h) /\ Ran(h)
    BY <2>1 DEF Budget, InFlight, Ran
  <2>4. cooldown \in 0..cooldown
    BY SelfHealAssumption
  <2>5. ASSUME states[h] # None
        PROVE  /\ st \in StackState /\ st # None
               /\ st.healthy = states[h].healthy
               /\ st.attempts = states[h].attempts + 1
    <3>1. states[h] \in StackState /\ states[h].attempts < maxAttempts
      BY <2>1, <2>3, <2>5 DEF Budget, Types, Budgeted, Tracked
    <3>. QED BY <2>4, <3>1, AttemptCounted, NoneApart, Zenon
  <2>. HIDE DEF st
  <2>6. Types'
    BY <2>1, <2>2, <2>5 DEF Budget, Types
  <2>7. ASSUME NEW s \in Stack PROVE Budgeted(s)'
    <3>1. Budgeted(s) /\ heals[s] \in Nat /\ ~InFlight(s)' /\ ~Ran(s)'
      BY <2>1 DEF Budget, Types, InFlight, Ran
    <3>2. CASE states[s] = None
      <4>1. states'[s] = None
        BY <2>1, <2>2, <3>2 DEF Budget, Types
      <4>. QED BY <2>1, <3>1, <3>2, <4>1 DEF Budgeted, Untracked
    <3>3. CASE states[s] # None /\ s # h
      <4>1. states'[s] = states[s]
        BY <2>1, <2>2, <3>3 DEF Budget, Types
      <4>2. ~Ran(s)
        BY <3>3 DEF Ran, InFlight
      <4>. QED BY <2>1, <3>1, <3>3, <4>1, <4>2 DEF Budgeted, Tracked
    <3>4. CASE states[s] # None /\ s = h
      <4>1. states'[s] = st
        BY <2>1, <2>2, <3>4 DEF Budget, Types
      <4>2. states[s].attempts \in Nat
        BY <3>4, SelfHealAssumption DEF Budget, Types, StackState
      <4>. QED BY <2>1, <2>3, <2>5, <3>1, <3>4, <4>1, <4>2 DEF Budgeted, Tracked
    <3>. QED BY <3>2, <3>3, <3>4
  <2>. QED BY <2>6, <2>7 DEF Budget
<1>. QED BY <1>1, <1>2, <1>3, <1>4, <1>5 DEF Heal

\* A deploy resets the engine's memory and the count of heals together, whether a
\* heal of the stack is on its way or not.
LEMMA BudgetDeploy ==
  ASSUME Budget, NEW s \in Stack, DeployStack(s)
  PROVE  Budget'
<1>1. /\ states' = [states EXCEPT ![s] = None] /\ heals' = [heals EXCEPT ![s] = 0]
      /\ heal' = heal /\ calm' = calm
  BY DEF DeployStack, Reset
<1>2. Types'
  BY <1>1 DEF Budget, Types
<1>3. Budgeted(s)'
  BY <1>1 DEF Budget, Types, Budgeted, Untracked
<1>4. ASSUME NEW u \in Stack \ {s} PROVE Budgeted(u)'
  BY <1>1, <1>4 DEF Budget, Types, Budgeted, Tracked, Untracked, InFlight, Ran
<1>. QED BY <1>2, <1>3, <1>4 DEF Budget

\* Time shortens cooldowns and nothing else.
LEMMA BudgetTick ==
  ASSUME Budget, Tick
  PROVE  Budget'
<1>1. /\ heals' = heals /\ calm' = calm /\ heal' = heal
  BY DEF Tick
<1>2. ASSUME NEW s \in Stack
      PROVE  /\ states'[s] \in StackState \cup {None}
             /\ states'[s] = None <=> states[s] = None
             /\ states[s] # None => /\ states'[s].healthy = states[s].healthy
                                    /\ states'[s].attempts = states[s].attempts
  <2>1. CASE states[s] = None \/ states[s].cool = 0
    BY <2>1 DEF Tick, Budget, Types
  <2>2. CASE states[s] # None /\ states[s].cool # 0
    <3>1. states'[s] = [states[s] EXCEPT !.cool = @ - 1] /\ states[s] \in StackState
      BY <2>2 DEF Tick, Budget, Types
    <3>. QED BY <2>2, <3>1, Cooled, NoneApart
  <2>. QED BY <2>1, <2>2
<1>3. Types'
  <2>1. states' = [s \in Stack |-> states'[s]]
    BY DEF Tick
  <2>. QED BY <1>1, <1>2, <2>1 DEF Budget, Types
<1>4. ASSUME NEW s \in Stack PROVE Budgeted(s)'
  <2>1. Budgeted(s)
    BY DEF Budget
  <2>2. CASE states[s] = None
    BY <1>1, <1>2, <2>1, <2>2 DEF Budgeted, Untracked, InFlight, Ran
  <2>3. CASE states[s] # None
    BY <1>1, <1>2, <2>1, <2>3 DEF Budgeted, Tracked, InFlight, Ran
  <2>. QED BY <2>2, <2>3
<1>. QED BY <1>3, <1>4 DEF Budget

\* A restart forgets everything.
LEMMA BudgetRestart ==
  ASSUME Budget, Restart
  PROVE  Budget'
<1>1. 0 \in 0..minPolls
  BY SelfHealAssumption
<1>. QED BY <1>1 DEF Restart, Budget, Types, Budgeted, Untracked, InFlight

\* Every step of the specification keeps the budget.
LEMMA BudgetStep == Budget /\ [Next]_vars => Budget'
<1>. SUFFICES ASSUME Budget, [Next]_vars PROVE Budget'
  OBVIOUS
<1>1. CASE Poll
  BY <1>1, BudgetObserve DEF Poll
<1>2. CASE Observed
  BY <1>2, BudgetFrame DEF Observed, engineVars
<1>3. CASE Evaluate
  BY <1>3, BudgetWait, BudgetRecovered, BudgetDegraded DEF Evaluate
<1>4. CASE Heal
  BY <1>4, BudgetHeal
<1>5. CASE StartRun \/ EndRun
  BY <1>5, BudgetFrame DEF StartRun, EndRun, engineVars
<1>6. CASE Tick
  BY <1>6, BudgetTick
<1>7. CASE Restart
  BY <1>7, BudgetRestart
<1>8. ASSUME NEW s \in Stack, DeployStack(s) PROVE Budget'
  BY <1>8, BudgetDeploy
<1>9. ASSUME NEW s \in Stack, PendingChanges(s) \/ World(s) PROVE Budget'
  BY <1>9, BudgetFrame DEF PendingChanges, World, engineVars
<1>10. CASE UNCHANGED vars
  BY <1>10, BudgetFrame DEF vars, engineVars
<1>. QED BY <1>1, <1>2, <1>3, <1>4, <1>5, <1>6, <1>7, <1>8, <1>9, <1>10 DEF Next

-----------------------------------------------------------------------------
(* The properties.                                                         *)

\* The budget is a bound on what is really done to a stack.
LEMMA BudgetBounds == Budget => HealBudget
<1>. SUFFICES ASSUME Budget, NEW s \in Stack PROVE heals[s] <= maxAttempts + 1
  BY DEF HealBudget
<1>1. Budgeted(s) /\ heals[s] \in Nat /\ maxAttempts \in Nat
  BY SelfHealAssumption DEF Budget, Types
<1>2. CASE states[s] = None
  BY <1>1, <1>2 DEF Budgeted, Untracked
<1>3. CASE states[s] # None
  <2>1. states[s].attempts \in 0..maxAttempts
    BY <1>3 DEF Budget, Types, StackState
  <2>2. CASE Ran(s)
    <3>1. states[s].attempts < maxAttempts
      BY <1>1, <1>3, <2>2 DEF Budgeted, Tracked, Ran
    <3>. QED BY <1>1, <1>3, <2>1, <3>1 DEF Budgeted, Tracked
  <2>3. CASE ~Ran(s)
    BY <1>1, <1>3, <2>1, <2>3 DEF Budgeted, Tracked
  <2>. QED BY <2>2, <2>3
<1>. QED BY <1>2, <1>3

\* Only two actions report anything.
LEMMA WhoReports ==
  ASSUME [Next]_vars
  PROVE  \/ event' = None \/ UNCHANGED vars
         \/ \E s \in Stack : Recovered(s) \/ Degraded(s)
<1>1. CASE Poll \/ Observed \/ Heal \/ StartRun \/ EndRun \/ Tick \/ Restart
  BY <1>1 DEF Poll, Observe, Observed, Heal, SkipBusy, LockMutex, Deferred, RunHeal,
              CountAttempt, StartRun, EndRun, Tick, Restart
<1>2. ASSUME NEW s \in Stack, DeployStack(s) \/ PendingChanges(s) \/ World(s)
      PROVE  event' = None
  BY <1>2 DEF DeployStack, PendingChanges, World
<1>3. ASSUME NEW s \in Stack, Wait(s) PROVE event' = None
  BY <1>3 DEF Wait
<1>. QED BY <1>1, <1>2, <1>3 DEF Next, Evaluate

\* What a report says is what the ghosts know.
LEMMA ReportsAreTrue ==
  ASSUME Budget, [Next]_vars, ~(UNCHANGED vars), event' # None
  PROVE  /\ event'.kind = "exhausted" => /\ heals[event'.stack] >= maxAttempts
                                        /\ ~states[event'.stack].exhausted
         /\ event'.kind = "healed" => /\ heals[event'.stack] > 0
                                     /\ calm'[event'.stack] >= minPolls
                                     /\ ~states[event'.stack].exhausted
<1>1. PICK s \in Stack : Recovered(s) \/ Degraded(s)
  BY WhoReports
<1>2. heal = None /\ ~Ran(s) /\ Budgeted(s) /\ heals[s] \in Nat /\ calm[s] \in Nat
  BY <1>1 DEF Recovered, Degraded, Evaluating, Ran, InFlight, Budget, Types
<1>3. minPolls \in Nat /\ maxAttempts \in Nat \ {0}
  BY SelfHealAssumption
<1>4. CASE Degraded(s)
  <2>. DEFINE c == counted(s)
  <2>1. givenUp(c) /\ event' = [kind |-> "exhausted", stack |-> s]
    BY <1>4 DEF Degraded
  <2>2. /\ c.attempts = current(s).attempts /\ c.exhausted = current(s).exhausted
    BY DegradedCounted DEF Budget
  <2>. HIDE DEF c
  <2>3. current(s).attempts >= maxAttempts /\ ~current(s).exhausted
    BY <2>1, <2>2 DEF givenUp, persistent
  <2>4. states[s] # None /\ current(s) = states[s]
    BY <1>3, <2>3 DEF current, fresh
  <2>5. states[s].attempts \in Nat
    BY <2>4, <1>3 DEF Budget, Types, StackState
  <2>6. heals[s] >= maxAttempts
    BY <1>2, <1>3, <2>3, <2>4, <2>5 DEF Budgeted, Tracked
  <2>. QED BY <2>1, <2>3, <2>4, <2>6
<1>5. CASE Recovered(s)
  <2>. DEFINE st == [states[s] EXCEPT !.degraded = 0, !.healthy = @ + 1]
              ended == st.healthy >= minPolls
  <2>1. /\ states[s] # None /\ SeenHealthy(s)
        /\ event' = IF ended /\ st.attempts > 0 /\ ~st.exhausted
                    THEN [kind |-> "healed", stack |-> s] ELSE None
    BY <1>5 DEF Recovered
  <2>2. states[s] \in StackState /\ Tracked(s)
    BY <1>2, <2>1 DEF Budget, Types, Budgeted
  <2>3. /\ st.healthy = states[s].healthy + 1
        /\ st.attempts = states[s].attempts
        /\ st.exhausted = states[s].exhausted
    BY <2>2, HealthyCounted DEF Tracked
  <2>. HIDE DEF st
  <2>4. /\ event' = [kind |-> "healed", stack |-> s]
        /\ states[s].healthy + 1 >= minPolls /\ states[s].attempts > 0
        /\ ~states[s].exhausted
    BY <2>1, <2>3
  <2>5. states[s].attempts \in Nat
    BY <2>2, <1>3 DEF StackState
  <2>6. heals[s] > 0
    BY <1>2, <2>2, <2>4, <2>5 DEF Tracked
  <2>7. calm'[s] >= minPolls
    BY <1>2, <1>3, <2>1, <2>2, <2>4, CalmSeen DEF Tracked
  <2>. QED BY <2>4, <2>6, <2>7
<1>. QED BY <1>1, <1>4, <1>5

\* The budget is an invariant of the specification.
LEMMA BudgetKept == Spec => []Budget
BY BudgetInit, BudgetStep, PTL DEF Spec

\* Between two deploys, recoveries or restarts no stack is redeployed more than
\* maxAttempts times, plus the one heal a deploy overtook (evaluate, Reset).  A
\* recovery is minPolls healthy polls with no degraded one between them, starting and
\* unreadable ones passed over.
THEOREM BudgetHolds == Spec => []HealBudget
BY BudgetKept, BudgetBounds, PTL

\* A stack is reported exhausted only after maxAttempts heals that really ran: no
\* busy mutex, pending change or reset in between makes it give up early.
THEOREM GivenUpAfterHeals == Spec => ExhaustedAfterHeals
<1>1. Budget /\ [Next]_vars =>
        [(event' # None /\ event'.kind = "exhausted") =>
            /\ heals[event'.stack] >= maxAttempts
            /\ ~states[event'.stack].exhausted]_vars
  BY ReportsAreTrue
<1>. QED BY <1>1, BudgetKept, PTL DEF Spec, ExhaustedAfterHeals

\* A stack is reported healed only if it was redeployed in this outage, not given
\* up, and read healthy in minPolls snapshots since it was last degraded, ignored
\* snapshots between them or not (evaluate).
THEOREM HealsAreReal == Spec => HealedIsReal
<1>1. Budget /\ [Next]_vars =>
        [(event' # None /\ event'.kind = "healed") =>
            /\ heals[event'.stack] > 0
            /\ calm'[event'.stack] >= minPolls
            /\ ~states[event'.stack].exhausted]_vars
  BY ReportsAreTrue
<1>. QED BY <1>1, BudgetKept, PTL DEF Spec, HealedIsReal

-----------------------------------------------------------------------------
(* The watchdog                                                             *)
-----------------------------------------------------------------------------
(* The debounce.                                                           *)

\* A pending change is backed by the readable polls that saw nothing else.
Backed(s, v) ==
    /\ streak[s][v].polls \in 0 .. debounce
    /\ hist[s][v] = None => pend[s][v] = None
    /\ pend[s][v] # None => /\ pend[s][v].count \in Nat
                            /\ pend[s][v].status = streak[s][v].status
                            /\ pend[s][v].count <= streak[s][v].polls
                            /\ pend[s][v].count < debounce

Debounced == \A s \in Stack : \A v \in Service : Backed(s, v)

\* What Observe makes of a service.
LEMMA ObservedService ==
  ASSUME WatcherObserve, NEW s \in Stack, NEW v \in Service
  PROVE  /\ hist'[s][v] = histAfter(s, v) /\ pend'[s][v] = pendAfter(s, v)
         /\ streak'[s][v] = streakAfter(s, v)
BY DEF WatcherObserve, Each

\* A readable poll lengthens the streak or starts a new one.
LEMMA StreakGrows ==
  ASSUME NEW s \in Stack, NEW v \in Service, Backed(s, v), observed(s, v) # None
  PROVE  \E m \in 1 .. debounce :
            /\ streakAfter(s, v) = [status |-> observed(s, v), polls |-> m]
            /\ observed(s, v) = streak[s][v].status =>
                  streak[s][v].polls < m \/ m = debounce
<1>1. streak[s][v].polls \in 0 .. debounce
  BY DEF Backed
<1>2. debounce \in Nat \ {0}
  BY WatchAssumption
<1>. DEFINE n == streak[s][v].polls
            m == IF observed(s, v) = streak[s][v].status
                 THEN IF n < debounce THEN n + 1 ELSE n ELSE 1
<1>3. streakAfter(s, v) = [status |-> observed(s, v), polls |-> m]
  BY Zenon DEF streakAfter
<1>4. m \in 1 .. debounce
  BY <1>1, <1>2
<1>5. observed(s, v) = streak[s][v].status => n < m \/ m = debounce
  BY <1>1, <1>2
<1>. HIDE DEF m
<1>. QED BY <1>3, <1>4, <1>5

\* So a count that reached debounce is a streak that did.
LEMMA CountIsStreak ==
  ASSUME NEW s \in Stack, NEW v \in Service, Backed(s, v), observed(s, v) # None
  PROVE  \E m \in 1 .. debounce :
            /\ streakAfter(s, v) = [status |-> observed(s, v), polls |-> m]
            /\ count(s, v) \in Nat /\ count(s, v) <= m
<1>1. PICK m \in 1 .. debounce :
            /\ streakAfter(s, v) = [status |-> observed(s, v), polls |-> m]
            /\ observed(s, v) = streak[s][v].status =>
                  streak[s][v].polls < m \/ m = debounce
  BY StreakGrows
<1>2. debounce \in Nat /\ streak[s][v].polls \in 0 .. debounce
  BY WatchAssumption DEF Backed
<1>3. CASE pend[s][v] # None /\ pend[s][v].status = observed(s, v)
  <2>1. count(s, v) = pend[s][v].count + 1
    BY <1>3 DEF count
  <2>2. /\ pend[s][v].count \in Nat /\ pend[s][v].count < debounce
        /\ pend[s][v].count <= streak[s][v].polls /\ observed(s, v) = streak[s][v].status
    BY <1>3 DEF Backed
  <2>3. count(s, v) \in Nat /\ count(s, v) <= m
    BY <1>1, <1>2, <2>1, <2>2
  <2>. QED BY <1>1, <2>3
<1>4. CASE ~(pend[s][v] # None /\ pend[s][v].status = observed(s, v))
  <2>1. count(s, v) = 1
    BY <1>4 DEF count
  <2>. QED BY <1>1, <1>2, <2>1
<1>. QED BY <1>3, <1>4

\* Observe keeps pending changes backed.
LEMMA BackedObserve ==
  ASSUME Debounced, WatcherObserve
  PROVE  Debounced'
<1>. SUFFICES ASSUME NEW s \in Stack, NEW v \in Service PROVE Backed(s, v)'
  BY DEF Debounced
<1>1. Backed(s, v)
  BY DEF Debounced
<1>2. /\ hist'[s][v] = histAfter(s, v) /\ pend'[s][v] = pendAfter(s, v)
      /\ streak'[s][v] = streakAfter(s, v)
  BY ObservedService
<1>3. CASE observed(s, v) = None
  <2>1. streak'[s][v] = streak[s][v] /\ hist'[s][v] = hist[s][v] /\ pend'[s][v] = pend[s][v]
    BY <1>2, <1>3 DEF streakAfter, histAfter, pendAfter, baseline, accepted, changed
  <2>. QED BY <1>1, <2>1 DEF Backed
<1>4. CASE observed(s, v) # None
  <2>1. PICK m \in 1 .. debounce :
            /\ streakAfter(s, v) = [status |-> observed(s, v), polls |-> m]
            /\ count(s, v) \in Nat /\ count(s, v) <= m
    BY <1>1, <1>4, CountIsStreak
  <2>2. m \in 0 .. debounce /\ debounce \in Nat
    BY <2>1, WatchAssumption
  <2>3. streak'[s][v] = [status |-> observed(s, v), polls |-> m]
    BY <1>2, <2>1
  <2>4. CASE pend'[s][v] = None
    BY <2>2, <2>3, <2>4 DEF Backed
  <2>5. CASE pend'[s][v] # None
    <3>1. ~baseline(s, v)
      BY <1>1, <1>2, <2>5 DEF Backed, pendAfter, baseline, known
    <3>2. changed(s, v) /\ ~accepted(s, v)
      BY <1>2, <1>4, <2>5, <3>1 DEF pendAfter
    <3>3. /\ pend'[s][v] = [status |-> observed(s, v), count |-> count(s, v)]
          /\ hist'[s][v] = hist[s][v] /\ hist[s][v] # None
      BY <1>2, <1>4, <3>1, <3>2 DEF pendAfter, histAfter, changed, known
    <3>4. count(s, v) < debounce
      BY <2>1, <2>2, <3>2 DEF accepted
    <3>. QED BY <2>1, <2>2, <2>3, <3>3, <3>4 DEF Backed
  <2>. QED BY <2>4, <2>5
<1>. QED BY <1>3, <1>4

\* A restart has nothing pending; the other steps leave the debounce alone.
LEMMA BackedStep == Debounced /\ [WatchNext]_watchVars => Debounced'
<1>. SUFFICES ASSUME Debounced, [WatchNext]_watchVars PROVE Debounced'
  OBVIOUS
<1>1. CASE UNCHANGED <<hist, pend, streak>>
  BY <1>1 DEF Debounced, Backed
<1>2. CASE WatcherRestart
  <2>1. \A s \in Stack : \A v \in Service : pend'[s][v] = None /\ streak'[s][v] = streak[s][v]
    BY <1>2 DEF WatcherRestart
  <2>. QED BY <2>1 DEF Debounced, Backed
<1>3. CASE WatcherObserve
  BY <1>3, BackedObserve
<1>4. ASSUME NEW readable \in SUBSET refs, WatchPoll(readable) PROVE UNCHANGED <<hist, pend, streak>>
  BY <1>4 DEF WatchPoll, memory, ghosts
<1>5. ASSUME NEW s \in Stack, WatchWorld(s) PROVE UNCHANGED <<hist, pend, streak>>
  BY <1>5 DEF WatchWorld, memory, ghosts
<1>6. ASSUME Save \/ ObserveDeploy \/ Request \/ WatchTick \/ UNCHANGED watchVars
      PROVE  UNCHANGED <<hist, pend, streak>>
  BY <1>6 DEF Save, ObserveDeploy, Request, WatchTick, watchVars, memory, ghosts
<1>. QED BY <1>1, <1>2, <1>3, <1>4, <1>5, <1>6 DEF WatchNext, Goroutine

\* A status becomes a phase only after it held for debounce readable polls in a row:
\* blips and flaps do not add up (Watcher.observe); unreadable polls and deploys in
\* between are passed over.
THEOREM DebounceIsHeld == WatchSpec => DebounceHolds
<1>1. WatchInit => Debounced
  <2>1. 0 \in 0 .. debounce
    BY WatchAssumption
  <2>. QED BY <2>1 DEF WatchInit, Debounced, Backed
<1>2. ASSUME Debounced, WatcherObserve, NEW s \in Stack, NEW v \in Service,
             hist[s][v] # None, hist'[s][v] # hist[s][v]
      PROVE  streak'[s][v] = [status |-> hist'[s][v].cur, polls |-> debounce]
  <2>1. accepted(s, v) /\ hist'[s][v] = [cur |-> observed(s, v), older |-> TRUE]
    BY <1>2, ObservedService DEF histAfter, baseline, known, accepted
  <2>2. observed(s, v) # None /\ count(s, v) >= debounce
    BY <2>1 DEF accepted, changed
  <2>3. PICK m \in 1 .. debounce :
            /\ streakAfter(s, v) = [status |-> observed(s, v), polls |-> m]
            /\ count(s, v) \in Nat /\ count(s, v) <= m
    BY <1>2, <2>2, CountIsStreak DEF Debounced
  <2>4. m = debounce
    BY <2>2, <2>3, WatchAssumption
  <2>. QED BY <1>2, <2>1, <2>3, <2>4, ObservedService
<1>3. Debounced /\ [WatchNext]_watchVars =>
        [WatcherObserve => \A s \in Stack : \A v \in Service :
            (hist[s][v] # None /\ hist'[s][v] # hist[s][v])
                => streak'[s][v] = [status |-> hist'[s][v].cur, polls |-> debounce]]_watchVars
  BY <1>2
<1>. QED BY <1>1, <1>3, BackedStep, PTL DEF WatchSpec, DebounceHolds

-----------------------------------------------------------------------------
(* The cooldown.                                                           *)

Record == [left : [Direction -> Nat], last : Direction \cup {None}, suppressed : BOOLEAN]
Records == [Stack -> [Service -> Record]]

WatchTypes ==
    /\ rec \in Records /\ disk = [hist |-> disk.hist, rec |-> disk.rec] /\ disk.rec \in Records
    /\ quiet \in [Stack -> [Service -> [Direction -> Nat]]]

\* The record waits at least as long as the alerts it stands for ask.
Waits(s, v) ==
    \A d \in Direction : quiet[s][v][d] <= rec[s][v].left[d] /\ quiet[s][v][d] <= alertCooldown

Cooling == WatchTypes /\ (~lost => \A s \in Stack : \A v \in Service : Waits(s, v))

\* A decision alerts only where r has cooled down, and starts the cooldown there.
Decision(r, a) ==
    /\ a.rec \in Record /\ a.to \subseteq Direction
    /\ \A d \in a.to : /\ alertCooldown = 0 \/ r.left[d] = 0
                       /\ alertCooldown = 0 \/ a.rec.left[d] = alertCooldown
    /\ \A d \in Direction \ a.to : a.rec.left[d] = r.left[d]

\* Keeping the record, or changing only whether an alert is owed, is a decision.
LEMMA Silent ==
  ASSUME NEW r \in Record, NEW b \in BOOLEAN
  PROVE  /\ Decision(r, [rec |-> r, to |-> {}])
         /\ Decision(r, [rec |-> [r EXCEPT !.suppressed = b], to |-> {}])
<1>1. [r EXCEPT !.suppressed = b] \in Record /\ [r EXCEPT !.suppressed = b].left = r.left
  BY DEF Record
<1>. QED BY <1>1 DEF Decision

\* Delivering what is not cooling is one.
LEMMA Delivery ==
  ASSUME NEW r \in Record, NEW to \in Direction, ~inCooldown(r, to)
  PROVE  Decision(r, deliver(r, to))
<1>1. alertCooldown \in Nat /\ r.left \in [Direction -> Nat]
  BY WatchAssumption DEF Record
<1>2. alertCooldown = 0 \/ r.left[to] = 0
  BY <1>1 DEF inCooldown
<1>3. CASE alertCooldown = 0
  <2>1. deliver(r, to) = [rec |-> r, to |-> {to}]
    BY <1>3 DEF deliver
  <2>. QED BY <1>3, <2>1 DEF Decision
<1>4. CASE alertCooldown # 0
  <2>. DEFINE left == [r.left EXCEPT ![to] = alertCooldown]
              new == [left |-> left, last |-> to, suppressed |-> FALSE]
  <2>1. deliver(r, to) = [rec |-> new, to |-> {to}]
    BY <1>4 DEF deliver
  <2>2. left \in [Direction -> Nat] /\ left[to] = alertCooldown
    BY <1>1
  <2>3. \A d \in Direction \ {to} : left[d] = r.left[d]
    BY <1>1
  <2>4. new \in Record /\ new.left = left
    BY <2>2 DEF Record
  <2>. HIDE DEF left, new
  <2>. QED BY <1>2, <2>1, <2>2, <2>3, <2>4 DEF Decision
<1>. QED BY <1>3, <1>4

\* Two decisions in a row are one.
LEMMA TwoDecisions ==
  ASSUME NEW r \in Record, NEW a, NEW b, Decision(r, a), Decision(a.rec, b)
  PROVE  Decision(r, [rec |-> b.rec, to |-> a.to \cup b.to])
<1>1. alertCooldown \in Nat
  BY WatchAssumption
<1>. QED BY <1>1 DEF Decision

\* What the watchdog decides about a service is a decision.
LEMMA AlertsDecide ==
  ASSUME NEW s \in Stack, NEW v \in Service, rec[s][v] \in Record
  PROVE  Decision(rec[s][v], alerts(s, v))
<1>. DEFINE r == rec[s][v]
            h == histAfter(s, v)
            first == onAccept(s, v)
<1>1. Decision(r, first)
  <2>1. CASE ~accepted(s, v) \/ ~alertWorthy(hist[s][v].cur, observed(s, v))
    BY <2>1, Silent DEF onAccept
  <2>2. CASE accepted(s, v) /\ alertWorthy(hist[s][v].cur, observed(s, v))
    <3>1. observed(s, v) \in Direction
      BY <2>2 DEF alertWorthy, Direction
    <3>2. CASE inCooldown(r, observed(s, v))
      BY <2>2, <3>2, Silent DEF onAccept
    <3>3. CASE ~inCooldown(r, observed(s, v))
      BY <2>2, <3>1, <3>3, Delivery DEF onAccept
    <3>. QED BY <3>2, <3>3
  <2>. QED BY <2>1, <2>2
<1>2. ASSUME NEW q \in Record PROVE Decision(q, catchUp(q, h))
  <2>1. CASE alertCooldown = 0 \/ ~q.suppressed \/ ~h.older
    BY <2>1, Silent DEF catchUp
  <2>2. CASE ~(alertCooldown = 0 \/ ~q.suppressed \/ ~h.older) /\ ~owed(q, h.cur)
    BY <2>2, Silent DEF catchUp
  <2>3. CASE ~(alertCooldown = 0 \/ ~q.suppressed \/ ~h.older) /\ owed(q, h.cur)
    <3>1. h.cur \in Direction
      BY <2>3 DEF owed, Direction
    <3>2. CASE inCooldown(q, h.cur)
      BY <2>3, <3>2, Silent DEF catchUp
    <3>3. CASE ~inCooldown(q, h.cur)
      BY <2>3, <3>1, <3>3, Delivery DEF catchUp
    <3>. QED BY <3>2, <3>3
  <2>. QED BY <2>1, <2>2, <2>3
<1>. HIDE DEF first, h
<1>3. first.rec \in Record
  BY <1>1 DEF Decision
<1>. DEFINE late == catchUp(first.rec, h)
<1>4. Decision(r, [rec |-> late.rec, to |-> first.to \cup late.to])
  BY <1>1, <1>2, <1>3, TwoDecisions
<1>5. CASE reading(s) /\ h # None
  <2>1. alerts(s, v) = [rec |-> late.rec, to |-> first.to \cup late.to]
    BY <1>5 DEF alerts, first, h
  <2>. QED BY <1>4, <2>1
<1>6. CASE ~(reading(s) /\ h # None)
  <2>1. alerts(s, v) = [rec |-> r, to |-> {}]
    BY <1>6 DEF alerts, h
  <2>. QED BY <2>1, Silent
<1>. QED BY <1>5, <1>6

\* What Observe makes of the record of a service.
LEMMA ObservedRecord ==
  ASSUME WatcherObserve, NEW s \in Stack, NEW v \in Service
  PROVE  /\ rec'[s][v] = alerts(s, v).rec
         /\ quiet'[s][v] = [d \in Direction |->
                IF d \in alerts(s, v).to THEN alertCooldown ELSE quiet[s][v][d]]
BY DEF WatcherObserve, Each

\* Every alert fired is one that was decided.
LEMMA FiredIsDecided ==
  ASSUME WatcherObserve, NEW a \in fired'
  PROVE  a.stack \in Stack /\ a.service \in Service /\ a.to \in alerts(a.stack, a.service).to
<1>. DEFINE out(s, v) == {[stack |-> s, service |-> v, to |-> d] : d \in alerts(s, v).to}
<1>1. fired' = UNION {out(s, v) : s \in Stack, v \in Service}
  BY DEF WatcherObserve, Each
<1>2. PICK s \in Stack, v \in Service : a \in out(s, v)
  BY <1>1
<1>. QED BY <1>2

\* Observe keeps the records typed and waiting.
LEMMA CoolingObserve ==
  ASSUME Cooling, WatcherObserve
  PROVE  Cooling'
<1>1. alertCooldown \in Nat
  BY WatchAssumption
<1>2. ASSUME NEW s \in Stack, NEW v \in Service PROVE Decision(rec[s][v], alerts(s, v))
  BY AlertsDecide DEF Cooling, WatchTypes, Records
<1>3. rec' \in Records
  <2>1. rec' = [s \in Stack |-> [v \in Service |-> alerts(s, v).rec]]
    BY DEF WatcherObserve, Each
  <2>. QED BY <1>2, <2>1 DEF Records, Decision
<1>4. quiet' \in [Stack -> [Service -> [Direction -> Nat]]]
  <2>1. quiet' = [s \in Stack |-> [v \in Service |-> [d \in Direction |->
                     IF d \in alerts(s, v).to THEN alertCooldown ELSE quiet[s][v][d]]]]
    BY DEF WatcherObserve, Each
  <2>2. \A s \in Stack : \A v \in Service : \A d \in Direction : quiet[s][v][d] \in Nat
    BY DEF Cooling, WatchTypes
  <2>. QED BY <1>1, <2>1, <2>2
<1>5. disk' = disk /\ lost' = lost
  BY DEF WatcherObserve
<1>6. ASSUME ~lost, NEW s \in Stack, NEW v \in Service, NEW d \in Direction
      PROVE  quiet'[s][v][d] <= rec'[s][v].left[d] /\ quiet'[s][v][d] <= alertCooldown
  <2>1. /\ quiet[s][v][d] \in Nat /\ rec[s][v].left[d] \in Nat
        /\ quiet[s][v][d] <= rec[s][v].left[d] /\ quiet[s][v][d] <= alertCooldown
    BY <1>6 DEF Cooling, WatchTypes, Records, Record, Waits
  <2>2. rec'[s][v] = alerts(s, v).rec
    BY ObservedRecord
  <2>3. rec'[s][v].left[d] \in Nat
    BY <1>3 DEF Records, Record
  <2>4. quiet'[s][v][d] = IF d \in alerts(s, v).to THEN alertCooldown ELSE quiet[s][v][d]
    <3>1. quiet'[s][v] = [e \in Direction |->
                IF e \in alerts(s, v).to THEN alertCooldown ELSE quiet[s][v][e]]
      BY ObservedRecord
    <3>. QED BY <3>1, Zenon
  <2>5. CASE d \in alerts(s, v).to
    <3>1. alertCooldown = 0 \/ rec'[s][v].left[d] = alertCooldown
      BY <1>2, <2>2, <2>5 DEF Decision
    <3>. QED BY <1>1, <2>3, <2>4, <2>5, <3>1
  <2>6. CASE d \notin alerts(s, v).to
    <3>1. rec'[s][v].left[d] = rec[s][v].left[d]
      BY <1>2, <2>2, <2>6 DEF Decision
    <3>. QED BY <2>1, <2>4, <2>6, <3>1
  <2>. QED BY <2>5, <2>6
<1>. QED BY <1>3, <1>4, <1>5, <1>6 DEF Cooling, WatchTypes, Waits

\* Cooling down keeps records typed.
LEMMA CooledRecords ==
  ASSUME NEW rs \in Records
  PROVE  /\ cooled(rs) \in Records
         /\ \A s \in Stack : \A v \in Service : \A d \in Direction :
                cooled(rs)[s][v].left[d] = minusTick(rs[s][v].left[d])
<1>1. ASSUME NEW r \in Record
      PROVE  LET new == [r EXCEPT !.left = [d \in Direction |-> minusTick(r.left[d])]]
             IN  /\ new \in Record
                 /\ \A d \in Direction : new.left[d] = minusTick(r.left[d])
  <2>. DEFINE left == [d \in Direction |-> minusTick(r.left[d])]
  <2>1. \A d \in Direction : minusTick(r.left[d]) \in Nat
    BY DEF minusTick, Record
  <2>2. left \in [Direction -> Nat] /\ \A d \in Direction : left[d] = minusTick(r.left[d])
    BY <2>1
  <2>. HIDE DEF left
  <2>. QED BY <2>2 DEF Record
<1>. QED BY <1>1 DEF cooled, Records

\* Time passes for the records and for the alerts alike.
LEMMA CoolingTick ==
  ASSUME Cooling, WatchTick
  PROVE  Cooling'
<1>1. rec' = cooled(rec) /\ disk' = [disk EXCEPT !.rec = cooled(disk.rec)] /\ lost' = lost
  BY DEF WatchTick
<1>2. rec' \in Records /\ disk'.rec \in Records /\ disk' = [hist |-> disk'.hist, rec |-> disk'.rec]
  BY <1>1, CooledRecords DEF Cooling, WatchTypes
<1>3. ASSUME NEW s \in Stack, NEW v \in Service, NEW d \in Direction
      PROVE  quiet[s][v][d] \in Nat /\ minusTick(quiet[s][v][d]) \in Nat
  BY DEF Cooling, WatchTypes, minusTick
<1>4. quiet' = [s \in Stack |-> [v \in Service |-> [d \in Direction |-> minusTick(quiet[s][v][d])]]]
  BY DEF WatchTick
<1>5. quiet' \in [Stack -> [Service -> [Direction -> Nat]]]
  BY <1>3, <1>4
<1>6. ASSUME ~lost, NEW s \in Stack, NEW v \in Service, NEW d \in Direction
      PROVE  quiet'[s][v][d] <= rec'[s][v].left[d] /\ quiet'[s][v][d] <= alertCooldown
  <2>1. /\ quiet[s][v][d] \in Nat /\ rec[s][v].left[d] \in Nat
        /\ quiet[s][v][d] <= rec[s][v].left[d] /\ quiet[s][v][d] <= alertCooldown
    BY <1>6 DEF Cooling, WatchTypes, Records, Record, Waits
  <2>2. rec'[s][v].left[d] = minusTick(rec[s][v].left[d])
    BY <1>1, CooledRecords DEF Cooling, WatchTypes
  <2>3. quiet'[s][v][d] = minusTick(quiet[s][v][d])
    BY <1>4
  <2>. QED BY <2>1, <2>2, <2>3, WatchAssumption DEF minusTick
<1>. QED BY <1>1, <1>2, <1>5, <1>6 DEF Cooling, WatchTypes, Waits

\* A restart reads what was saved, or knows that it lost something.
LEMMA CoolingRestart ==
  ASSUME Cooling, WatcherRestart
  PROVE  Cooling'
<1>1. quiet' = quiet
  BY DEF WatcherRestart
<1>2. CASE rec' = disk.rec /\ disk' = disk /\ lost' = (lost \/ disk # [hist |-> hist, rec |-> rec])
  <2>1. ~lost' => ~lost /\ disk = [hist |-> hist, rec |-> rec]
    BY <1>2, Zenon
  <2>. QED BY <1>1, <1>2, <2>1 DEF Cooling, WatchTypes, Waits
<1>3. CASE /\ rec' = [s \in Stack |-> [v \in Service |-> noAlerts]]
           /\ disk' = [hist |-> hist', rec |-> rec'] /\ lost' = TRUE
  <2>1. noAlerts \in Record
    BY DEF noAlerts, Record
  <2>2. rec' \in Records
    BY <1>3, <2>1 DEF Records
  <2>. QED BY <1>1, <1>3, <2>2 DEF Cooling, WatchTypes
<1>. QED BY <1>2, <1>3 DEF WatcherRestart

\* Every step keeps records waiting.
LEMMA CoolingStep == Cooling /\ [WatchNext]_watchVars => Cooling'
<1>. SUFFICES ASSUME Cooling, [WatchNext]_watchVars PROVE Cooling'
  OBVIOUS
<1>1. ASSUME UNCHANGED <<rec, disk, quiet, lost>> PROVE Cooling'
  BY <1>1 DEF Cooling, WatchTypes, Waits
<1>2. CASE Save
  <2>1. rec' = rec /\ quiet' = quiet /\ lost' = lost
    BY <1>2 DEF Save, ghosts
  <2>2. disk' = disk \/ disk' = [hist |-> hist, rec |-> rec]
    BY <1>2 DEF Save
  <2>. QED BY <2>1, <2>2 DEF Cooling, WatchTypes, Waits
<1>3. ASSUME NEW readable \in SUBSET refs, WatchPoll(readable) PROVE Cooling'
  BY <1>1, <1>3 DEF WatchPoll, memory, ghosts
<1>4. ASSUME NEW s \in Stack, WatchWorld(s) PROVE Cooling'
  BY <1>1, <1>4 DEF WatchWorld, memory, ghosts
<1>5. CASE ObserveDeploy \/ Request \/ UNCHANGED watchVars
  BY <1>1, <1>5 DEF ObserveDeploy, Request, watchVars, memory, ghosts
<1>. QED BY <1>2, <1>3, <1>4, <1>5, CoolingObserve, CoolingTick, CoolingRestart DEF WatchNext, Goroutine

\* Two alerts of a service in the same direction are a cooldown apart, also across
\* restarts that lose nothing (Watcher.observe and catchUpStack).
THEOREM CooldownIsHeld == WatchSpec => AlertsLimited
<1>1. WatchInit => Cooling
  <2>. SUFFICES ASSUME WatchInit PROVE Cooling
    OBVIOUS
  <2>1. noAlerts \in Record /\ \A d \in Direction : noAlerts.left[d] = 0
    BY DEF noAlerts, Record
  <2>2. /\ rec = [s \in Stack |-> [v \in Service |-> noAlerts]]
        /\ quiet = [s \in Stack |-> [v \in Service |-> [d \in Direction |-> 0]]]
        /\ disk = [hist |-> hist, rec |-> rec]
    BY DEF WatchInit
  <2>3. rec \in Records /\ quiet \in [Stack -> [Service -> [Direction -> Nat]]]
    BY <2>1, <2>2 DEF Records
  <2>4. \A s \in Stack : \A v \in Service : Waits(s, v)
    BY <2>1, <2>2, WatchAssumption DEF Waits
  <2>. QED BY <2>2, <2>3, <2>4 DEF Cooling, WatchTypes
<1>2. ASSUME Cooling, WatcherObserve, NEW a \in fired', ~lost PROVE quiet[a.stack][a.service][a.to] = 0
  <2>1. a.stack \in Stack /\ a.service \in Service /\ a.to \in alerts(a.stack, a.service).to
    BY <1>2, FiredIsDecided
  <2>2. Decision(rec[a.stack][a.service], alerts(a.stack, a.service))
    BY <1>2, <2>1, AlertsDecide DEF Cooling, WatchTypes, Records
  <2>3. /\ a.to \in Direction
        /\ alertCooldown = 0 \/ rec[a.stack][a.service].left[a.to] = 0
    BY <2>1, <2>2 DEF Decision
  <2>. QED BY <1>2, <2>1, <2>3, WatchAssumption DEF Cooling, WatchTypes, Waits, Records, Record
<1>3. ASSUME Cooling, [WatchNext]_watchVars
      PROVE  [\A a \in fired' : quiet[a.stack][a.service][a.to] = 0 \/ lost]_watchVars
  <2>1. CASE WatcherObserve
    BY <1>2, <1>3, <2>1
  <2>2. ASSUME NEW readable \in SUBSET refs, WatchPoll(readable) PROVE fired' = {}
    BY <2>2 DEF WatchPoll
  <2>3. ASSUME NEW s \in Stack, WatchWorld(s) PROVE fired' = {}
    BY <2>3 DEF WatchWorld
  <2>4. CASE Save \/ ObserveDeploy \/ Request \/ WatcherRestart \/ WatchTick
    BY <2>4 DEF Save, ObserveDeploy, Request, WatcherRestart, WatchTick
  <2>. QED BY <1>3, <2>1, <2>2, <2>3, <2>4 DEF WatchNext, Goroutine
<1>. QED BY <1>1, <1>3, CoolingStep, PTL DEF WatchSpec, AlertsLimited
=============================================================================
