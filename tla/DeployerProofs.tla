--------------------------- MODULE DeployerProofs ---------------------------
(***************************************************************************)
(* Proofs about Deployer, for every set of stacks, versions and inputs,    *)
(* every depends_on graph and every bound: the types, the recorded base    *)
(* and what a rollback or a heal brings up from it, how often a change is  *)
(* attempted, that none is lost track of, and the dependency gate.         *)
(***************************************************************************)
EXTENDS Deployer, TLAPS

-----------------------------------------------------------------------------
(* Facts about the helpers *)

\* The absent hold is a hold.
LEMMA NoHoldType == NoHold \in Hold /\ NoHolds \in [Stack -> Hold]
BY DEF NoHold, NoHolds, Hold

\* A hold after start is well formed.
LEMMA AfterStartType ==
    ASSUME NEW fp \in Inputs PROVE afterStart(fp) \in Hold
BY DEF afterStart, Hold

\* recordPreStartFailure records a well-formed hold for the inputs it is given.
LEMMA PreStartType ==
    ASSUME NEW h \in Hold, NEW fp \in Inputs, elapsed \in Nat
    PROVE  recordPreStartFailure(h, fp) \in Hold
<1> DEFINE counted == IF h.status # "none" /\ h.fp = fp THEN h.attempts + 1 ELSE 1
           attempts == IF counted < preStartHoldAfter THEN counted ELSE preStartHoldAfter
           left == preStartBackoff(attempts) - elapsed
<1>1. counted \in Nat \ {0}
  BY DEF Hold
<1>2. attempts \in 1 .. preStartHoldAfter
  BY <1>1, BoundAssumption
<1>3. left \in Int
  <2>1. preStartBackoff(attempts) \in Nat
    BY <1>2, BackoffAssumption
  <2> QED
    BY <2>1
<1> QED
  BY <1>2, <1>3, BoundAssumption DEF recordPreStartFailure, Hold

\* The empty trail is a trail.
LEMMA NoTrailType == NoTrail \in Trail
BY DEF NoTrail, Trail

\* Counting an attempt keeps a trail.
LEMMA AttemptType ==
    ASSUME NEW t \in Trail, NEW asked, cur \in Inputs
    PROVE  Attempt(t, asked) \in Trail
BY DEF Attempt, Trail

\* Time keeps a hold well formed.
LEMMA SoonerType ==
    ASSUME NEW h \in Hold PROVE Sooner(h) \in Hold
BY DEF Sooner, Hold
-----------------------------------------------------------------------------
(* Type correctness *)

TypeInv == TypeOK /\ LoopOK

\* The initial state is typed.
LEMMA InitType == Init => TypeInv
<1> SUFFICES ASSUME Init PROVE TypeInv
  OBVIOUS
<1> USE DEF Init
<1>1. WorldTypeOK
  BY DEF WorldTypeOK, Nothing
<1>2. DiskTypeOK
  BY NoHoldType DEF DiskTypeOK, Nothing, NoBases
<1>3. SharedTypeOK
  <2>1. waiting \in 0 .. MaxWaiting
    BY BoundAssumption
  <2>2. paused \subseteq Stack
    BY StackAssumption
  <2>3. stopping \in BOOLEAN
    OBVIOUS
  <2> QED
    BY <2>1, <2>2, <2>3 DEF SharedTypeOK
<1>4. StateTypeOK
  BY NoHoldType DEF StateTypeOK, Nothing, NoBases
<1>5. RunTypeOK
  BY BoundAssumption DEF RunTypeOK, Phase, Busy
<1>6. TrailTypeOK
  BY NoTrailType DEF TrailTypeOK
<1>7. LoopOK
  BY DEF LoopOK, Loop, Busy
<1> QED
  BY <1>1, <1>2, <1>3, <1>4, <1>5, <1>6, <1>7 DEF TypeInv, TypeOK

\* A finished run leaves the run's variables well formed.
LEMMA EndRunType ==
    ASSUME EndRun, head' \in Nat
    PROVE  StateTypeOK' /\ RunTypeOK' /\ LoopOK'
<1>1. StateTypeOK'
  BY NoHoldType DEF EndRun, StateTypeOK, Nothing, NoBases
<1>2. RunTypeOK'
  BY BoundAssumption DEF EndRun, RunTypeOK, Phase, Busy
<1>3. LoopOK'
  BY DEF EndRun, LoopOK, Loop, Busy
<1> QED
  BY <1>1, <1>2, <1>3

\* So does moving on to the next stack, when at most the one under way has
\* become settled.
LEMMA NextStackType ==
    ASSUME RunTypeOK, LoopOK, phase \in Loop, todo # <<>>,
           NEW o \in {"ready", "queued", "blocked"}, NextStack(o),
           UNCHANGED <<log, head>>, settled' \subseteq settled \cup {Cur}
    PROVE  RunTypeOK' /\ LoopOK'
<1>1. RunTypeOK'
  BY DEF NextStack, RunTypeOK, Phase, Busy, Loop, Cur
<1>2. DeploySet' = DeploySet
  BY DEF DeploySet, Discovered, StackErrors, invalidDependency
<1>3. /\ Len(todo') = Len(todo) - 1
      /\ \A k \in 1 .. Len(todo') : todo'[k] = todo[k + 1] /\ k + 1 \in 1 .. Len(todo)
  BY DEF NextStack, RunTypeOK
<1>4. \A k \in 1 .. Len(todo) : todo[k] \in DeploySet /\ todo[k] \notin settled
                               /\ \A j \in 1 .. Len(todo) : j # k => todo[j] # todo[k]
  BY DEF LoopOK
<1>5. Cur = todo[1] /\ Len(todo) \in Nat \ {0}
  BY DEF RunTypeOK, Cur
<1>6. \A k \in 1 .. Len(todo') :
          /\ todo'[k] \in DeploySet' /\ todo'[k] \notin settled'
          /\ \A j \in 1 .. Len(todo') : j # k => todo'[j] # todo'[k]
  BY <1>2, <1>3, <1>4, <1>5
<1>7. head' # 0
  BY DEF LoopOK
<1> QED
  BY <1>1, <1>6, <1>7 DEF LoopOK

\* The stack under way deploys; its inputs, as hashed now, are well formed.
LEMMA CurType ==
    ASSUME WorldTypeOK, RunTypeOK, LoopOK, phase \in Loop, todo # <<>>
    PROVE  /\ Cur \in Stack /\ Cur \notin settled
           /\ head \in 1 .. Len(log)
           /\ Current(Cur) \in Inputs /\ Current(Cur) # None
<1>1. Cur \in DeploySet /\ Cur \notin settled /\ Cur \in Stack
  BY DEF RunTypeOK, LoopOK, Cur
<1>2. head \in 1 .. Len(log)
  BY DEF LoopOK, WorldTypeOK
<1>3. log[head] \in [Stack -> Content]
  BY <1>2 DEF WorldTypeOK
<1>4. log[head][Cur] \in Version
  BY <1>1, <1>3 DEF DeploySet, Discovered, StackErrors, invalidDependency, Content
<1>5. Current(Cur) \in Inputs
  BY <1>1, <1>4 DEF Current, Inputs, WorldTypeOK
<1> QED
  BY <1>1, <1>2, <1>5, ContentAssumption

\* What only HEAD's tree decides does not change with the rest.
LEMMA SameTree ==
    ASSUME UNCHANGED head, log'[head] = log[head]
    PROVE  DeploySet' = DeploySet
BY DEF DeploySet, Discovered, StackErrors, invalidDependency

\* A push leaves the trees of the commits before it alone.
LEMMA PushKeeps ==
    ASSUME NEW s \in Stack, NEW c \in Content, Push(s, c), WorldTypeOK
    PROVE  /\ WorldTypeOK'
           /\ Len(log') = Len(log) + 1
           /\ \A n \in 1 .. Len(log) : log'[n] = log[n]
<1>1. Tip \in [Stack -> Content] /\ Len(log) \in Nat
  BY DEF WorldTypeOK, Tip
<1>2. [Tip EXCEPT ![s] = c] \in [Stack -> Content]
  BY <1>1
<1> QED
  BY <1>2 DEF Push, WorldTypeOK

\* The steps of the environment keep the types.
LEMMA EnvironmentType == TypeInv /\ Environment => TypeInv'
<1> SUFFICES ASSUME TypeInv, Environment PROVE TypeInv'
  OBVIOUS
<1> USE DEF TypeInv, TypeOK, diskVars, sharedVars, stateVars, runVars, worldVars
<1>1. ASSUME NEW s \in Stack, NEW c \in Content, Push(s, c) PROVE TypeInv'
  <2>1. WorldTypeOK' /\ \A n \in 1 .. Len(log) : log'[n] = log[n]
    BY <1>1, PushKeeps
  <2>2. DiskTypeOK' /\ SharedTypeOK' /\ StateTypeOK' /\ RunTypeOK' /\ TrailTypeOK'
    BY <1>1 DEF Push, DiskTypeOK, SharedTypeOK, StateTypeOK, RunTypeOK, TrailTypeOK
  <2>3. LoopOK'
    <3>1. CASE head = 0
      BY <3>1, <1>1 DEF Push, LoopOK
    <3>2. CASE head # 0
      <4>1. DeploySet' = DeploySet
        BY <3>2, <2>1, <1>1, SameTree DEF Push, WorldTypeOK
      <4> QED
        BY <4>1, <1>1 DEF Push, LoopOK
    <3> QED
      BY <3>1, <3>2
  <2> QED
    BY <2>1, <2>2, <2>3
<1>2. ASSUME NEW s \in Stack, NEW e \in Env, EnvChange(s, e) PROVE TypeInv'
  <2>1. DeploySet' = DeploySet
    BY <1>2, SameTree DEF EnvChange
  <2> QED
    BY <2>1, <1>2 DEF EnvChange, WorldTypeOK, DiskTypeOK, SharedTypeOK, StateTypeOK, RunTypeOK,
       TrailTypeOK, LoopOK
<1>3. CASE Tick
  <2>1. DeploySet' = DeploySet
    BY <1>3, SameTree DEF Tick
  <2>2. held' \in [Stack -> Hold] /\ diskHeld' \in [Stack -> Hold]
    BY <1>3, SoonerType DEF Tick, StateTypeOK, DiskTypeOK
  <2>3. elapsed' \in Nat
    BY <1>3 DEF Tick, RunTypeOK
  <2> QED
    BY <2>1, <2>2, <2>3, <1>3 DEF Tick, WorldTypeOK, DiskTypeOK, SharedTypeOK, StateTypeOK,
       RunTypeOK, TrailTypeOK, LoopOK
<1>4. ASSUME Webhook \/ \E s \in Stack : SetAutosync(s) \/ RequestRetry(s) PROVE TypeInv'
  <2>1. DeploySet' = DeploySet /\ UNCHANGED <<worldVars, head, diskVars, stateVars, runVars, trail>>
    BY <1>4, SameTree DEF Webhook, SetAutosync, RequestRetry
  <2>2. SharedTypeOK'
    BY <1>4, BoundAssumption DEF Webhook, SetAutosync, RequestRetry, SharedTypeOK
  <2> QED
    BY <2>1, <2>2 DEF WorldTypeOK, DiskTypeOK, StateTypeOK, RunTypeOK, TrailTypeOK, LoopOK
<1> QED
  BY <1>1, <1>2, <1>3, <1>4 DEF Environment

\* Getting the lock, syncing and loading the state keep the types.
LEMMA StartType ==
    TypeInv /\ (EnterRun \/ SyncOK \/ SyncRetry \/ SyncGiveUp \/ AbortRun \/ DeployAllStacks)
        => TypeInv'
<1> SUFFICES ASSUME TypeInv,
                    EnterRun \/ SyncOK \/ SyncRetry \/ SyncGiveUp \/ AbortRun \/ DeployAllStacks
             PROVE  TypeInv'
  OBVIOUS
<1> USE DEF TypeInv, TypeOK, diskVars, sharedVars, stateVars, runVars, worldVars
<1>1. CASE EnterRun \/ SyncRetry
  <2>1. RunTypeOK' /\ SharedTypeOK'
    BY <1>1, BoundAssumption DEF EnterRun, SyncAndDeployAll, TrySyncAndDeployAll, SyncRetry,
       RunTypeOK, SharedTypeOK, Phase, Busy
  <2>2. WorldTypeOK' /\ DiskTypeOK' /\ StateTypeOK' /\ TrailTypeOK'
    BY <1>1 DEF EnterRun, SyncAndDeployAll, TrySyncAndDeployAll, SyncRetry,
       WorldTypeOK, DiskTypeOK, StateTypeOK, TrailTypeOK
  <2>3. LoopOK'
    BY <1>1 DEF EnterRun, SyncAndDeployAll, TrySyncAndDeployAll, SyncRetry, LoopOK, Loop, Busy
  <2> QED
    BY <2>1, <2>2, <2>3
<1>2. CASE SyncOK
  <2>1. head' \in 1 .. Len(log') /\ head \in 0 .. head'
    BY <1>2 DEF SyncOK, WorldTypeOK
  <2>2. WorldTypeOK' /\ DiskTypeOK' /\ SharedTypeOK' /\ StateTypeOK' /\ TrailTypeOK'
    BY <1>2, <2>1 DEF SyncOK, WorldTypeOK, DiskTypeOK, SharedTypeOK, StateTypeOK, TrailTypeOK
  <2>3. RunTypeOK' /\ LoopOK'
    BY <1>2, <2>1, BoundAssumption DEF SyncOK, RunTypeOK, LoopOK, Loop, Phase, Busy
  <2> QED
    BY <2>2, <2>3
<1>3. CASE SyncGiveUp \/ AbortRun
  <2>1. EndRun /\ UNCHANGED <<worldVars, head, diskVars, sharedVars, trail>>
    BY <1>3 DEF SyncGiveUp, AbortRun
  <2>2. WorldTypeOK' /\ DiskTypeOK' /\ SharedTypeOK' /\ TrailTypeOK'
    BY <2>1 DEF WorldTypeOK, DiskTypeOK, SharedTypeOK, TrailTypeOK
  <2> QED
    BY <2>1, <2>2, EndRunType DEF WorldTypeOK
<1>4. CASE DeployAllStacks
  <2>1. UNCHANGED <<worldVars, head, diskVars, waiting, paused, retry, heldNow, stopping,
                    ctx, attempt, cur, elapsed>>
    BY <1>4 DEF DeployAllStacks
  <2>2. WorldTypeOK' /\ DiskTypeOK'
    BY <2>1 DEF WorldTypeOK, DiskTypeOK
  <2>3. DeploySet \in SUBSET Stack
    BY DEF DeploySet, Discovered
  <2>4. SharedTypeOK'
    BY <1>4, <2>3 DEF DeployAllStacks, LoadState, SharedTypeOK
  <2>5. PICK lost \in BOOLEAN : LoadState(lost)
    BY <1>4 DEF DeployAllStacks
  <2>6. StateTypeOK'
    <3>1. settled' = {} /\ head' = head
      BY <1>4 DEF DeployAllStacks
    <3>2. CASE lost
      BY <2>5, <3>1, <3>2, NoHoldType DEF LoadState, StateTypeOK, WorldTypeOK, Nothing, NoBases, NoHolds
    <3>3. CASE ~lost
      BY <2>5, <3>1, <3>3, NoHoldType DEF LoadState, StateTypeOK, DiskTypeOK, WorldTypeOK
    <3> QED
      BY <3>2, <3>3
  <2>7. TrailTypeOK'
    BY <2>5, NoTrailType DEF LoadState, TrailTypeOK
  <2>8. RunTypeOK'
    BY <1>4, <2>3, OrderAssumption DEF DeployAllStacks, RunTypeOK, Phase, Busy
  <2>9. LoopOK'
    <3>1. DeploySet' = DeploySet
      BY <2>1, SameTree
    <3>2. settled' = {} /\ todo' = Order[DeploySet] /\ head' # 0
      BY <1>4 DEF DeployAllStacks, LoopOK
    <3> QED
      BY <3>1, <3>2, <2>3, OrderAssumption DEF LoopOK
  <2> QED
    BY <2>2, <2>4, <2>6, <2>7, <2>8, <2>9
<1> QED
  BY <1>1, <1>2, <1>3, <1>4

\* The steps that decide about one stack, and the failures before start.
Decision ==
    \/ DeferForDependency \/ PassGate
    \/ CheckHashError \/ CheckUnchanged \/ CheckPaused \/ CheckNotPaused
    \/ IsHeld \/ PreStartFails \/ PreStartOK

\* Deciding whether a stack deploys keeps the types.
LEMMA DecisionType == TypeInv /\ Decision => TypeInv'
<1> SUFFICES ASSUME TypeInv, Decision PROVE TypeInv'
  OBVIOUS
<1> USE DEF TypeInv, TypeOK, diskVars, sharedVars, stateVars, runVars, worldVars
<1>a. /\ UNCHANGED <<log, running, env, head, rec, base, last, diskRec, diskBase, diskHeld, diskLast>>
      /\ phase \in Loop /\ todo # <<>>
  BY DEF Decision, DeferForDependency, PassGate, CheckHashError, CheckUnchanged, settleReleasedHold, CheckPaused,
     CheckNotPaused, IsHeld, PreStartFails, PreStartOK, RunTypeOK, Loop, Busy
<1>b. WorldTypeOK' /\ DiskTypeOK'
  BY <1>a DEF WorldTypeOK, DiskTypeOK
<1>c. DeploySet' = DeploySet
  BY <1>a, SameTree
<1>d. /\ Cur \in Stack /\ Cur \notin settled
      /\ Current(Cur) \in Inputs /\ Current(Cur) # None
      /\ decide(Cur) \in {"ready", "queued", "blocked"}
  BY <1>a, CurType DEF decide
<1>1. SharedTypeOK'
  BY <1>d DEF Decision, DeferForDependency, PassGate, CheckHashError, CheckUnchanged, settleReleasedHold, CheckPaused,
     CheckNotPaused, IsHeld, PreStartFails, PreStartOK, SharedTypeOK
<1>2. StateTypeOK' /\ TrailTypeOK'
  <2>1. CASE DeferForDependency \/ PassGate \/ CheckHashError \/ CheckPaused \/ CheckNotPaused \/ PreStartOK
    BY <2>1 DEF DeferForDependency, PassGate, CheckHashError, CheckPaused, CheckNotPaused, PreStartOK,
       StateTypeOK, TrailTypeOK
  <2>2. CASE CheckUnchanged
    <3>1. held' \in [Stack -> Hold] /\ settled' \subseteq Stack
      BY <2>2, <1>d, NoHoldType DEF CheckUnchanged, settleReleasedHold, StateTypeOK
    <3>2. TrailTypeOK'
      BY <2>2, NoTrailType DEF CheckUnchanged, settleReleasedHold, TrailTypeOK
    <3> QED
      BY <3>1, <3>2, <1>a DEF StateTypeOK
  <2>3. CASE IsHeld
    <3>1. settled' = settled
      BY <2>3 DEF IsHeld
    <3>2. held' \in [Stack -> Hold]
      BY <2>3, NoHoldType DEF IsHeld, KeptForAttempt, StateTypeOK
    <3>3. cur \in Inputs
      BY <2>3 DEF IsHeld, RunTypeOK, Busy
    <3>4. TrailTypeOK'
      <4>1. trail[Cur] \in Trail
        BY <1>d DEF TrailTypeOK
      <4>2. Attempt(trail[Cur], Cur \in retry) \in Trail
        BY <4>1, <3>3, AttemptType
      <4> QED
        BY <2>3, <4>2 DEF IsHeld, TrailTypeOK
    <3> QED
      BY <3>1, <3>2, <3>4, <1>a DEF StateTypeOK
  <2>4. CASE PreStartFails
    <3>1. settled' = settled
      BY <2>4 DEF PreStartFails
    <3>2. cur \in Inputs /\ elapsed \in Nat
      BY <2>4 DEF PreStartFails, RunTypeOK, Busy
    <3>3. recordPreStartFailure(held[Cur], cur) \in Hold
      BY <3>2, <1>d, PreStartType DEF StateTypeOK
    <3>4. held' \in [Stack -> Hold]
      BY <2>4, <3>3 DEF PreStartFails, StateTypeOK
    <3>5. TrailTypeOK'
      <4>1. trail[Cur] \in Trail
        BY <1>d DEF TrailTypeOK
      <4>2. [fp |-> cur, fails |-> trail[Cur].fails + 1,
             gaveUp |-> trail[Cur].gaveUp \/ held'[Cur].status = "held"] \in Trail
        BY <4>1, <3>2 DEF Trail
      <4> QED
        BY <2>4, <4>2 DEF PreStartFails, TrailTypeOK
    <3> QED
      BY <3>1, <3>4, <3>5, <1>a DEF StateTypeOK
  <2> QED
    BY <2>1, <2>2, <2>3, <2>4 DEF Decision
<1>3. RunTypeOK' /\ LoopOK'
  <2>1. ASSUME NEW o \in {"ready", "queued", "blocked"}, NextStack(o),
               settled' \subseteq settled \cup {Cur}
        PROVE  RunTypeOK' /\ LoopOK'
    BY <2>1, <1>a, NextStackType
  <2>2. CASE DeferForDependency \/ CheckHashError \/ CheckUnchanged \/ CheckPaused \/ PreStartFails
    BY <2>1, <2>2, <1>d DEF DeferForDependency, CheckHashError, CheckUnchanged, settleReleasedHold, CheckPaused, PreStartFails
  <2>3. CASE PassGate \/ CheckNotPaused \/ PreStartOK
    <3>1. RunTypeOK'
      BY <2>3, <1>a, <1>d DEF PassGate, CheckNotPaused, PreStartOK, RunTypeOK, Phase, Busy
    <3>2. UNCHANGED <<todo, settled, head>> /\ phase' \in Loop
      BY <2>3 DEF PassGate, CheckNotPaused, PreStartOK, Loop, Busy
    <3> QED
      BY <3>1, <3>2, <1>a, <1>c DEF LoopOK
  <2>4. CASE IsHeld
    <3>1. CASE HeldBack(Cur)
      BY <2>1, <2>4, <3>1 DEF IsHeld
    <3>2. CASE ~HeldBack(Cur)
      <4>1. RunTypeOK'
        BY <2>4, <3>2, <1>a DEF IsHeld, RunTypeOK, Phase, Busy
      <4>2. UNCHANGED <<todo, settled, head>> /\ phase' \in Loop
        BY <2>4, <3>2 DEF IsHeld, Loop, Busy
      <4> QED
        BY <4>1, <4>2, <1>a, <1>c DEF LoopOK
    <3> QED
      BY <3>1, <3>2
  <2> QED
    BY <2>2, <2>3, <2>4 DEF Decision
<1> QED
  BY <1>b, <1>1, <1>2, <1>3

\* Holding a failed version.
LEMMA HoldType ==
    ASSUME TypeInv, phase \in Busy, cur # None, HoldFailedVersion, UNCHANGED <<log, head>>
    PROVE  StateTypeOK' /\ TrailTypeOK' /\ RunTypeOK' /\ LoopOK'
<1> USE DEF TypeInv, TypeOK
<1>1. phase \in Loop /\ todo # <<>> /\ cur \in Inputs
  BY DEF RunTypeOK, Loop
<1>2. Cur \in Stack
  BY <1>1, CurType
<1>3. StateTypeOK'
  <2>1. afterStart(cur) \in Hold
    BY <1>1, AfterStartType
  <2> QED
    BY <2>1 DEF HoldFailedVersion, StateTypeOK
<1>4. TrailTypeOK'
  <2>1. [fp |-> cur, fails |-> trail[Cur].fails, gaveUp |-> TRUE] \in Trail
    BY <1>1, <1>2 DEF TrailTypeOK, Trail
  <2> QED
    BY <2>1 DEF HoldFailedVersion, TrailTypeOK
<1>5. NextStack("blocked") /\ settled' \subseteq settled \cup {Cur}
  BY DEF HoldFailedVersion
<1>6. RunTypeOK' /\ LoopOK'
  BY <1>1, <1>5, NextStackType
<1> QED
  BY <1>3, <1>4, <1>6

\* The steps that touch containers.
Deployment == UpOK \/ UpFails \/ CanaryFails \/ GatesOK \/ GatesFail \/ RollbackStack

\* Deploying it does, too.
LEMMA DeploymentType == TypeInv /\ Deployment => TypeInv'
<1> SUFFICES ASSUME TypeInv, Deployment PROVE TypeInv'
  OBVIOUS
<1> USE DEF TypeInv, TypeOK, diskVars, sharedVars, stateVars, worldVars
<1>a. /\ phase \in Busy \ {"check"} /\ phase \in Loop /\ todo # <<>>
      /\ cur \in Inputs /\ cur # None /\ cur.compose \in Version
  <2>1. phase \in Busy \ {"check"}
    BY DEF Deployment, UpOK, UpFails, CanaryFails, GatesOK, GatesFail, RollbackStack, Busy
  <2>2. cur \in Inputs
    BY <2>1 DEF RunTypeOK
  <2> QED
    BY <2>1, <2>2 DEF RunTypeOK, Loop, Inputs
<1>b. UNCHANGED <<log, env, head, diskVars, sharedVars>>
  BY DEF Deployment, UpOK, UpFails, CanaryFails, GatesOK, GatesFail, RollbackStack
<1>c. DiskTypeOK' /\ SharedTypeOK'
  BY <1>b DEF DiskTypeOK, SharedTypeOK
<1>d. Cur \in Stack /\ Cur \notin settled /\ DeploySet' = DeploySet
  BY <1>a, <1>b, CurType, SameTree
<1>1. WorldTypeOK'
  <2>1. running' \in [Stack -> Version \cup {None}]
    <3>1. CASE GatesOK \/ GatesFail
      BY <3>1 DEF GatesOK, GatesFail, WorldTypeOK
    <3>2. CASE UpOK
      BY <3>2, <1>a DEF UpOK, WorldTypeOK
    <3>3. CASE UpFails \/ CanaryFails
      BY <3>3, <1>a, <1>d DEF UpFails, CanaryFails, WorldTypeOK
    <3>4. CASE RollbackStack
      BY <3>4 DEF RollbackStack, WorldTypeOK
    <3> QED
      BY <3>1, <3>2, <3>3, <3>4 DEF Deployment
  <2> QED
    BY <2>1, <1>b DEF WorldTypeOK
<1>2. ASSUME RollBackFailedDeploy
      PROVE  StateTypeOK' /\ TrailTypeOK' /\ RunTypeOK' /\ LoopOK'
  <2>1. CASE HoldFailedVersion
    BY <2>1, <1>a, <1>b, HoldType
  <2>2. CASE phase' = "rollback" /\ UNCHANGED <<stateVars, ctx, attempt, todo, cur, elapsed, gate, trail>>
    <3>1. StateTypeOK' /\ TrailTypeOK'
      BY <2>2, <1>b DEF StateTypeOK, TrailTypeOK
    <3>2. RunTypeOK'
      BY <2>2, <1>a DEF RunTypeOK, Phase, Busy
    <3>3. LoopOK'
      BY <2>2, <1>a, <1>b, <1>d DEF LoopOK
    <3> QED
      BY <3>1, <3>2, <3>3
  <2> QED
    BY <1>2, <2>1, <2>2 DEF RollBackFailedDeploy
<1>3. StateTypeOK' /\ TrailTypeOK' /\ RunTypeOK' /\ LoopOK'
  <2>1. CASE UpFails \/ GatesFail
    BY <2>1, <1>2 DEF UpFails, GatesFail
  <2>2. CASE CanaryFails \/ RollbackStack
    BY <2>2, <1>a, <1>b, HoldType DEF CanaryFails, RollbackStack
  <2>3. CASE UpOK
    <3>1. StateTypeOK' /\ TrailTypeOK'
      BY <2>3 DEF UpOK, StateTypeOK, TrailTypeOK
    <3>2. RunTypeOK'
      BY <2>3, <1>a DEF UpOK, RunTypeOK, Phase, Busy
    <3>3. LoopOK'
      BY <2>3, <1>a, <1>b, <1>d DEF UpOK, LoopOK
    <3> QED
      BY <3>1, <3>2, <3>3
  <2>4. CASE GatesOK
    <3>1. StateTypeOK'
      BY <2>4, <1>a, <1>d, NoHoldType DEF GatesOK, StateTypeOK
    <3>2. TrailTypeOK'
      BY <2>4, NoTrailType DEF GatesOK, TrailTypeOK
    <3>3. RunTypeOK' /\ LoopOK'
      BY <2>4, <1>a, <1>b, NextStackType DEF GatesOK
    <3> QED
      BY <3>1, <3>2, <3>3
  <2> QED
    BY <2>1, <2>2, <2>3, <2>4 DEF Deployment
<1> QED
  BY <1>c, <1>1, <1>3

\* The end of a run, self-heal and the life of the process.
LEMMA ProcessType == TypeInv /\ (FinishRun \/ Process) => TypeInv'
<1> SUFFICES ASSUME TypeInv, FinishRun \/ Process PROVE TypeInv'
  OBVIOUS
<1> USE DEF TypeInv, TypeOK, diskVars, sharedVars, stateVars, runVars, worldVars
<1>1. CASE FinishRun
  <2>1. EndRun /\ UNCHANGED <<worldVars, head>>
    BY <1>1 DEF FinishRun
  <2>2. WorldTypeOK' /\ StateTypeOK' /\ RunTypeOK' /\ LoopOK'
    BY <2>1, EndRunType DEF WorldTypeOK
  <2>3. SharedTypeOK'
    BY <1>1 DEF FinishRun, SharedTypeOK
  <2>4. advanceCommitBases \in [Stack -> 0 .. head]
    BY DEF advanceCommitBases, StateTypeOK, WorldTypeOK
  <2>5. DiskTypeOK' /\ TrailTypeOK'
    BY <1>1, <2>1, <2>4, NoTrailType DEF FinishRun, DiskTypeOK, StateTypeOK, TrailTypeOK, WorldTypeOK
  <2> QED
    BY <2>2, <2>3, <2>5
<1>2. ASSUME NEW s \in Stack, HealStack(s) PROVE TypeInv'
  <2>1. deployedVersion(s) \in Version
    BY <1>2, ContentAssumption DEF HealStack, deployedVersion, DiskTypeOK, Inputs
  <2>2. WorldTypeOK'
    BY <1>2, <2>1 DEF HealStack, WorldTypeOK
  <2>3. DeploySet' = DeploySet
    BY <1>2, SameTree DEF HealStack
  <2> QED
    BY <1>2, <2>2, <2>3 DEF HealStack, DiskTypeOK, SharedTypeOK, StateTypeOK, RunTypeOK, TrailTypeOK, LoopOK
<1>3. CASE Shutdown
  <2>1. DeploySet' = DeploySet
    BY <1>3, SameTree DEF Shutdown
  <2>2. SharedTypeOK'
    BY <1>3 DEF Shutdown, SharedTypeOK
  <2> QED
    BY <1>3, <2>1, <2>2 DEF Shutdown, WorldTypeOK, DiskTypeOK, StateTypeOK, RunTypeOK, TrailTypeOK, LoopOK
<1>4. CASE Exit \/ Crash
  <2>1. Restart /\ EndRun /\ UNCHANGED <<worldVars, head, diskVars>>
    BY <1>4 DEF Exit, Crash, Restart
  <2>2. WorldTypeOK' /\ DiskTypeOK' /\ StateTypeOK' /\ RunTypeOK' /\ LoopOK'
    BY <2>1, EndRunType DEF WorldTypeOK, DiskTypeOK
  <2>3. SharedTypeOK'
    <3>1. waiting' \in 0 .. MaxWaiting
      BY <2>1, BoundAssumption DEF Restart
    <3>2. paused' \subseteq Stack
      BY <2>1, StackAssumption DEF Restart
    <3>3. stopping' \in BOOLEAN
      BY <2>1 DEF Restart
    <3> QED
      BY <2>1, <3>1, <3>2, <3>3 DEF Restart, SharedTypeOK
  <2>4. TrailTypeOK'
    BY <1>4, NoTrailType DEF Exit, Crash, TrailTypeOK
  <2> QED
    BY <2>2, <2>3, <2>4
<1> QED
  BY <1>1, <1>2, <1>3, <1>4 DEF Process

\* Every step keeps the types.
LEMMA TypeStep == TypeInv /\ [Next]_vars => TypeInv'
<1> SUFFICES ASSUME TypeInv, [Next]_vars PROVE TypeInv'
  OBVIOUS
<1>1. CASE UNCHANGED vars
  BY <1>1 DEF TypeInv, TypeOK, vars, worldVars, diskVars, sharedVars, stateVars, runVars,
     WorldTypeOK, DiskTypeOK, SharedTypeOK, StateTypeOK, RunTypeOK, TrailTypeOK, LoopOK,
     DeploySet, Discovered, StackErrors, invalidDependency
<1>2. CASE Next
  BY <1>2, EnvironmentType, StartType, DecisionType, DeploymentType, ProcessType
     DEF Next, RunStep, Decision, Deployment
<1> QED
  BY <1>1, <1>2

\* TypeOK holds in every reachable state of the deploy run, with every fault the
\* model knows.
THEOREM TypeCorrect == Spec => []TypeOK
<1>1. Init => TypeInv
  BY InitType
<1>2. TypeInv /\ [Next]_vars => TypeInv'
  BY TypeStep
<1>3. TypeInv => TypeOK
  BY DEF TypeInv
<1> QED
  BY <1>1, <1>2, <1>3, PTL DEF Spec
-----------------------------------------------------------------------------
(* The saved base of a recorded stack is the version that was deployed *)

\* HEAD can be read at the end of every run: no read fails and no shutdown cuts
\* a run short.
HeadAlwaysRead == "head" \notin Faults /\ "shutdown" \notin Faults

\* At first nothing is deployed or recorded.
LEMMA InitBase == Init => BaseInv
<1> SUFFICES ASSUME Init PROVE BaseInv
  OBVIOUS
<1>1. TypeOK /\ LoopOK
  BY InitType DEF TypeInv
<1>2. RunBaseOK /\ BaseIsDeployed /\ ~stopping
  BY DEF Init, RunBaseOK, BaseIsDeployed, Nothing, Loop, Busy
<1> QED
  BY <1>1, <1>2 DEF BaseInv

\* A commit that a base names keeps its tree.
LEMMA EnvironmentBase ==
    BaseInv /\ Environment => ~stopping' /\ RunBaseOK' /\ BaseIsDeployed'
<1> SUFFICES ASSUME BaseInv, Environment PROVE ~stopping' /\ RunBaseOK' /\ BaseIsDeployed'
  OBVIOUS
<1> USE DEF BaseInv, TypeOK, worldVars, diskVars, sharedVars, stateVars, runVars
<1>1. /\ UNCHANGED <<head, diskRec, diskBase, stopping, rec, base, settled, phase, cur, todo>>
      /\ \A n \in 1 .. Len(log) : log'[n] = log[n]
  <2>1. ASSUME NEW s \in Stack, NEW c \in Content, Push(s, c)
        PROVE  \A n \in 1 .. Len(log) : log'[n] = log[n]
    BY <2>1, PushKeeps
  <2> QED
    BY <2>1 DEF Environment, Push, EnvChange, Tick, Webhook, SetAutosync, RequestRetry
<1>2. BaseIsDeployed'
  BY <1>1 DEF BaseIsDeployed, WorldTypeOK, DiskTypeOK
<1>3. RunBaseOK'
  <2> SUFFICES ASSUME phase \in Loop
               PROVE  /\ \A s \in Stack : rec[s] # None =>
                            IF s \in settled THEN rec[s].compose = log'[head][s]
                            ELSE base[s] # 0 /\ log'[base[s]][s] = rec[s].compose
                      /\ cur # None => cur.compose = log'[head][Cur]
    BY <1>1 DEF RunBaseOK, Cur
  <2>1. log'[head] = log[head]
    BY <1>1 DEF LoopOK, WorldTypeOK
  <2>2. \A s \in Stack : base[s] # 0 => log'[base[s]] = log[base[s]]
    <3> SUFFICES ASSUME NEW s \in Stack, base[s] # 0 PROVE log'[base[s]] = log[base[s]]
      OBVIOUS
    <3>1. base[s] \in 0 .. head /\ head \in 0 .. Len(log) /\ Len(log) \in Nat
      BY DEF StateTypeOK, WorldTypeOK
    <3>2. base[s] \in 1 .. Len(log)
      BY <3>1
    <3> QED
      BY <3>2, <1>1
  <2> QED
    BY <2>1, <2>2 DEF RunBaseOK
<1> QED
  BY <1>1, <1>2, <1>3

\* A run starts from the saved state, with nothing settled yet.
LEMMA StartBase ==
    BaseInv /\ (EnterRun \/ SyncOK \/ SyncRetry \/ SyncGiveUp \/ AbortRun \/ DeployAllStacks)
        => ~stopping' /\ RunBaseOK' /\ BaseIsDeployed'
<1> SUFFICES ASSUME BaseInv,
                    EnterRun \/ SyncOK \/ SyncRetry \/ SyncGiveUp \/ AbortRun \/ DeployAllStacks
             PROVE  ~stopping' /\ RunBaseOK' /\ BaseIsDeployed'
  OBVIOUS
<1> USE DEF BaseInv, TypeOK, worldVars, diskVars, sharedVars
<1>1. UNCHANGED <<log, diskRec, diskBase, stopping>>
  BY DEF EnterRun, SyncAndDeployAll, TrySyncAndDeployAll, SyncOK, SyncRetry, SyncGiveUp, AbortRun,
     DeployAllStacks
<1>2. BaseIsDeployed'
  BY <1>1 DEF BaseIsDeployed
<1>3. CASE DeployAllStacks
  <2>1. PICK lost \in BOOLEAN : LoadState(lost)
    BY <1>3 DEF DeployAllStacks
  <2>2. settled' = {} /\ cur' = None
    BY <1>3 DEF DeployAllStacks, RunTypeOK, Busy
  <2>3. CASE lost
    <3>1. \A s \in Stack : rec'[s] = None
      BY <2>1, <2>3 DEF LoadState, Nothing
    <3> QED
      BY <1>1, <1>2, <2>2, <3>1 DEF RunBaseOK
  <2>4. CASE ~lost
    <3>1. /\ rec' = [s \in Stack |-> IF s \in RemovedStacks(diskRec) THEN None ELSE diskRec[s]]
          /\ base' = [s \in Stack |-> IF s \in RemovedStacks(diskRec) THEN 0 ELSE diskBase[s]]
      BY <2>1, <2>4 DEF LoadState
    <3>2. \A s \in Stack : rec'[s] # None => rec'[s] = diskRec[s] /\ base'[s] = diskBase[s]
      BY <3>1
    <3> QED
      BY <1>1, <1>2, <2>2, <3>2 DEF RunBaseOK, BaseIsDeployed
  <2> QED
    BY <2>3, <2>4
<1>4. CASE EnterRun \/ SyncOK \/ SyncRetry \/ SyncGiveUp \/ AbortRun
  <2>1. phase' \notin Loop
    BY <1>4 DEF EnterRun, SyncAndDeployAll, TrySyncAndDeployAll, SyncOK, SyncRetry, SyncGiveUp, AbortRun,
       EndRun, Loop, Busy
  <2> QED
    BY <1>1, <1>2, <2>1 DEF RunBaseOK
<1> QED
  BY <1>3, <1>4

\* Deciding about a stack settles it only when its inputs are the recorded ones.
LEMMA DecisionBase ==
    BaseInv /\ Decision => ~stopping' /\ RunBaseOK' /\ BaseIsDeployed'
<1> SUFFICES ASSUME BaseInv, Decision PROVE ~stopping' /\ RunBaseOK' /\ BaseIsDeployed'
  OBVIOUS
<1> USE DEF BaseInv, TypeOK, worldVars, diskVars, sharedVars, stateVars
<1>1. /\ UNCHANGED <<log, head, rec, base, diskRec, diskBase, stopping>>
      /\ phase \in Loop /\ todo # <<>>
  BY DEF Decision, DeferForDependency, PassGate, CheckHashError, CheckUnchanged, settleReleasedHold, CheckPaused,
     CheckNotPaused, IsHeld, PreStartFails, PreStartOK, RunTypeOK, Loop, Busy
<1>2. BaseIsDeployed'
  BY <1>1 DEF BaseIsDeployed
<1>3. settled' = settled \/
        (settled' = settled \cup {Cur} /\ (rec[Cur] # None => rec[Cur].compose = log[head][Cur]))
  BY DEF Decision, DeferForDependency, PassGate, CheckHashError, CheckUnchanged, settleReleasedHold, CheckPaused,
     CheckNotPaused, IsHeld, PreStartFails, PreStartOK, changedFiles, Current
<1>4. cur' # None => todo' = todo /\ cur'.compose = log[head][Cur]
  BY <1>1 DEF Decision, DeferForDependency, PassGate, CheckHashError, CheckUnchanged, settleReleasedHold, CheckPaused,
     CheckNotPaused, IsHeld, PreStartFails, PreStartOK, NextStack, Current, RunBaseOK
<1>5. RunBaseOK'
  BY <1>1, <1>3, <1>4 DEF RunBaseOK, Cur
<1> QED
  BY <1>1, <1>2, <1>5

\* A deploy records what it brought up from HEAD and settles the stack.
LEMMA DeploymentBase ==
    BaseInv /\ Deployment => ~stopping' /\ RunBaseOK' /\ BaseIsDeployed'
<1> SUFFICES ASSUME BaseInv, Deployment PROVE ~stopping' /\ RunBaseOK' /\ BaseIsDeployed'
  OBVIOUS
<1> USE DEF BaseInv, TypeOK, worldVars, diskVars, sharedVars, stateVars
<1>1. /\ UNCHANGED <<log, head, base, diskRec, diskBase, stopping>>
      /\ phase \in Loop /\ phase \in Busy \ {"check"} /\ todo # <<>>
  BY DEF Deployment, UpOK, UpFails, CanaryFails, GatesOK, GatesFail, RollbackStack, RollBackFailedDeploy,
     HoldFailedVersion, RunTypeOK, Loop, Busy
<1>2. BaseIsDeployed'
  BY <1>1 DEF BaseIsDeployed
<1>3. cur' # None => todo' = todo /\ cur' = cur
  BY DEF Deployment, UpOK, UpFails, CanaryFails, GatesOK, GatesFail, RollbackStack, RollBackFailedDeploy,
     HoldFailedVersion, NextStack
<1>4. CASE GatesOK
  <2>1. rec' = [rec EXCEPT ![Cur] = cur] /\ settled' = settled \cup {Cur} /\ Cur \in Stack
    BY <1>1, <1>4, CurType DEF GatesOK
  <2>2. cur.compose = log[head][Cur]
    BY <1>1 DEF RunBaseOK, RunTypeOK
  <2> QED
    BY <1>1, <1>2, <1>3, <2>1, <2>2 DEF RunBaseOK, StateTypeOK, Cur
<1>5. CASE ~GatesOK
  <2>1. UNCHANGED <<rec, settled>>
    BY <1>5 DEF Deployment, UpOK, UpFails, CanaryFails, GatesFail, RollbackStack, RollBackFailedDeploy,
       HoldFailedVersion
  <2> QED
    BY <1>1, <1>2, <1>3, <2>1 DEF RunBaseOK, Cur
<1> QED
  BY <1>4, <1>5

\* Saving moves the base of each settled stack to HEAD, and of no other.
LEMMA ProcessBase ==
    HeadAlwaysRead /\ BaseInv /\ (FinishRun \/ Process)
        => ~stopping' /\ RunBaseOK' /\ BaseIsDeployed'
<1> SUFFICES ASSUME HeadAlwaysRead, BaseInv, FinishRun \/ Process
             PROVE  ~stopping' /\ RunBaseOK' /\ BaseIsDeployed'
  OBVIOUS
<1> USE DEF BaseInv, TypeOK, worldVars, diskVars, sharedVars, stateVars, runVars
<1>1. CASE FinishRun
  <2>1. phase \in Loop /\ phase' \notin Loop /\ UNCHANGED <<log, stopping>>
    BY <1>1 DEF FinishRun, EndRun, Loop, Busy
  <2>2. CASE UNCHANGED diskVars
    BY <2>1, <2>2 DEF RunBaseOK, BaseIsDeployed
  <2>3. CASE diskRec' = rec /\ diskBase' = advanceCommitBases
    <3>1. head # 0
      BY <2>1 DEF LoopOK
    <3>2. \A s \in Stack : rec[s] # None =>
            advanceCommitBases[s] # 0 /\ log[advanceCommitBases[s]][s] = rec[s].compose
      BY <2>1, <3>1 DEF advanceCommitBases, RunBaseOK
    <3> QED
      BY <2>1, <2>3, <3>2 DEF RunBaseOK, BaseIsDeployed
  <2> QED
    BY <1>1, <2>2, <2>3 DEF FinishRun, Cancelled, HeadAlwaysRead
<1>2. CASE Process
  <2>1. UNCHANGED <<log, diskRec, diskBase>> /\ ~stopping'
    BY <1>2 DEF Process, HealStack, Shutdown, Exit, Crash, Restart, HeadAlwaysRead
  <2>2. phase' \notin Loop
    BY <1>2 DEF Process, HealStack, Shutdown, Exit, Crash, Restart, EndRun, HeadAlwaysRead, Loop, Busy
  <2> QED
    BY <2>1, <2>2 DEF RunBaseOK, BaseIsDeployed
<1> QED
  BY <1>1, <1>2

\* Every step keeps what is recorded at a base equal to what was deployed.
LEMMA BaseStep == HeadAlwaysRead /\ BaseInv /\ [Next]_vars => BaseInv'
<1> SUFFICES ASSUME HeadAlwaysRead, BaseInv, [Next]_vars PROVE BaseInv'
  OBVIOUS
<1>1. TypeOK' /\ LoopOK'
  BY TypeStep DEF BaseInv, TypeInv
<1>2. CASE UNCHANGED vars
  BY <1>1, <1>2 DEF BaseInv, vars, worldVars, diskVars, sharedVars, stateVars, runVars,
     RunBaseOK, BaseIsDeployed, Cur
<1>3. CASE Next
  <2>1. ~stopping' /\ RunBaseOK' /\ BaseIsDeployed'
    BY <1>3, EnvironmentBase, StartBase, DecisionBase, DeploymentBase, ProcessBase
       DEF Next, RunStep, Decision, Deployment
  <2> QED
    BY <1>1, <2>1 DEF BaseInv
<1> QED
  BY <1>2, <1>3

\* As long as HEAD can be read when a run ends, the commit saved as a recorded
\* stack's base holds the compose file that was deployed: across pushes, pauses,
\* holds, blocked dependents, failed saves, lost state files and crashes, for any
\* number of stacks.
THEOREM BaseDeployed ==
    ASSUME HeadAlwaysRead
    PROVE  Spec => []BaseIsDeployed
<1>1. Init => BaseInv
  BY InitBase
<1>2. BaseInv /\ [Next]_vars => BaseInv'
  BY BaseStep
<1>3. BaseInv => BaseIsDeployed
  BY DEF BaseInv
<1> QED
  BY <1>1, <1>2, <1>3, PTL DEF Spec
-----------------------------------------------------------------------------
(* What a rollback and a heal bring up *)

\* The action of OnlyDeployedOrRecorded.
RestoreStep == \A s \in Stack : running'[s] # running[s] => DeployedOrRecorded(s)

\* A rollback brings up the recorded version ...
LEMMA RollbackRestores == BaseInv /\ RollbackStack => RestoreStep
<1> SUFFICES ASSUME BaseInv, RollbackStack, NEW s \in Stack, running'[s] # running[s]
             PROVE  DeployedOrRecorded(s)
  BY DEF RestoreStep
<1> USE DEF BaseInv, TypeOK
<1>1. phase \in Loop /\ phase = "rollback" /\ todo # <<>>
  BY DEF RollbackStack, RunTypeOK, Loop, Busy
<1>2. Cur \in Stack /\ Cur \notin settled
  BY <1>1, CurType
<1>3. s = Cur /\ running'[s] = log[baseCommitFor(base, last, Cur)][Cur]
  BY <1>2 DEF RollbackStack, WorldTypeOK
<1>4. rec[Cur] # None => base[Cur] # 0 /\ log[base[Cur]][Cur] = rec[Cur].compose
  BY <1>1, <1>2 DEF RunBaseOK
<1> QED
  BY <1>1, <1>3, <1>4 DEF DeployedOrRecorded, baseCommitFor

\* ... and so does a heal.
LEMMA HealRestores ==
    ASSUME BaseInv, NEW h \in Stack, HealStack(h) PROVE RestoreStep
<1> SUFFICES ASSUME NEW s \in Stack, running'[s] # running[s] PROVE DeployedOrRecorded(s)
  BY DEF RestoreStep
<1>1. s = h /\ running'[s] = deployedVersion(h) /\ deployedVersion(h) # None /\ phase = "idle"
  BY DEF HealStack, BaseInv, TypeOK, WorldTypeOK
<1>2. diskRec[h] # None /\ deployedVersion(h) = diskRec[h].compose
  BY <1>1 DEF deployedVersion, baseCommitFor, BaseInv, BaseIsDeployed
<1> QED
  BY <1>1, <1>2 DEF DeployedOrRecorded

\* No other step changes containers outside a deploy.
LEMMA RestoreAction == BaseInv /\ [Next]_vars => [RestoreStep]_vars
<1> SUFFICES ASSUME BaseInv, Next PROVE RestoreStep
  OBVIOUS
<1>1. CASE RollbackStack
  BY <1>1, RollbackRestores
<1>2. CASE \E s \in Stack : HealStack(s)
  BY <1>2, HealRestores
<1>3. CASE UpOK \/ UpFails \/ CanaryFails
  BY <1>3 DEF UpOK, UpFails, CanaryFails, RestoreStep, DeployedOrRecorded, BaseInv, TypeOK, WorldTypeOK
<1>4. CASE UNCHANGED running
  BY <1>4 DEF RestoreStep
<1>5. CASE Environment
  BY <1>4, <1>5 DEF Environment, Push, EnvChange, Tick, Webhook, SetAutosync, RequestRetry, worldVars
<1>6. CASE EnterRun \/ SyncOK \/ SyncRetry \/ SyncGiveUp \/ AbortRun \/ DeployAllStacks
  BY <1>4, <1>6 DEF EnterRun, SyncAndDeployAll, TrySyncAndDeployAll, SyncOK, SyncRetry, SyncGiveUp,
     AbortRun, DeployAllStacks, worldVars
<1>7. CASE Decision \/ GatesOK \/ GatesFail \/ FinishRun \/ Shutdown \/ Exit \/ Crash
  BY <1>4, <1>7 DEF Decision, DeferForDependency, PassGate, CheckHashError, CheckUnchanged, settleReleasedHold, CheckPaused,
     CheckNotPaused, IsHeld, PreStartFails, PreStartOK, GatesOK, GatesFail, FinishRun, Shutdown,
     Exit, Crash, Restart, worldVars
<1> QED
  BY <1>1, <1>2, <1>3, <1>5, <1>6, <1>7 DEF Next, RunStep, Decision, Process

\* As long as HEAD can be read when a run ends, no rollback and no heal ever
\* brings up another version of a recorded stack than the recorded one.
THEOREM RestoresOnlyRecorded ==
    ASSUME HeadAlwaysRead
    PROVE  Spec => OnlyDeployedOrRecorded
<1>1. Init => BaseInv
  BY InitBase
<1>2. BaseInv /\ [Next]_vars => BaseInv'
  BY BaseStep
<1>3. BaseInv /\ [Next]_vars => [RestoreStep]_vars
  BY RestoreAction
<1>4. Spec => [][RestoreStep]_vars
  BY <1>1, <1>2, <1>3, PTL DEF Spec
<1> QED
  BY <1>4 DEF RestoreStep, OnlyDeployedOrRecorded

-----------------------------------------------------------------------------
(* A change is attempted only so often                                      *)

\* What a hold says of the failures before start that led to it: it has counted
\* them all as long as another attempt may follow by itself.
Counts(t, h) ==
    /\ t.fails <= preStartHoldAfter
    /\ t.fails # 0 => h.status # "none" /\ h.fp = t.fp
    /\ h.status = "backoff" => t.fails <= h.attempts /\ h.attempts < preStartHoldAfter

\* The holds that count: a run's own between its load and its end, the saved ones
\* otherwise.
HoldsCount ==
    /\ phase \notin Loop => \A s \in Stack : Counts(trail[s], diskHeld[s])
    /\ phase \in Loop => \A s \in Stack : Counts(trail[s], held[s])

\* The attempt under way is at the change the trail is about, and follows a failed
\* one only out of a backoff.
AttemptCounts ==
    phase \in Deploying =>
        /\ trail[Cur].fp = cur
        /\ trail[Cur].fails # 0 => held[Cur].status = "backoff"

\* A saved hold can be taken up at any time, without the trail of a run that was lost.
SavedCount == \A s \in Stack : Counts(NoTrail, diskHeld[s])

\* AttemptsBounded, made inductive.
CountInv == TypeInv /\ HoldsCount /\ SavedCount /\ AttemptCounts

\* A stack without failures counts with every hold a backoff of which is short of
\* the limit.
LEMMA NoTrailCounts ==
    ASSUME NEW h, h.status = "backoff" => h.attempts \in Nat /\ h.attempts < preStartHoldAfter
    PROVE  Counts(NoTrail, h)
BY BoundAssumption DEF Counts, NoTrail

\* Time does not change what a hold counts.
LEMMA SoonerCounts ==
    ASSUME NEW t, NEW h \in Hold, Counts(t, h) PROVE Counts(t, Sooner(h))
BY DEF Counts, Sooner

\* A failure before start is counted, and the last one allowed ends in a hold.
LEMMA PreStartCounts ==
    ASSUME NEW t \in Trail, NEW h \in Hold, NEW fp \in Inputs, NEW b \in BOOLEAN,
           elapsed \in Nat, Counts(t, h), t.fp = fp, t.fails # 0 => h.status = "backoff"
    PROVE  Counts([fp |-> fp, fails |-> t.fails + 1, gaveUp |-> b], recordPreStartFailure(h, fp))
<1> DEFINE counted == IF h.status # "none" /\ h.fp = fp THEN h.attempts + 1 ELSE 1
           attempts == IF counted < preStartHoldAfter THEN counted ELSE preStartHoldAfter
           r == recordPreStartFailure(h, fp)
<1>1. t.fails \in Nat /\ h.attempts \in Nat /\ preStartHoldAfter \in Nat \ {0}
  BY BoundAssumption DEF Trail, Hold
<1>2. t.fails + 1 <= preStartHoldAfter /\ t.fails + 1 <= counted /\ counted \in Nat
  BY <1>1 DEF Counts
<1>3. /\ r.fp = fp /\ r.status \in {"backoff", "held"}
      /\ r.status = "backoff" => r.attempts = attempts /\ attempts < preStartHoldAfter
  BY DEF recordPreStartFailure
<1>4. attempts < preStartHoldAfter => t.fails + 1 <= attempts
  BY <1>1, <1>2
<1> QED
  BY <1>1, <1>2, <1>3, <1>4 DEF Counts

\* At first nothing has failed.
LEMMA CountInit == Init => CountInv
<1> SUFFICES ASSUME Init PROVE HoldsCount /\ SavedCount /\ AttemptCounts
  BY InitType DEF CountInv
<1>1. \A s \in Stack : trail[s] = NoTrail /\ diskHeld[s] = NoHold /\ held[s] = NoHold
  BY DEF Init, NoHolds
<1>2. Counts(NoTrail, NoHold)
  BY NoTrailCounts DEF NoHold
<1> QED
  BY <1>1, <1>2 DEF Init, HoldsCount, SavedCount, AttemptCounts, Deploying

\* Nothing outside a run counts or forgets a failure.
LEMMA AsideCounts ==
    ASSUME CountInv, UNCHANGED <<phase, todo, cur, trail>>,
           \/ UNCHANGED <<held, diskHeld>>
           \/ /\ held' = [s \in Stack |-> Sooner(held[s])]
              /\ diskHeld' = [s \in Stack |-> Sooner(diskHeld[s])]
    PROVE  HoldsCount' /\ AttemptCounts'
<1> USE DEF CountInv, TypeInv, TypeOK, StateTypeOK, DiskTypeOK
<1>1. CASE UNCHANGED <<held, diskHeld>>
  BY <1>1 DEF HoldsCount, AttemptCounts, Cur
<1>2. CASE /\ held' = [s \in Stack |-> Sooner(held[s])]
           /\ diskHeld' = [s \in Stack |-> Sooner(diskHeld[s])]
  <2>1. HoldsCount'
    <3>1. ASSUME NEW s \in Stack, phase \notin Loop PROVE Counts(trail[s], Sooner(diskHeld[s]))
      BY <3>1, SoonerCounts DEF HoldsCount
    <3>2. ASSUME NEW s \in Stack, phase \in Loop PROVE Counts(trail[s], Sooner(held[s]))
      BY <3>2, SoonerCounts DEF HoldsCount
    <3> QED
      BY <1>2, <3>1, <3>2 DEF HoldsCount
  <2>2. AttemptCounts'
    <3> SUFFICES ASSUME phase \in Deploying, trail[Cur].fails # 0
                 PROVE  trail[Cur].fp = cur /\ held'[Cur].status = "backoff"
      BY DEF AttemptCounts, Cur
    <3>1. Cur \in Stack
      BY CurType DEF Deploying, Loop, Busy, RunTypeOK
    <3>2. held'[Cur] = Sooner(held[Cur])
      BY <1>2, <3>1
    <3>3. Sooner(held[Cur]).status = held[Cur].status
      BY <3>1 DEF Sooner
    <3> QED
      BY <3>2, <3>3 DEF AttemptCounts
  <2> QED
    BY <2>1, <2>2
<1> QED
  BY <1>1, <1>2

\* A run takes the holds over from the saved ones, and forgets both the hold and the
\* failures of a stack that is gone.
LEMMA StartCounts ==
    CountInv /\ (EnterRun \/ SyncOK \/ SyncRetry \/ SyncGiveUp \/ AbortRun \/ DeployAllStacks)
        => HoldsCount' /\ AttemptCounts'
<1> SUFFICES ASSUME CountInv,
                    EnterRun \/ SyncOK \/ SyncRetry \/ SyncGiveUp \/ AbortRun \/ DeployAllStacks
             PROVE  HoldsCount' /\ AttemptCounts'
  OBVIOUS
<1>1. CASE DeployAllStacks
  <2>1. PICK lost \in BOOLEAN : LoadState(lost)
    BY <1>1 DEF DeployAllStacks
  <2>2. phase = "load" /\ phase' = "stacks"
    BY <1>1 DEF DeployAllStacks
  <2>3. Counts(NoTrail, NoHold)
    BY NoTrailCounts DEF NoHold
  <2>4. ASSUME NEW s \in Stack PROVE Counts(trail'[s], held'[s])
    <3>1. \/ trail'[s] = NoTrail /\ held'[s] = NoHold
          \/ trail'[s] = trail[s] /\ held'[s] = diskHeld[s]
      BY <2>1 DEF LoadState, NoHolds
    <3> QED
      BY <2>2, <2>3, <3>1 DEF CountInv, HoldsCount, Loop, Busy
  <2> QED
    BY <2>2, <2>4 DEF HoldsCount, AttemptCounts, Loop, Deploying
<1>2. CASE ~DeployAllStacks
  <2>1. phase \notin Loop /\ phase' \notin Loop /\ UNCHANGED <<diskHeld, trail>>
    BY <1>2 DEF EnterRun, SyncAndDeployAll, TrySyncAndDeployAll, SyncOK, SyncRetry, SyncGiveUp,
       AbortRun, EndRun, Loop, Busy, diskVars
  <2> QED
    BY <2>1 DEF CountInv, HoldsCount, AttemptCounts, Loop, Busy, Deploying
<1> QED
  BY <1>1, <1>2

\* One stack's hold and trail change and the loop moves on.
LEMMA NextStackCounts ==
    ASSUME CountInv, phase \in Loop, phase' = "stacks", Cur \in Stack,
           NEW h, NEW t, Counts(t, h),
           held' = [held EXCEPT ![Cur] = h], trail' = [trail EXCEPT ![Cur] = t]
    PROVE  HoldsCount' /\ AttemptCounts'
<1>1. \A s \in Stack : Counts(trail'[s], held'[s])
  BY DEF CountInv, TypeInv, TypeOK, StateTypeOK, TrailTypeOK, HoldsCount
<1> QED
  BY <1>1 DEF HoldsCount, AttemptCounts, Loop, Deploying

\* An attempt starts at the change it is about, and counts on from a backoff only.
LEMMA AttemptStarts ==
    ASSUME CountInv, IsHeld, ~HeldBack(Cur) PROVE HoldsCount' /\ AttemptCounts'
<1> DEFINE asked == Cur \in retry
<1>1. /\ phase \in Loop /\ phase' = "apply" /\ Cur' = Cur /\ cur' = cur
      /\ held' = [held EXCEPT ![Cur] = KeptForAttempt(held[Cur])]
      /\ trail' = [trail EXCEPT ![Cur] = Attempt(trail[Cur], asked)]
  BY DEF IsHeld, Loop, Busy, Cur
<1>2. Cur \in Stack /\ cur \in Inputs
  BY <1>1, CurType DEF CountInv, TypeInv, TypeOK, RunTypeOK, IsHeld, Busy
<1>3. /\ held[Cur] \in Hold /\ trail[Cur] \in Trail
      /\ held'[Cur] = KeptForAttempt(held[Cur]) /\ trail'[Cur] = Attempt(trail[Cur], asked)
      /\ \A s \in Stack : s # Cur => held'[s] = held[s] /\ trail'[s] = trail[s]
  BY <1>1, <1>2 DEF CountInv, TypeInv, TypeOK, StateTypeOK, TrailTypeOK
<1>4. Counts(trail[Cur], held[Cur])
  BY <1>1, <1>2 DEF CountInv, HoldsCount
<1>5. Attempt(trail[Cur], asked).fp = cur
  BY DEF Attempt
<1>6. Attempt(trail[Cur], asked).fails # 0 =>
        /\ trail[Cur].fp = cur /\ Attempt(trail[Cur], asked).fails = trail[Cur].fails
        /\ ~asked /\ held[Cur].fp = cur /\ held[Cur].status # "none"
  BY <1>4 DEF Attempt, Counts
<1>7. Attempt(trail[Cur], asked).fails # 0 =>
        KeptForAttempt(held[Cur]) = held[Cur] /\ held[Cur].status = "backoff"
  BY <1>6 DEF KeptForAttempt, HeldBack, due
<1>8. Counts(Attempt(trail[Cur], asked), KeptForAttempt(held[Cur]))
  <2>1. CASE Attempt(trail[Cur], asked).fails # 0
    BY <1>4, <1>5, <1>6, <1>7, <2>1 DEF Counts
  <2>2. CASE Attempt(trail[Cur], asked).fails = 0
    BY <1>3, <1>4, <2>2, BoundAssumption DEF Counts, KeptForAttempt, NoHold, Hold
  <2> QED
    BY <2>1, <2>2
<1>9. HoldsCount'
  BY <1>1, <1>3, <1>8 DEF CountInv, HoldsCount, Loop, Busy
<1> QED
  BY <1>1, <1>3, <1>5, <1>7, <1>9 DEF AttemptCounts

\* Deciding about a stack keeps the counts.
LEMMA DecisionCounts == CountInv /\ Decision => HoldsCount' /\ AttemptCounts'
<1> SUFFICES ASSUME CountInv, Decision PROVE HoldsCount' /\ AttemptCounts'
  OBVIOUS
<1> USE DEF TypeInv, TypeOK, stateVars, diskVars
<1>1. phase \in Loop /\ Cur \in Stack
  BY CurType DEF CountInv, Decision, DeferForDependency, PassGate, CheckHashError, CheckUnchanged,
     CheckPaused, CheckNotPaused, IsHeld, PreStartFails, PreStartOK, RunTypeOK, Loop, Busy
<1>2. ASSUME phase' \in Loop \ Deploying, UNCHANGED <<held, trail>> PROVE HoldsCount' /\ AttemptCounts'
  BY <1>1, <1>2 DEF CountInv, HoldsCount, AttemptCounts
<1>3. CASE DeferForDependency \/ PassGate \/ CheckHashError \/ CheckPaused \/ CheckNotPaused
  BY <1>2, <1>3 DEF DeferForDependency, PassGate, CheckHashError, CheckPaused, CheckNotPaused,
     NextStack, Loop, Busy, Deploying
<1>4. CASE CheckUnchanged
  <2>1. CASE UNCHANGED <<held, trail>>
    BY <1>2, <1>4, <2>1 DEF CheckUnchanged, settleReleasedHold, NextStack, Loop, Deploying
  <2>2. CASE held' = [held EXCEPT ![Cur] = NoHold] /\ trail' = [trail EXCEPT ![Cur] = NoTrail]
    <3>1. Counts(NoTrail, NoHold)
      BY NoTrailCounts DEF NoHold
    <3> QED
      BY <1>1, <1>4, <2>2, <3>1, NextStackCounts DEF CheckUnchanged, settleReleasedHold, NextStack
  <2> QED
    BY <1>4, <2>1, <2>2 DEF CheckUnchanged, settleReleasedHold
<1>5. CASE IsHeld
  <2>1. CASE HeldBack(Cur)
    BY <1>2, <1>5, <2>1 DEF IsHeld, NextStack, Loop, Deploying
  <2> QED
    BY <1>5, <2>1, AttemptStarts
<1>6. CASE PreStartFails
  <2>1. CASE Cancelled
    BY <1>2, <1>6, <2>1 DEF PreStartFails, NextStack, Loop, Deploying
  <2>2. CASE ~Cancelled
    <3> DEFINE b == trail[Cur].gaveUp \/ held'[Cur].status = "held"
    <3>1. /\ held' = [held EXCEPT ![Cur] = recordPreStartFailure(held[Cur], cur)]
          /\ trail' = [trail EXCEPT ![Cur] = [fp |-> cur, fails |-> trail[Cur].fails + 1, gaveUp |-> b]]
          /\ phase' = "stacks"
      BY <1>6, <2>2 DEF PreStartFails, NextStack
    <3>2. /\ trail[Cur] \in Trail /\ held[Cur] \in Hold /\ cur \in Inputs /\ elapsed \in Nat
          /\ Counts(trail[Cur], held[Cur]) /\ trail[Cur].fp = cur
          /\ trail[Cur].fails # 0 => held[Cur].status = "backoff"
      BY <1>1, <1>6 DEF PreStartFails, CountInv, HoldsCount, AttemptCounts, Deploying, StateTypeOK,
         TrailTypeOK, RunTypeOK, Busy
    <3>3. Counts([fp |-> cur, fails |-> trail[Cur].fails + 1, gaveUp |-> b],
                 recordPreStartFailure(held[Cur], cur))
      <4>1. b \in BOOLEAN
        BY <3>2 DEF Trail
      <4> QED
        BY <3>2, <4>1, PreStartCounts
    <3> QED
      BY <1>1, <3>1, <3>3, NextStackCounts
  <2> QED
    BY <2>1, <2>2
<1>7. CASE PreStartOK
  BY <1>1, <1>7 DEF PreStartOK, CountInv, HoldsCount, AttemptCounts, Loop, Busy, Deploying, Cur
<1> QED
  BY <1>3, <1>4, <1>5, <1>6, <1>7 DEF Decision

\* A failure after start gives the change up with the failures it has; a success
\* forgets them.
LEMMA DeploymentCounts == CountInv /\ Deployment => HoldsCount' /\ AttemptCounts'
<1> SUFFICES ASSUME CountInv, Deployment PROVE HoldsCount' /\ AttemptCounts'
  OBVIOUS
<1> USE DEF TypeInv, TypeOK, stateVars, diskVars
<1>1. phase \in Loop /\ phase \in Deploying /\ Cur \in Stack /\ cur \in Inputs
  BY CurType DEF CountInv, Deployment, UpOK, UpFails, CanaryFails, GatesOK, GatesFail, RollbackStack,
     RunTypeOK, Loop, Busy, Deploying
<1>2. ASSUME HoldFailedVersion PROVE HoldsCount' /\ AttemptCounts'
  <2>1. Counts([fp |-> cur, fails |-> trail[Cur].fails, gaveUp |-> TRUE], afterStart(cur))
    BY <1>1 DEF CountInv, HoldsCount, Counts, afterStart
  <2> QED
    BY <1>1, <1>2, <2>1, NextStackCounts DEF HoldFailedVersion, NextStack
<1>3. ASSUME phase' \in Deploying, UNCHANGED <<held, trail, todo, cur>> PROVE HoldsCount' /\ AttemptCounts'
  BY <1>1, <1>3 DEF CountInv, HoldsCount, AttemptCounts, Loop, Busy, Deploying, Cur
<1>4. CASE GatesOK
  <2>1. Counts(NoTrail, NoHold)
    BY NoTrailCounts DEF NoHold
  <2> QED
    BY <1>1, <1>4, <2>1, NextStackCounts DEF GatesOK, NextStack
<1>5. CASE UpOK
  BY <1>3, <1>5 DEF UpOK, Deploying
<1>6. CASE UpFails \/ CanaryFails \/ GatesFail \/ RollbackStack
  BY <1>2, <1>3, <1>6 DEF UpFails, CanaryFails, GatesFail, RollbackStack, RollBackFailedDeploy, Deploying
<1> QED
  BY <1>4, <1>5, <1>6 DEF Deployment

\* A run that saves its holds leaves them with the trail; one that does not, or that
\* a crash cuts short, leaves no trail of what it tried.
LEMMA ProcessCounts == CountInv /\ (FinishRun \/ Process) => HoldsCount' /\ AttemptCounts'
<1> SUFFICES ASSUME CountInv, FinishRun \/ Process PROVE HoldsCount' /\ AttemptCounts'
  OBVIOUS
<1> USE DEF TypeInv, TypeOK, diskVars, runVars, stateVars
<1>2. CASE FinishRun
  <2>1. phase \in Loop /\ phase' = "idle"
    BY <1>2 DEF FinishRun, EndRun, Loop
  <2>2. CASE diskHeld' = held /\ trail' = trail
    BY <2>1, <2>2 DEF CountInv, HoldsCount, AttemptCounts, Loop, Busy, Deploying
  <2>3. CASE trail' = [s \in Stack |-> NoTrail] /\ UNCHANGED diskHeld
    BY <2>1, <2>3 DEF CountInv, HoldsCount, SavedCount, AttemptCounts, Loop, Busy, Deploying
  <2> QED
    BY <1>2, <2>2, <2>3 DEF FinishRun
<1>3. CASE Exit \/ Crash
  <2>1. phase' = "idle" /\ UNCHANGED diskHeld
    BY <1>3 DEF Exit, Crash, Restart, EndRun
  <2>2. \A s \in Stack : Counts(trail'[s], diskHeld[s])
    BY <1>3 DEF Exit, Crash, CountInv, HoldsCount, SavedCount, Loop, Busy
  <2> QED
    BY <2>1, <2>2 DEF HoldsCount, AttemptCounts, Loop, Busy, Deploying
<1>4. CASE (\E s \in Stack : HealStack(s)) \/ Shutdown
  BY <1>4, AsideCounts DEF HealStack, Shutdown
<1> QED
  BY <1>2, <1>3, <1>4 DEF Process

\* What is saved counts.
LEMMA SavedStep == CountInv /\ [Next]_vars => SavedCount'
<1> SUFFICES ASSUME CountInv, [Next]_vars PROVE SavedCount'
  OBVIOUS
<1> USE DEF CountInv, TypeInv, TypeOK, diskVars
<1>1. CASE UNCHANGED diskHeld
  BY <1>1 DEF SavedCount
<1>2. CASE Tick
  <2>1. \A s \in Stack : diskHeld[s] \in Hold /\ diskHeld'[s] = Sooner(diskHeld[s])
    BY <1>2 DEF Tick, DiskTypeOK
  <2> QED
    BY <2>1, SoonerCounts DEF SavedCount
<1>3. CASE FinishRun
  <2>1. \A s \in Stack : held[s] \in Hold /\ Counts(trail[s], held[s])
    BY <1>3 DEF FinishRun, HoldsCount, StateTypeOK, Loop
  <2>2. \A s \in Stack : Counts(NoTrail, held[s])
    <3> SUFFICES ASSUME NEW s \in Stack PROVE Counts(NoTrail, held[s])
      OBVIOUS
    <3>1. held[s].status = "backoff" => held[s].attempts \in Nat /\ held[s].attempts < preStartHoldAfter
      BY <2>1 DEF Hold, Counts
    <3> QED
      BY <3>1, NoTrailCounts
  <2> QED
    BY <1>1, <1>3, <2>2 DEF FinishRun, SavedCount
<1>4. CASE Environment
  BY <1>1, <1>2, <1>4 DEF Environment, Push, EnvChange, Webhook, SetAutosync, RequestRetry
<1>5. CASE EnterRun \/ SyncOK \/ SyncRetry \/ SyncGiveUp \/ AbortRun \/ DeployAllStacks
  BY <1>1, <1>5 DEF EnterRun, SyncAndDeployAll, TrySyncAndDeployAll, SyncOK, SyncRetry, SyncGiveUp,
     AbortRun, DeployAllStacks
<1>6. CASE Decision
  BY <1>1, <1>6 DEF Decision, DeferForDependency, PassGate, CheckHashError, CheckUnchanged, CheckPaused,
     CheckNotPaused, IsHeld, PreStartFails, PreStartOK
<1>7. CASE Deployment
  BY <1>1, <1>7 DEF Deployment, UpOK, UpFails, CanaryFails, GatesOK, GatesFail, RollbackStack
<1>8. CASE Process
  BY <1>1, <1>8 DEF Process, HealStack, Shutdown, Exit, Crash, Restart
<1>9. CASE UNCHANGED vars
  BY <1>1, <1>9 DEF vars
<1> QED
  BY <1>3, <1>4, <1>5, <1>6, <1>7, <1>8, <1>9 DEF Next, RunStep, Decision, Deployment

\* Every step keeps the counts.
LEMMA CountStep == CountInv /\ [Next]_vars => CountInv'
<1> SUFFICES ASSUME CountInv, [Next]_vars PROVE CountInv'
  OBVIOUS
<1>1. TypeInv' /\ SavedCount'
  BY TypeStep, SavedStep DEF CountInv
<1>2. CASE Next
  <2>1. CASE Environment
    <3>1. UNCHANGED <<phase, todo, cur, trail>>
      BY <2>1 DEF Environment, Push, EnvChange, Tick, Webhook, SetAutosync, RequestRetry, runVars
    <3>2. UNCHANGED <<held, diskHeld>> \/ Tick
      BY <2>1 DEF Environment, Push, EnvChange, Webhook, SetAutosync, RequestRetry, diskVars, stateVars
    <3> QED
      BY <1>1, <3>1, <3>2, AsideCounts DEF Tick, CountInv
  <2> QED
    BY <1>1, <1>2, <2>1, StartCounts, DecisionCounts, DeploymentCounts, ProcessCounts
       DEF CountInv, Next, RunStep, Decision, Deployment
<1>3. CASE UNCHANGED vars
  BY <1>1, <1>3, AsideCounts DEF CountInv, vars, diskVars, stateVars, runVars
<1> QED
  BY <1>2, <1>3

\* Within one count a change that fails before its containers start fails at most
\* preStartHoldAfter times (recordPreStartFailure, isHeld), whatever pauses, blocked
\* dependencies, failing syncs, shutdowns and restarts lie between the attempts.  What
\* ends a count is said at AttemptsBounded: a revert and a lost state among others.
THEOREM AttemptsAreBounded == Spec => []AttemptsBounded
<1>1. Init => CountInv
  BY CountInit
<1>2. CountInv /\ [Next]_vars => CountInv'
  BY CountStep
<1>3. CountInv => AttemptsBounded
  BY DEF CountInv, HoldsCount, Counts, AttemptsBounded
<1> QED
  BY <1>1, <1>2, <1>3, PTL DEF Spec
-----------------------------------------------------------------------------
(* No change is lost track of                                               *)

\* orderStacks leaves no stack out (see StackOrderProofs).
OrderComplete == \A S \in SUBSET Stack : \A s \in S : \E k \in 1 .. Len(Order[S]) : Order[S][k] = s

\* What EveryChangeAccounted asks of a stack.
Accounted(s) ==
    \/ rec[s] # None /\ rec[s].compose = log[head][s]
    \/ s \in queue
    \/ held[s].status # "none" /\ held[s].fp.compose = log[head][s]

\* EveryChangeAccounted, made inductive: a stack that is not accounted for yet is
\* still to come, and the inputs under way are those of HEAD.
StacksAccounted ==
    phase \in Loop =>
        /\ cur # None => cur.compose = log[head][Cur]
        /\ ~Cancelled => \A s \in DeploySet : Accounted(s) \/ \E k \in 1 .. Len(todo) : todo[k] = s

\* The stack under way is accounted for, no other entry changes, and the loop moves on.
LEMMA NextStackAccounted ==
    ASSUME TypeInv, StacksAccounted, phase \in Loop, NEW o, NextStack(o), todo # <<>>,
           UNCHANGED <<log, head, ctx, stopping>>,
           \A s \in Stack : s # Cur =>
              rec'[s] = rec[s] /\ held'[s] = held[s] /\ (s \in queue => s \in queue'),
           \A s \in Stack : s = Cur /\ ~Cancelled => Accounted(s)'
    PROVE  StacksAccounted'
<1> USE DEF TypeInv, TypeOK
<1>1. DeploySet' = DeploySet /\ Cancelled' = Cancelled
  BY SameTree DEF Cancelled
<1>2. /\ Len(todo') = Len(todo) - 1 /\ Len(todo) \in Nat \ {0}
      /\ \A k \in 1 .. Len(todo') : todo'[k] = todo[k + 1]
      /\ Cur = todo[1]
  BY DEF NextStack, Cur
<1>3. ASSUME NEW s \in DeploySet, ~Cancelled
      PROVE  Accounted(s)' \/ \E k \in 1 .. Len(todo') : todo'[k] = s
  <2>1. CASE s = Cur
    BY <1>3, <2>1 DEF DeploySet, Discovered
  <2>2. CASE s # Cur /\ Accounted(s)
    BY <2>2 DEF Accounted, DeploySet, Discovered
  <2>3. CASE s # Cur /\ ~Accounted(s)
    <3>1. PICK k \in 1 .. Len(todo) : todo[k] = s
      BY <1>3, <2>3 DEF StacksAccounted
    <3>2. k - 1 \in 1 .. Len(todo') /\ k = (k - 1) + 1
      BY <1>2, <2>3, <3>1
    <3>3. todo'[k - 1] = s
      BY <1>2, <3>1, <3>2
    <3> QED
      BY <3>2, <3>3
  <2> QED
    BY <2>1, <2>2, <2>3
<1> QED
  BY <1>1, <1>3 DEF StacksAccounted, NextStack

\* Steps that leave the loop's records alone.
LEMMA AsideAccounted ==
    ASSUME StacksAccounted, UNCHANGED <<head, phase, todo, cur, rec, queue>>,
           \A s \in Stack : held'[s].status = held[s].status /\ held'[s].fp = held[s].fp,
           phase \in Loop => log'[head] = log[head],
           Cancelled => Cancelled'
    PROVE  StacksAccounted'
<1>1. CASE phase \in Loop
  <2>1. DeploySet' = DeploySet /\ log'[head] = log[head]
    BY <1>1, SameTree
  <2>2. \A s \in DeploySet : Accounted(s) => Accounted(s)'
    BY <2>1 DEF Accounted, DeploySet, Discovered
  <2> QED
    BY <1>1, <2>1, <2>2 DEF StacksAccounted, Cur
<1>2. CASE phase \notin Loop
  BY <1>2 DEF StacksAccounted
<1> QED
  BY <1>1, <1>2

\* The environment takes no record away, and moves no HEAD.
LEMMA EnvironmentAccounted == TypeInv /\ StacksAccounted /\ Environment => StacksAccounted'
<1> SUFFICES ASSUME TypeInv, StacksAccounted, Environment PROVE StacksAccounted'
  OBVIOUS
<1> USE DEF TypeInv, TypeOK
<1>1. UNCHANGED <<head, phase, todo, cur, rec, queue, stopping, ctx>>
  BY DEF Environment, Push, EnvChange, Tick, Webhook, SetAutosync, RequestRetry, stateVars, runVars, sharedVars
<1>2. \A s \in Stack : held'[s].status = held[s].status /\ held'[s].fp = held[s].fp
  <2>1. CASE Tick
    BY <2>1 DEF Tick, Sooner
  <2>2. CASE held' = held
    BY <2>2
  <2> QED
    BY <2>1, <2>2 DEF Environment, Push, EnvChange, Webhook, SetAutosync, RequestRetry, stateVars
<1>3. phase \in Loop => log'[head] = log[head]
  <2>1. CASE \E s \in Stack, c \in Content : Push(s, c)
    BY <2>1, PushKeeps DEF LoopOK, WorldTypeOK
  <2>2. CASE log' = log
    BY <2>2
  <2> QED
    BY <2>1, <2>2 DEF Environment, EnvChange, Tick, Webhook, SetAutosync, RequestRetry, worldVars
<1> QED
  BY <1>1, <1>2, <1>3, AsideAccounted DEF Cancelled

\* A run has every stack that deploys still to come.
LEMMA StartAccounted ==
    OrderComplete /\ TypeInv /\ StacksAccounted
        /\ (EnterRun \/ SyncOK \/ SyncRetry \/ SyncGiveUp \/ AbortRun \/ DeployAllStacks)
        => StacksAccounted'
<1> SUFFICES ASSUME OrderComplete, TypeInv, StacksAccounted,
                    EnterRun \/ SyncOK \/ SyncRetry \/ SyncGiveUp \/ AbortRun \/ DeployAllStacks
             PROVE  StacksAccounted'
  OBVIOUS
<1>1. CASE DeployAllStacks
  <2>1. UNCHANGED <<log, head>> /\ todo' = Order[DeploySet] /\ cur' = cur /\ phase = "load"
    BY <1>1 DEF DeployAllStacks, worldVars
  <2>2. DeploySet' = DeploySet /\ DeploySet \in SUBSET Stack
    BY <2>1, SameTree DEF DeploySet, Discovered
  <2>3. cur = None
    BY <2>1 DEF TypeInv, TypeOK, RunTypeOK, Busy
  <2> QED
    BY <2>1, <2>2, <2>3 DEF StacksAccounted, OrderComplete
<1>2. CASE ~DeployAllStacks
  <2>1. phase' \in {"idle", "sync", "load"}
    BY <1>2 DEF EnterRun, SyncAndDeployAll, TrySyncAndDeployAll, SyncOK, SyncRetry, SyncGiveUp,
       AbortRun, EndRun
  <2> QED
    BY <2>1 DEF StacksAccounted, Loop, Busy
<1> QED
  BY <1>1, <1>2

\* Every way past a stack leaves it recorded, queued or held.
LEMMA DecisionAccounted ==
    "hash" \notin Faults /\ TypeInv /\ StacksAccounted /\ Decision => StacksAccounted'
<1> SUFFICES ASSUME "hash" \notin Faults, TypeInv, StacksAccounted, Decision PROVE StacksAccounted'
  OBVIOUS
<1> USE DEF TypeInv, TypeOK, worldVars, sharedVars, stateVars
<1>1. /\ UNCHANGED <<log, env, head, rec, stopping>>
      /\ phase \in Loop /\ todo # <<>> /\ Cur \in Stack
      /\ Current(Cur).compose = log[head][Cur]
  BY CurType DEF Decision, DeferForDependency, PassGate, CheckHashError, CheckUnchanged, CheckPaused,
     CheckNotPaused, IsHeld, PreStartFails, PreStartOK, RunTypeOK, Loop, Busy, Current
<1>2. ASSUME NEW o, NextStack(o),
             \A s \in Stack : s # Cur => held'[s] = held[s] /\ (s \in queue => s \in queue'),
             \A s \in Stack : s = Cur /\ ~Cancelled => Accounted(s)'
      PROVE  StacksAccounted'
  BY <1>1, <1>2, NextStackAccounted DEF NextStack
<1>3. CASE DeferForDependency \/ CheckPaused
  BY <1>2, <1>3 DEF DeferForDependency, CheckPaused, Accounted
<1>4. CASE CheckHashError
  BY <1>2, <1>4 DEF CheckHashError, HashError
<1>5. CASE CheckUnchanged
  <2>1. rec[Cur] # None /\ rec[Cur].compose = log[head][Cur]
    BY <1>1, <1>5 DEF CheckUnchanged, changedFiles
  <2>2. \A s \in Stack : s # Cur => held'[s] = held[s] /\ (s \in queue => s \in queue')
    BY <1>1, <1>5 DEF CheckUnchanged, settleReleasedHold, StateTypeOK
  <2> QED
    BY <1>1, <1>2, <1>5, <2>1, <2>2 DEF CheckUnchanged, settleReleasedHold, Accounted
<1>6. ASSUME UNCHANGED <<todo, ctx>>, phase' \in Busy, cur' # None => cur'.compose = log[head][Cur],
             \A s \in Stack : s # Cur => held'[s] = held[s] /\ (s \in queue => s \in queue')
      PROVE  StacksAccounted'
  <2>1. DeploySet' = DeploySet /\ Cancelled' = Cancelled /\ Cur' = Cur
    BY <1>1, <1>6, SameTree DEF Cancelled, Cur
  <2>2. Cur = todo[1] /\ 1 \in 1 .. Len(todo)
    BY <1>1 DEF Cur
  <2>3. \A s \in DeploySet : s # Cur /\ Accounted(s) => Accounted(s)'
    BY <1>1, <1>6 DEF Accounted, DeploySet, Discovered
  <2> QED
    BY <1>1, <1>6, <2>1, <2>2, <2>3 DEF StacksAccounted
<1>7. CASE PassGate
  BY <1>1, <1>6, <1>7 DEF PassGate, StacksAccounted, Busy
<1>8. CASE CheckNotPaused
  BY <1>1, <1>6, <1>8 DEF CheckNotPaused, Busy
<1>9. CASE IsHeld
  <2>1. cur # None /\ cur.compose = log[head][Cur]
    BY <1>1, <1>9 DEF IsHeld, RunTypeOK, Busy, StacksAccounted
  <2>2. CASE HeldBack(Cur)
    BY <1>1, <1>2, <1>9, <2>1, <2>2 DEF IsHeld, HeldBack, Accounted
  <2>3. CASE ~HeldBack(Cur)
    <3>1. \A s \in Stack : s # Cur => held'[s] = held[s]
      BY <1>9, <2>3 DEF IsHeld, StateTypeOK
    <3> QED
      BY <1>6, <1>9, <2>1, <2>3, <3>1 DEF IsHeld, Busy
  <2> QED
    BY <2>2, <2>3
<1>10. CASE PreStartFails
  <2>1. cur # None /\ cur.compose = log[head][Cur]
    BY <1>1, <1>10 DEF PreStartFails, RunTypeOK, Busy, StacksAccounted
  <2>2. \A s \in Stack : s # Cur => held'[s] = held[s]
    BY <1>10 DEF PreStartFails, StateTypeOK
  <2>3. ~Cancelled => held'[Cur].status # "none" /\ held'[Cur].fp = cur
    BY <1>1, <1>10 DEF PreStartFails, StateTypeOK, recordPreStartFailure
  <2> QED
    BY <1>1, <1>2, <1>10, <2>1, <2>2, <2>3 DEF PreStartFails, Accounted
<1>11. CASE PreStartOK
  BY <1>1, <1>6, <1>11 DEF PreStartOK, StacksAccounted, Busy
<1> QED
  BY <1>3, <1>4, <1>5, <1>7, <1>8, <1>9, <1>10, <1>11 DEF Decision

\* A deploy records the version of HEAD, or holds it.
LEMMA DeploymentAccounted == TypeInv /\ StacksAccounted /\ Deployment => StacksAccounted'
<1> SUFFICES ASSUME TypeInv, StacksAccounted, Deployment PROVE StacksAccounted'
  OBVIOUS
<1> USE DEF TypeInv, TypeOK, worldVars, sharedVars, stateVars
<1>1. /\ UNCHANGED <<log, env, head, stopping, queue>>
      /\ phase \in Loop /\ todo # <<>> /\ Cur \in Stack
      /\ cur # None /\ cur.compose = log[head][Cur]
  BY CurType DEF Deployment, UpOK, UpFails, CanaryFails, GatesOK, GatesFail, RollbackStack, RunTypeOK,
     Loop, Busy, StacksAccounted
<1>2. ASSUME HoldFailedVersion PROVE StacksAccounted'
  <2>1. /\ held'[Cur].status # "none" /\ held'[Cur].fp = cur
        /\ \A s \in Stack : s # Cur => held'[s] = held[s]
    BY <1>1, <1>2 DEF HoldFailedVersion, StateTypeOK, afterStart
  <2>2. \A s \in Stack : s = Cur /\ ~Cancelled => Accounted(s)'
    BY <1>1, <2>1 DEF Accounted
  <2> QED
    BY <1>1, <1>2, <2>1, <2>2, NextStackAccounted DEF HoldFailedVersion, NextStack
<1>3. CASE GatesOK
  <2>1. /\ rec'[Cur] = cur
        /\ \A s \in Stack : s # Cur => held'[s] = held[s] /\ rec'[s] = rec[s]
    BY <1>1, <1>3 DEF GatesOK, StateTypeOK
  <2>2. \A s \in Stack : s = Cur /\ ~Cancelled => Accounted(s)'
    BY <1>1, <2>1 DEF Accounted
  <2> QED
    BY <1>1, <1>3, <2>1, <2>2, NextStackAccounted DEF GatesOK, NextStack
<1>4. ASSUME UNCHANGED <<todo, ctx, cur, stateVars>>, phase' \in Busy PROVE StacksAccounted'
  <2>1. DeploySet' = DeploySet /\ Cancelled' = Cancelled /\ Cur' = Cur
    BY <1>1, <1>4, SameTree DEF Cancelled, Cur
  <2>2. \A s \in DeploySet : Accounted(s)' = Accounted(s)
    BY <1>1, <1>4 DEF Accounted
  <2> QED
    BY <1>1, <1>4, <2>1, <2>2 DEF StacksAccounted
<1>5. CASE UpOK
  BY <1>4, <1>5 DEF UpOK, Busy
<1>6. CASE UpFails \/ CanaryFails \/ GatesFail \/ RollbackStack
  BY <1>2, <1>4, <1>6 DEF UpFails, CanaryFails, GatesFail, RollbackStack, RollBackFailedDeploy, Busy
<1> QED
  BY <1>3, <1>5, <1>6 DEF Deployment

\* Every step keeps the stacks accounted for.
LEMMA AccountedStep ==
    OrderComplete /\ "hash" \notin Faults /\ TypeInv /\ StacksAccounted /\ [Next]_vars
        => StacksAccounted'
<1> SUFFICES ASSUME OrderComplete, "hash" \notin Faults, TypeInv, StacksAccounted, [Next]_vars
             PROVE  StacksAccounted'
  OBVIOUS
<1>1. CASE FinishRun \/ Exit \/ Crash
  <2>1. phase' = "idle"
    BY <1>1 DEF FinishRun, Exit, Crash, Restart, EndRun
  <2> QED
    BY <2>1 DEF StacksAccounted, Loop, Busy
<1>2. CASE (\E s \in Stack : HealStack(s)) \/ Shutdown \/ UNCHANGED vars
  BY <1>2, AsideAccounted DEF HealStack, Shutdown, vars, worldVars, sharedVars, stateVars, runVars, Cancelled
<1> QED
  BY <1>1, <1>2, EnvironmentAccounted, StartAccounted, DecisionAccounted, DeploymentAccounted
     DEF Next, RunStep, Process, Decision, Deployment

\* When a run that no shutdown has cut short ends, every stack that deploys is
\* recorded at HEAD, queued or held for it: no way through the loop - paused, blocked,
\* held, failed, rolled back - and no push or toggle meanwhile loses a change.
THEOREM ChangesAccountedUnlessCancelled ==
    ASSUME OrderComplete, "hash" \notin Faults
    PROVE  Spec => [](Cancelled \/ EveryChangeAccounted)
<1>1. Init => TypeInv /\ StacksAccounted
  BY InitType DEF Init, StacksAccounted, Loop, Busy
<1>2. TypeInv /\ StacksAccounted /\ [Next]_vars => (TypeInv /\ StacksAccounted)'
  BY TypeStep, AccountedStep
<1>3. TypeInv /\ StacksAccounted => Cancelled \/ EveryChangeAccounted
  BY DEF StacksAccounted, EveryChangeAccounted, Accounted, Loop
<1> QED
  BY <1>1, <1>2, <1>3, PTL DEF Spec

\* Where the service manager does not stop the process, none of its runs is cut short.
LEMMA NotStopping ==
    ASSUME "shutdown" \notin Faults PROVE Spec => []~stopping
<1>1. Init => ~stopping
  BY DEF Init
<1>2. ~stopping /\ [Next]_vars => ~stopping'
  <2> SUFFICES ASSUME ~stopping, [Next]_vars PROVE ~stopping'
    OBVIOUS
  <2>1. CASE Environment
    BY <2>1 DEF Environment, Push, EnvChange, Tick, Webhook, SetAutosync, RequestRetry, sharedVars
  <2>2. CASE EnterRun \/ SyncOK \/ SyncRetry \/ SyncGiveUp \/ AbortRun \/ DeployAllStacks
    BY <2>2 DEF EnterRun, SyncAndDeployAll, TrySyncAndDeployAll, SyncOK, SyncRetry, SyncGiveUp,
       AbortRun, DeployAllStacks, sharedVars
  <2>3. CASE Decision
    BY <2>3 DEF Decision, DeferForDependency, PassGate, CheckHashError, CheckUnchanged, CheckPaused,
       CheckNotPaused, IsHeld, PreStartFails, PreStartOK, sharedVars
  <2>4. CASE Deployment \/ FinishRun
    BY <2>4 DEF Deployment, UpOK, UpFails, CanaryFails, GatesOK, GatesFail, RollbackStack, FinishRun, sharedVars
  <2>5. CASE Process
    BY <2>5 DEF Process, HealStack, Shutdown, Exit, Crash, Restart, sharedVars
  <2>6. CASE UNCHANGED vars
    BY <2>6 DEF vars, sharedVars
  <2> QED
    BY <2>1, <2>2, <2>3, <2>4, <2>5, <2>6 DEF Next, RunStep, Decision, Deployment
<1> QED
  BY <1>1, <1>2, PTL DEF Spec

\* As long as its inputs can be hashed and no shutdown cuts it short, a run ends with
\* every change recorded, queued or held.
THEOREM ChangesAreAccounted ==
    ASSUME OrderComplete, "hash" \notin Faults, "shutdown" \notin Faults
    PROVE  Spec => []EveryChangeAccounted
<1>1. ~stopping => ~Cancelled
  BY DEF Cancelled
<1> QED
  BY <1>1, ChangesAccountedUnlessCancelled, NotStopping, PTL

-----------------------------------------------------------------------------
(* A stack waits for the ones it depends on *)

\* What the gate rests on: orderStacks places every stack it is given, after
\* the ones it depends on (StackOrder shows when it does); the inputs of a
\* stack can be hashed, and all lie in the repository, so that the look-ahead
\* and the deploy see the same ones.
DependencyOrder ==
    /\ OrderComplete
    /\ \A S \in SUBSET Stack : \A j, k \in 1 .. Len(Order[S]) :
            Order[S][j] \in DependsOn[Order[S][k]] => j < k

InputsInRepository == \A e, f \in Env : e = f

GateAssumption ==
    /\ DependencyOrder
    /\ InputsInRepository
    /\ "hash" \notin Faults

\* The gate knows every stack of the tree that is not settled: excluded ones
\* are blocked, and one it lets pass is settled or still to come.
GateOK ==
    phase \in Loop =>
        /\ \A s \in StackErrors : gate[s] = "blocked"
        /\ \A s \in DeploySet : gate[s] = "ready" =>
              s \in settled \/ \E k \in 1 .. Len(todo) : todo[k] = s
        /\ \A j, k \in 1 .. Len(todo) : todo[j] \in DependsOn[todo[k]] => j < k

\* The stack under way passed the gate, or is not going to deploy.
PassedOK ==
    /\ phase = "check" =>
          decide(Cur) = "ready" \/ Cancelled \/ ~changedFiles(Current(Cur), rec[Cur])
    /\ phase \in Busy \ {"check"} => decide(Cur) = "ready"

\* DependentWaits, made inductive.
WaitInv == TypeInv /\ GateOK /\ PassedOK

\* Before the first run nothing is let through.
LEMMA WaitInit == Init => WaitInv
BY InitType DEF Init, WaitInv, GateOK, PassedOK, Loop, Busy

\* A stack that passed the gate has all its dependencies settled.
LEMMA WaitInvImplies == WaitInv => DependentWaits
<1> SUFFICES ASSUME WaitInv, phase \in Deploying, NEW d \in DependsOn[Cur]
             PROVE  d \in settled
  BY DEF DependentWaits
<1> USE DEF WaitInv, TypeInv, TypeOK
<1>1. phase \in Loop /\ phase \in Busy \ {"check"} /\ todo # <<>>
  BY DEF Deploying, Loop, Busy, RunTypeOK
<1>2. Cur \in DeploySet /\ Cur = todo[1] /\ 1 \in 1 .. Len(todo) /\ Cur \in Stack
  BY <1>1 DEF LoopOK, RunTypeOK, Cur
<1>3. d \in Discovered
  BY <1>2 DEF DeploySet, StackErrors, invalidDependency
<1>4. gate[d] = "ready"
  <2>1. decide(Cur) = "ready"
    BY <1>1 DEF PassedOK
  <2>2. d \in Stack
    BY <1>3 DEF Discovered
  <2>3. gate[d] \in {"ready", "queued", "blocked"}
    BY <2>2 DEF RunTypeOK
  <2> QED
    BY <2>1, <2>3 DEF decide
<1>5. d \in DeploySet
  BY <1>1, <1>3, <1>4 DEF GateOK, DeploySet
<1>6. \A k \in 1 .. Len(todo) : todo[k] # d
  BY <1>1, <1>2 DEF GateOK
<1> QED
  BY <1>1, <1>4, <1>5, <1>6 DEF GateOK

\* Moving on to the next stack: only a stack that has settled is let pass.
LEMMA NextStackGate ==
    ASSUME TypeInv, GateOK, phase \in Loop, todo # <<>>,
           NEW o \in {"ready", "queued", "blocked"}, NextStack(o),
           UNCHANGED <<log, head>>, settled \subseteq settled',
           o = "ready" => Cur \in settled'
    PROVE  GateOK'
<1> USE DEF TypeInv, TypeOK
<1>1. DeploySet' = DeploySet /\ StackErrors' = StackErrors
  BY DEF DeploySet, Discovered, StackErrors, invalidDependency
<1>2. /\ Len(todo') = Len(todo) - 1 /\ Len(todo) \in Nat \ {0}
      /\ \A k \in 1 .. Len(todo') : todo'[k] = todo[k + 1]
      /\ Cur = todo[1]
  BY DEF NextStack, RunTypeOK, Cur
<1>3. Cur \in DeploySet /\ Cur \in Stack
  BY <1>2 DEF LoopOK, DeploySet, Discovered
<1>4. gate' = [gate EXCEPT ![Cur] = o] /\ gate \in [Stack -> {"ready", "queued", "blocked"}]
  BY DEF NextStack, RunTypeOK
<1>5. \A s \in StackErrors : gate'[s] = "blocked"
  BY <1>3, <1>4 DEF GateOK, DeploySet, StackErrors, Discovered
<1>6. ASSUME NEW s \in DeploySet, gate'[s] = "ready"
      PROVE  s \in settled' \/ \E k \in 1 .. Len(todo') : todo'[k] = s
  <2>1. CASE s = Cur
    BY <2>1, <1>3, <1>4, <1>6
  <2>2. CASE s # Cur /\ s \notin settled
    <3>1. gate[s] = "ready"
      BY <1>4, <1>6, <2>2 DEF DeploySet, Discovered
    <3>2. PICK k \in 1 .. Len(todo) : todo[k] = s
      BY <3>1, <2>2 DEF GateOK
    <3>3. k - 1 \in 1 .. Len(todo') /\ k = (k - 1) + 1
      BY <1>2, <2>2, <3>2
    <3>4. todo'[k - 1] = s
      BY <1>2, <3>2, <3>3
    <3> QED
      BY <3>3, <3>4
  <2> QED
    BY <2>1, <2>2
<1>7. \A j, k \in 1 .. Len(todo') : todo'[j] \in DependsOn[todo'[k]] => j < k
  <2> SUFFICES ASSUME NEW j \in 1 .. Len(todo'), NEW k \in 1 .. Len(todo'),
                      todo'[j] \in DependsOn[todo'[k]]
               PROVE  j < k
    OBVIOUS
  <2>1. j + 1 \in 1 .. Len(todo) /\ k + 1 \in 1 .. Len(todo)
        /\ todo[j + 1] \in DependsOn[todo[k + 1]]
    BY <1>2
  <2>2. j + 1 < k + 1
    BY <2>1 DEF GateOK
  <2> QED
    BY <2>2
<1> QED
  BY <1>1, <1>5, <1>6, <1>7 DEF GateOK

\* Steps that leave the loop's own variables alone.
LEMMA AsideGate ==
    ASSUME GateOK, PassedOK, UNCHANGED <<head, phase, todo, gate, settled, rec, env>>,
           phase \in Loop => log'[head] = log[head],
           Cancelled => Cancelled'
    PROVE  GateOK' /\ PassedOK'
<1>1. CASE phase \in Loop
  <2>1. DeploySet' = DeploySet /\ StackErrors' = StackErrors
    BY <1>1 DEF DeploySet, Discovered, StackErrors, invalidDependency
  <2>2. Cur' = Cur /\ decide(Cur)' = decide(Cur) /\ Current(Cur)' = Current(Cur)
    BY <1>1 DEF Cur, decide, Current
  <2>3. GateOK'
    BY <1>1, <2>1 DEF GateOK
  <2>4. PassedOK'
    BY <1>1, <2>2 DEF PassedOK, changedFiles
  <2> QED
    BY <2>3, <2>4
<1>2. CASE phase \notin Loop
  BY <1>2 DEF GateOK, PassedOK, Loop, Busy
<1> QED
  BY <1>1, <1>2

\* The environment cannot open the gate: the inputs of a stack lie in the repository,
\* and HEAD moves only at the start of a run.
LEMMA EnvironmentGate ==
    InputsInRepository /\ WaitInv /\ Environment => GateOK' /\ PassedOK'
<1> SUFFICES ASSUME InputsInRepository, WaitInv, Environment
             PROVE  GateOK' /\ PassedOK'
  OBVIOUS
<1> USE DEF WaitInv, TypeInv, TypeOK, worldVars, diskVars, sharedVars, stateVars, runVars
<1>1. env' = env
  <2>1. \A s \in Stack : env[s] \in Env
    BY DEF WorldTypeOK
  <2>2. ~ \E s \in Stack, e \in Env : EnvChange(s, e)
    BY <2>1 DEF EnvChange, InputsInRepository
  <2> QED
    BY <2>2 DEF Environment, Push, Tick, Webhook, SetAutosync, RequestRetry
<1>2. UNCHANGED <<head, phase, todo, gate, settled, rec, stopping, ctx>>
  BY DEF Environment, Push, EnvChange, Tick, Webhook, SetAutosync, RequestRetry
<1>3. phase \in Loop => log'[head] = log[head]
  <2>1. CASE \E s \in Stack, c \in Content : Push(s, c)
    BY <2>1, PushKeeps DEF LoopOK, WorldTypeOK
  <2>2. CASE log' = log
    BY <2>2
  <2> QED
    BY <2>1, <2>2 DEF Environment, EnvChange, Tick, Webhook, SetAutosync, RequestRetry
<1> QED
  BY <1>1, <1>2, <1>3, AsideGate DEF Cancelled

\* A run starts with nothing settled and every stack that deploys still to come.
LEMMA StartGate ==
    DependencyOrder /\ WaitInv
        /\ (EnterRun \/ SyncOK \/ SyncRetry \/ SyncGiveUp \/ AbortRun \/ DeployAllStacks)
        => GateOK' /\ PassedOK'
<1> SUFFICES ASSUME DependencyOrder, WaitInv,
                    EnterRun \/ SyncOK \/ SyncRetry \/ SyncGiveUp \/ AbortRun \/ DeployAllStacks
             PROVE  GateOK' /\ PassedOK'
  OBVIOUS
<1> USE DEF WaitInv, TypeInv, TypeOK, worldVars, diskVars, sharedVars, stateVars, runVars
<1>1. CASE DeployAllStacks
  <2>1. /\ UNCHANGED <<log, head>> /\ phase' = "stacks" /\ settled' = {}
        /\ todo' = Order[DeploySet]
        /\ gate' = [s \in Stack |-> IF s \in StackErrors THEN "blocked" ELSE "ready"]
    BY <1>1 DEF DeployAllStacks
  <2>2. DeploySet' = DeploySet /\ StackErrors' = StackErrors
    BY <2>1 DEF DeploySet, Discovered, StackErrors, invalidDependency
  <2>3. StackErrors \subseteq Stack /\ DeploySet \in SUBSET Stack
    BY DEF StackErrors, DeploySet, Discovered
  <2>4. GateOK'
    BY <2>1, <2>2, <2>3 DEF GateOK, DependencyOrder, OrderComplete
  <2>5. PassedOK'
    BY <2>1 DEF PassedOK, Busy
  <2> QED
    BY <2>4, <2>5
<1>2. CASE ~DeployAllStacks
  <2>1. phase' \in {"idle", "sync", "load"}
    BY <1>2 DEF EnterRun, SyncAndDeployAll, TrySyncAndDeployAll, SyncOK, SyncRetry, SyncGiveUp,
       AbortRun, EndRun
  <2> QED
    BY <2>1 DEF GateOK, PassedOK, Loop, Busy
<1> QED
  BY <1>1, <1>2

\* The decisions about a stack: it goes on to deploy only past a ready gate.
LEMMA DecisionGate ==
    "hash" \notin Faults /\ WaitInv /\ Decision => GateOK' /\ PassedOK'
<1> SUFFICES ASSUME "hash" \notin Faults, WaitInv, Decision
             PROVE  GateOK' /\ PassedOK'
  OBVIOUS
<1> USE DEF WaitInv, TypeInv, TypeOK, worldVars, diskVars, sharedVars, stateVars
<1>a. /\ UNCHANGED <<log, env, head, rec, stopping>>
      /\ phase \in Loop /\ todo # <<>>
  BY DEF Decision, DeferForDependency, PassGate, CheckHashError, CheckUnchanged, CheckPaused,
     CheckNotPaused, IsHeld, PreStartFails, PreStartOK, RunTypeOK, Loop, Busy
<1>b. decide(Cur) \in {"ready", "queued", "blocked"}
  BY DEF decide
<1>1. ASSUME NEW o \in {"ready", "queued", "blocked"}, NextStack(o),
             settled \subseteq settled', o = "ready" => Cur \in settled'
      PROVE  GateOK' /\ PassedOK'
  <2>1. GateOK'
    BY <1>1, <1>a, NextStackGate
  <2>2. PassedOK'
    BY <1>1 DEF NextStack, PassedOK, Busy
  <2> QED
    BY <2>1, <2>2
<1>2. CASE DeferForDependency
  BY <1>1, <1>2, <1>b DEF DeferForDependency
<1>3. CASE CheckHashError \/ CheckPaused \/ PreStartFails
  BY <1>1, <1>3 DEF CheckHashError, CheckPaused, PreStartFails
<1>4. CASE CheckUnchanged
  BY <1>1, <1>4 DEF CheckUnchanged, settleReleasedHold
<1>5. ASSUME UNCHANGED <<todo, gate, settled>>, phase' \in Busy
      PROVE  GateOK' /\ decide(Cur)' = decide(Cur)
  <2>1. DeploySet' = DeploySet /\ StackErrors' = StackErrors
    BY <1>a DEF DeploySet, Discovered, StackErrors, invalidDependency
  <2>2. GateOK'
    BY <1>a, <1>5, <2>1 DEF GateOK
  <2>3. decide(Cur)' = decide(Cur)
    BY <1>5 DEF decide, Cur
  <2> QED
    BY <2>2, <2>3
<1>6. CASE PassGate
  <2>1. phase' = "check" /\ UNCHANGED <<todo, gate, settled, ctx>>
    BY <1>6 DEF PassGate
  <2>2. Cur' = Cur /\ Current(Cur)' = Current(Cur) /\ Cancelled' = Cancelled
    BY <1>a, <2>1 DEF Cur, Current, Cancelled
  <2>3. decide(Cur) = "ready" \/ Cancelled \/ ~changedFiles(Current(Cur), rec[Cur])
    BY <1>6 DEF PassGate, HashError
  <2>4. PassedOK'
    BY <2>1, <2>2, <2>3, <1>a, <1>5 DEF PassedOK, changedFiles, Busy
  <2> QED
    BY <1>5, <2>1, <2>4 DEF Busy
<1>7. CASE CheckNotPaused \/ PreStartOK
  <2>1. phase' \in Busy \ {"check"} /\ UNCHANGED <<todo, gate, settled>>
    BY <1>7 DEF CheckNotPaused, PreStartOK, Busy
  <2>2. decide(Cur) = "ready"
    BY <1>7 DEF CheckNotPaused, PreStartOK, PassedOK, HashOK, Busy
  <2> QED
    BY <1>5, <2>1, <2>2 DEF PassedOK
<1>8. CASE IsHeld
  <2>1. CASE HeldBack(Cur)
    BY <1>1, <1>8, <2>1 DEF IsHeld
  <2>2. CASE ~HeldBack(Cur)
    <3>1. phase' = "apply" /\ UNCHANGED <<todo, gate, settled>>
      BY <1>8, <2>2 DEF IsHeld
    <3>2. decide(Cur) = "ready"
      BY <1>8 DEF IsHeld, PassedOK, Busy
    <3> QED
      BY <1>5, <3>1, <3>2 DEF PassedOK, Busy
  <2> QED
    BY <2>1, <2>2
<1> QED
  BY <1>2, <1>3, <1>4, <1>6, <1>7, <1>8 DEF Decision

\* A deploy opens the gate for its dependents only when it settles the stack.
LEMMA DeploymentGate == WaitInv /\ Deployment => GateOK' /\ PassedOK'
<1> SUFFICES ASSUME WaitInv, Deployment PROVE GateOK' /\ PassedOK'
  OBVIOUS
<1> USE DEF WaitInv, TypeInv, TypeOK, diskVars, sharedVars, stateVars, worldVars
<1>a. /\ UNCHANGED <<log, env, head, stopping>>
      /\ phase \in Loop /\ phase \in Busy \ {"check"} /\ todo # <<>>
  BY DEF Deployment, UpOK, UpFails, CanaryFails, GatesOK, GatesFail, RollbackStack, RollBackFailedDeploy,
     HoldFailedVersion, RunTypeOK, Loop, Busy
<1>1. CASE \E o \in {"ready", "blocked"} : NextStack(o) /\ settled \subseteq settled'
                                            /\ (o = "ready" => Cur \in settled')
  <2>1. GateOK'
    BY <1>1, <1>a, NextStackGate
  <2>2. PassedOK'
    BY <1>1 DEF NextStack, PassedOK, Busy
  <2> QED
    BY <2>1, <2>2
<1>2. CASE phase' \in Busy \ {"check"} /\ UNCHANGED <<todo, gate, settled>>
  <2>1. DeploySet' = DeploySet /\ StackErrors' = StackErrors
    BY <1>a DEF DeploySet, Discovered, StackErrors, invalidDependency
  <2>2. GateOK'
    BY <1>a, <1>2, <2>1 DEF GateOK
  <2>3. PassedOK'
    BY <1>a, <1>2 DEF PassedOK, decide, Cur
  <2> QED
    BY <2>2, <2>3
<1> QED
  BY <1>1, <1>2 DEF Deployment, UpOK, UpFails, CanaryFails, GatesOK, GatesFail, RollbackStack,
     RollBackFailedDeploy, HoldFailedVersion, Busy

\* A run that ends, or a process that stops, forgets what the gate decided.
LEMMA ProcessGate == WaitInv /\ (FinishRun \/ Process) => GateOK' /\ PassedOK'
<1> SUFFICES ASSUME WaitInv, FinishRun \/ Process PROVE GateOK' /\ PassedOK'
  OBVIOUS
<1> USE DEF WaitInv, TypeInv, TypeOK, worldVars, diskVars, sharedVars, stateVars, runVars
<1>1. CASE FinishRun \/ Exit \/ Crash
  <2>1. phase' = "idle"
    BY <1>1 DEF FinishRun, Exit, Crash, Restart, EndRun
  <2> QED
    BY <2>1 DEF GateOK, PassedOK, Loop, Busy
<1>2. CASE (\E s \in Stack : HealStack(s)) \/ Shutdown
  <2>1. UNCHANGED <<log, env, head, phase, todo, gate, settled, rec, ctx>>
        /\ (stopping => stopping')
    BY <1>2 DEF HealStack, Shutdown
  <2> QED
    BY <2>1, AsideGate DEF Cancelled
<1> QED
  BY <1>1, <1>2 DEF Process

\* Every step keeps the gate's decisions true.
LEMMA WaitStep == GateAssumption /\ WaitInv /\ [Next]_vars => WaitInv'
<1> SUFFICES ASSUME GateAssumption, WaitInv, [Next]_vars PROVE WaitInv'
  OBVIOUS
<1>1. TypeInv'
  BY TypeStep DEF WaitInv
<1>2. CASE UNCHANGED vars
  <2>1. GateOK' /\ PassedOK'
    BY <1>2, AsideGate DEF WaitInv, vars, worldVars, sharedVars, stateVars, runVars, Cancelled
  <2> QED
    BY <1>1, <2>1 DEF WaitInv
<1>3. CASE Next
  <2>1. GateOK' /\ PassedOK'
    BY <1>3, EnvironmentGate, StartGate, DecisionGate, DeploymentGate, ProcessGate
       DEF GateAssumption, Next, RunStep, Decision, Deployment
  <2> QED
    BY <1>1, <2>1 DEF WaitInv
<1> QED
  BY <1>2, <1>3

\* With an order that places dependencies first, and with inputs that lie in the
\* repository and can be hashed, a run deploys a stack only when it has brought
\* every stack it depends on to its desired state: whatever fails, is paused,
\* held, excluded or interrupted, and whatever is pushed meanwhile.
THEOREM DependentsWait ==
    ASSUME GateAssumption
    PROVE  Spec => []DependentWaits
<1>1. Init => WaitInv
  BY WaitInit
<1>2. WaitInv /\ [Next]_vars => WaitInv'
  BY WaitStep
<1>3. WaitInv => DependentWaits
  BY WaitInvImplies
<1> QED
  BY <1>1, <1>2, <1>3, PTL DEF Spec
=============================================================================
