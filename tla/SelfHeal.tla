------------------------------ MODULE SelfHeal ------------------------------
(***************************************************************************)
(* The self-heal engine (internal/selfheal) on the poller's goroutine, with *)
(* the deploys it shares the deploy mutex with: Observe prunes, evaluates   *)
(* every stack of the snapshot, and runs HealStack outside its own lock, so *)
(* a deploy can reset the stack's budget while a heal is on its way.        *)
(***************************************************************************)
EXTENDS Poller

CONSTANTS
    minPolls,       \* min_unhealthy_polls
    maxAttempts,    \* self-heal redeploys per outage
    cooldown,       \* ticks between two of them
    MaxRuns,        \* bound: deploy runs
    MaxUpsets       \* bound: changes of the effective stacks and restarts

\* The engine's memory of an outage, and a heal on its way.
StackState ==
    [degraded : 0..minPolls, healthy : 0..minPolls, attempts : 0..maxAttempts,
     cool : 0..cooldown, exhausted : BOOLEAN, declined : BOOLEAN]
HealState == [stack : Stack, at : {"decided", "locked", "ran"}]

ASSUME SelfHealAssumption ==
    /\ minPolls \in Nat \ {0}
    /\ maxAttempts \in Nat \ {0}
    /\ cooldown \in Nat
    /\ MaxRuns \in Nat /\ MaxUpsets \in Nat
    /\ None \notin Stack \cup StackState \cup HealState

VARIABLES
    states,     \* states[s]: the engine's stackState of an outage, or None
    todo,       \* stacks of the snapshot still to be evaluated
    heal,       \* the heal under way: [stack, at], or None
    mutex,      \* the deploy mutex: "free", "deploy" or "heal"
    pending,    \* stacks with a change in an input other than the compose file
    heals,      \* heals[s]: heals run since s recovered, was reset or forgotten
    calm,       \* calm[s]: healthy snapshots of s since its last degraded one
    event,      \* what this step reported: [kind, stack], or None
    runs, upsets    \* counted for the bounds

engineVars == <<states, todo, heal, heals, calm>>
worldVars == <<mutex, pending, runs, upsets>>
vars == <<pollerVars, engineVars, event, worldVars>>

fresh == [degraded |-> 0, healthy |-> 0, attempts |-> 0, cool |-> 0,
          exhausted |-> FALSE, declined |-> FALSE]

-----------------------------------------------------------------------------
(* What the engine makes of a snapshot.                                    *)

onDemandIdle(v, status) == v \in OnDemand /\ status = "stopped"

\* Idle on-demand containers are no drift: re-roll the others.
selfHealStatus(sh) ==
    LET relevant == {v \in DOMAIN sh.services : ~onDemandIdle(v, sh.services[v])}
    IN  IF DOMAIN sh.services = {} THEN sh.status
        ELSE IF relevant = {} THEN "healthy"
        ELSE rollup({sh.services[v] : v \in relevant})

\* Unknown is never degraded: a failed read triggers no redeploy.
classify(status) ==
    CASE status = "healthy" -> "recovered"
      [] status \in {"unhealthy", "stopped"} -> "degraded"
      [] OTHER -> "ignore"

category(s) == classify(selfHealStatus(snap[s]))

-----------------------------------------------------------------------------
(* Observe.                                                                *)

\* The poll hands the snapshot over; prune forgets the stacks it does not name.
Observe(readable) ==
    /\ pollOnce(readable)
    /\ todo' = refs
    /\ states' = [s \in Stack |-> IF s \in refs THEN states[s] ELSE None]
    /\ heals' = [s \in Stack |-> IF s \in refs THEN heals[s] ELSE 0]
    /\ event' = None
    /\ UNCHANGED <<heal, calm, worldVars>>

\* Every stack is evaluated: the sink returns, and the next poll may start.
Observed ==
    /\ Busy /\ todo = {} /\ heal = None
    /\ snap' = None
    /\ event' = None
    /\ UNCHANGED <<containers, refs, ticker, trigger, engineVars, worldVars>>

Evaluating(s) == heal = None /\ s \in todo
Evaluated(s) ==
    /\ todo' = todo \ {s}
    /\ UNCHANGED <<pollerVars, worldVars>>

current(s) == IF states[s] = None THEN fresh ELSE states[s]

\* Ghosts: minPolls healthy snapshots with no degraded one between them end an
\* outage, whatever the engine remembers of it.  Starting and unreadable ones in
\* between count neither way, as in evaluate's ignore case; its documentation
\* (docs/configuration.md:741, selfheal.go:44-47 and 237-239) asks for consecutive
\* polls, so this is the outage of the code, which can end sooner than theirs.
SeenHealthy(s) ==
    /\ calm' = [calm EXCEPT ![s] = IF @ < minPolls THEN @ + 1 ELSE @]
    /\ heals' = [heals EXCEPT ![s] = IF calm'[s] = minPolls THEN 0 ELSE @]

\* evaluate: nothing to track, or starting/unknown: keep the state.
Wait(s) ==
    /\ Evaluating(s)
    /\ \/ category(s) = "ignore"
       \/ category(s) = "recovered" /\ states[s] = None
    /\ event' = None
    /\ IF category(s) = "recovered" THEN SeenHealthy(s) ELSE UNCHANGED <<calm, heals>>
    /\ Evaluated(s)
    /\ UNCHANGED <<states, heal>>

\* Faulty variant: the first healthy poll ends an outage.
RecoveredAtOnce(s) ==
    /\ Evaluating(s)
    /\ category(s) = "recovered" /\ states[s] # None
    /\ states' = [states EXCEPT ![s] = None]
    /\ event' = IF states[s].attempts > 0 /\ ~states[s].exhausted
                THEN [kind |-> "healed", stack |-> s] ELSE None
    /\ SeenHealthy(s)
    /\ Evaluated(s)
    /\ UNCHANGED heal

\* evaluate: the outage ends after minPolls healthy polls; healed is reported
\* for an outage that was redeployed and not given up.
Recovered(s) ==
    /\ Evaluating(s)
    /\ category(s) = "recovered" /\ states[s] # None
    /\ LET st == [states[s] EXCEPT !.degraded = 0, !.healthy = @ + 1]
           ended == st.healthy >= minPolls
       IN  /\ states' = [states EXCEPT ![s] = IF ended THEN None ELSE st]
           /\ event' = IF ended /\ st.attempts > 0 /\ ~st.exhausted
                       THEN [kind |-> "healed", stack |-> s] ELSE None
    /\ SeenHealthy(s)
    /\ Evaluated(s)
    /\ UNCHANGED heal

\* Faulty variant: a relapse keeps the healthy polls before it.
CountedHealthy(s) ==
    LET st == current(s)
    IN  IF st.exhausted \/ st.degraded = minPolls THEN st ELSE [st EXCEPT !.degraded = @ + 1]

\* evaluate: degraded.  Exhausted stacks are left alone; a stack degraded for
\* minPolls is given up, or still cooling, or healed outside the lock.
counted(s) ==
    LET st == [current(s) EXCEPT !.healthy = 0]
    IN  IF st.exhausted \/ st.degraded = minPolls THEN st ELSE [st EXCEPT !.degraded = @ + 1]
persistent(st) == ~st.exhausted /\ st.degraded >= minPolls
givenUp(st) == persistent(st) /\ st.attempts >= maxAttempts

healNow(st) == persistent(st) /\ st.attempts < maxAttempts /\ st.cool = 0

Degraded(s) ==
    /\ Evaluating(s)
    /\ category(s) = "degraded"
    /\ LET st == counted(s)
       IN  /\ states' = [states EXCEPT ![s] = [st EXCEPT !.exhausted = @ \/ givenUp(st)]]
           /\ event' = IF givenUp(st) THEN [kind |-> "exhausted", stack |-> s] ELSE None
           /\ heal' = IF healNow(st) THEN [stack |-> s, at |-> "decided"] ELSE None
    /\ calm' = [calm EXCEPT ![s] = 0]
    /\ Evaluated(s)
    /\ UNCHANGED heals

-----------------------------------------------------------------------------
(* HealStack, and what the engine does with its answer.                    *)

\* Faulty variant: a heal skipped for a busy mutex counts as an attempt.
SkipCounted ==
    /\ heal # None /\ heal.at = "decided"
    /\ mutex # "free"
    /\ heal' = None
    /\ states' = [states EXCEPT ![heal.stack] =
                    IF @ = None THEN None ELSE [@ EXCEPT !.attempts = @ + 1]]
    /\ event' = None
    /\ UNCHANGED <<pollerVars, todo, heals, calm, worldVars>>

\* TryLock fails: a deploy is in progress, the heal is skipped.
SkipBusy ==
    /\ heal # None /\ heal.at = "decided"
    /\ mutex # "free"
    /\ heal' = None
    /\ event' = None
    /\ UNCHANGED <<pollerVars, states, todo, heals, calm, worldVars>>

LockMutex ==
    /\ heal # None /\ heal.at = "decided"
    /\ mutex = "free"
    /\ mutex' = "heal"
    /\ heal' = [heal EXCEPT !.at = "locked"]
    /\ event' = None
    /\ UNCHANGED <<pollerVars, states, todo, heals, calm, pending, runs, upsets>>

\* ErrHealDeferred: the deployed version cannot be reproduced.  logSkipped.
Deferred ==
    /\ heal # None /\ heal.at = "locked"
    /\ heal.stack \in pending
    /\ mutex' = "free"
    /\ heal' = None
    /\ states' = [states EXCEPT ![heal.stack] =
                    IF @ = None THEN None ELSE [@ EXCEPT !.declined = TRUE]]
    /\ event' = None
    /\ UNCHANGED <<pollerVars, todo, heals, calm, pending, runs, upsets>>

\* compose up of the deployed version, or an error on the way to it: the heal
\* ran either way.  The containers end up as they may.
RunHeal ==
    /\ heal # None /\ heal.at = "locked"
    /\ heal.stack \notin pending
    /\ \E c \in Containers : containers' = [containers EXCEPT ![heal.stack] = c]
    /\ mutex' = "free"
    /\ heal' = [heal EXCEPT !.at = "ran"]
    /\ heals' = [heals EXCEPT ![heal.stack] = @ + 1]
    /\ event' = None
    /\ UNCHANGED <<refs, ticker, trigger, snap, states, todo, calm, pending,
                   runs, upsets>>

\* Back under the engine's lock: count the attempt if the state is still there.
CountAttempt ==
    /\ heal # None /\ heal.at = "ran"
    /\ LET st == states[heal.stack]
       IN  states' = [states EXCEPT ![heal.stack] =
                        IF st = None THEN None
                        ELSE [st EXCEPT !.attempts = st.attempts + 1, !.cool = cooldown]]
    /\ heal' = None
    /\ event' = None
    /\ UNCHANGED <<pollerVars, todo, heals, calm, worldVars>>

-----------------------------------------------------------------------------
(* Deploys, and the rest of the world.                                     *)

\* Reset: the deploying event of a stack clears its state.
Reset(s) ==
    /\ states' = [states EXCEPT ![s] = None]
    /\ heals' = [heals EXCEPT ![s] = 0]

StartRun ==
    /\ mutex = "free" /\ runs < MaxRuns
    /\ mutex' = "deploy"
    /\ runs' = runs + 1
    /\ event' = None
    /\ UNCHANGED <<pollerVars, engineVars, pending, upsets>>

\* A stack's deploy starts under the mutex; a run may deploy several, or none.
DeployStack(s) ==
    /\ mutex = "deploy"
    /\ Reset(s)
    /\ pending' \in {pending, pending \ {s}}
    /\ event' = None
    /\ UNCHANGED <<pollerVars, todo, heal, calm, mutex, runs, upsets>>

\* PostRunHook asks the poller for a fresh snapshot.
EndRun ==
    /\ mutex = "deploy"
    /\ mutex' = "free"
    /\ RequestPoll
    /\ event' = None
    /\ UNCHANGED <<containers, refs, ticker, snap, engineVars, pending, runs, upsets>>

\* A push, pause or hold leaves a change pending, or it is gone again.
PendingChanges(s) ==
    /\ mutex = "free"
    /\ pending' = IF s \in pending THEN pending \ {s} ELSE pending \cup {s}
    /\ event' = None
    /\ UNCHANGED <<pollerVars, engineVars, mutex, runs, upsets>>

\* Faulty variant: the cooldown never ends.
TickWithoutCooldown ==
    /\ ticker' = TRUE
    /\ event' = None
    /\ UNCHANGED <<containers, refs, trigger, snap, engineVars, worldVars>>

\* The clock: a tick of the poll interval brings every cooldown closer to its end.
Tick ==
    /\ ticker' = TRUE
    /\ states' = [s \in Stack |-> IF states[s] = None \/ states[s].cool = 0 THEN states[s]
                                  ELSE [states[s] EXCEPT !.cool = @ - 1]]
    /\ event' = None
    /\ UNCHANGED <<containers, refs, trigger, snap, todo, heal, heals, calm, worldVars>>

World(s) ==
    \/ /\ ContainersChange(s)
       /\ event' = None
       /\ UNCHANGED <<engineVars, worldVars>>
    \/ /\ upsets < MaxUpsets
       /\ StackSetChanges(s)
       /\ upsets' = upsets + 1
       /\ event' = None
       /\ UNCHANGED <<engineVars, mutex, pending, runs>>

\* The engine keeps its state in memory only.
Restart ==
    /\ upsets < MaxUpsets
    /\ upsets' = upsets + 1
    /\ states' = [s \in Stack |-> None]
    /\ heals' = [s \in Stack |-> 0]
    /\ calm' = [s \in Stack |-> 0]
    /\ todo' = {} /\ heal' = None /\ mutex' = "free"
    /\ snap' = None /\ ticker' = FALSE /\ trigger' = FALSE
    /\ event' = None
    /\ UNCHANGED <<containers, refs, pending, runs>>

-----------------------------------------------------------------------------
Init ==
    /\ PollerInit
    /\ states = [s \in Stack |-> None]
    /\ todo = {} /\ heal = None /\ mutex = "free"
    /\ pending = {}
    /\ heals = [s \in Stack |-> 0]
    /\ calm = [s \in Stack |-> 0]
    /\ event = None
    /\ runs = 0 /\ upsets = 0

Poll == \E readable \in SUBSET refs : Observe(readable)
Evaluate == \E s \in Stack : Wait(s) \/ Recovered(s) \/ Degraded(s)
Heal == SkipBusy \/ LockMutex \/ Deferred \/ RunHeal \/ CountAttempt

Next ==
    \/ Poll \/ Observed \/ Evaluate \/ Heal
    \/ StartRun \/ EndRun \/ Tick \/ Restart
    \/ \E s \in Stack : DeployStack(s) \/ PendingChanges(s) \/ World(s)

Spec == Init /\ [][Next]_vars

\* The ticker never stops, the poller's goroutine runs, a deploy run ends
\* because each of its commands has a timeout, and docker answers now and then.
Fairness ==
    /\ WF_vars(Tick) /\ WF_vars(Poll) /\ WF_vars(Observed)
    /\ WF_vars(Evaluate) /\ WF_vars(Heal) /\ WF_vars(EndRun)
    /\ SF_vars(Observe(refs))
FairSpec == Spec /\ Fairness

-----------------------------------------------------------------------------
(* Properties.                                                             *)

\* Between two deploys, recoveries or restarts a stack is redeployed at most
\* maxAttempts times, plus one heal decided before the deploy that reset it: fewer
\* than minPolls healthy polls since the last degraded one give no fresh budget, and
\* a heal that runs while its stack's state is cleared is not counted twice
\* (evaluate, Reset).  A recovery is minPolls healthy polls with no degraded one
\* between them; they need not be consecutive (see SeenHealthy).
HealBudget == \A s \in Stack : heals[s] <= maxAttempts + 1

\* A stack is given up only after maxAttempts heals really ran: a heal skipped
\* for a busy mutex or declined for a pending change leaves the budget alone.
ExhaustedAfterHeals ==
    [][(event' # None /\ event'.kind = "exhausted") =>
            /\ heals[event'.stack] >= maxAttempts
            /\ ~states[event'.stack].exhausted]_vars

\* A heal is reported only for a stack that was redeployed in this outage, was
\* not given up, and has been seen healthy minPolls times since it was last seen
\* degraded, with ignored polls between or not: a redeploy that exits 0 is no heal.
HealedIsReal ==
    [][(event' # None /\ event'.kind = "healed") =>
            /\ heals[event'.stack] > 0
            /\ calm'[event'.stack] >= minPolls
            /\ ~states[event'.stack].exhausted]_vars

\* A stack that stays degraded, is still managed and has nothing pending is in
\* the end given up or redeployed until it recovers: it is never retried forever
\* and never forgotten.
StaysDown(s) ==
    /\ s \in refs /\ s \notin pending
    /\ classify(selfHealStatus(health(containers[s]))) = "degraded"
DegradedIsGivenUp ==
    \A s \in Stack : <>[]StaysDown(s) => <>[](states[s] # None /\ states[s].exhausted)
=============================================================================
