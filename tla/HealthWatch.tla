---------------------------- MODULE HealthWatch ----------------------------
(***************************************************************************)
(* The health watchdog (internal/healthwatch) on the poller's snapshots: it *)
(* debounces every service's status into accepted phases, alerts on newly  *)
(* failed and recovered services, limits repeated alerts by a cooldown, and *)
(* keeps phases and delivery records in healthwatch.yaml.                   *)
(*                                                                         *)
(* A phase history is its newest status and whether there is an older one;  *)
(* times are the ticks left of a cooldown; two polls never fall into the    *)
(* same second.  Commit and deploy correlation only word the alert.        *)
(***************************************************************************)
EXTENDS Poller

CONSTANTS
    debounce,       \* polls a new status must persist
    alertCooldown,  \* ticks between two alerts of a service and direction; 0: off
    Faults,         \* subset of {"save", "crash", "corrupt"}
    MaxFaults       \* bound: failed saves and restarts of skipper

ASSUME WatchAssumption ==
    /\ debounce \in Nat \ {0}
    /\ alertCooldown \in Nat
    /\ Faults \subseteq {"save", "crash", "corrupt"}
    /\ MaxFaults \in Nat

VARIABLES
    hist,       \* hist[s][v]: [cur, older] of a known service, or None
    pend,       \* pend[s][v]: [status, count] of a change not yet accepted, or None
    rec,        \* rec[s][v]: the alert record
    dirty,      \* memory holds something the next Observe has to save
    disk,       \* healthwatch.yaml: [hist, rec]
    saving,     \* Observe has worked through the snapshot and is to save
    faults,     \* counted for the bound
    fired,      \* alerts fired by this step: [stack, service, to]
    picture,    \* picture[s][v]: status named by the last alert fired, or None
    quiet,      \* quiet[s][v][d]: ticks until an alert in direction d may repeat
    streak,     \* streak[s][v]: latest status seen and how many readable polls it held
    lost        \* a restart lost what memory held beyond the file

memory == <<hist, pend, rec, dirty>>
ghosts == <<picture, quiet, streak, lost>>
watchVars == <<pollerVars, memory, disk, saving, faults, fired, ghosts>>

Direction == {"unhealthy", "healthy"}
noAlerts == [left |-> [d \in Direction |-> 0], last |-> None, suppressed |-> FALSE]
known(s) == {v \in Service : hist[s][v] # None}

-----------------------------------------------------------------------------
(* What one snapshot shows of a service: nothing if the probe failed or the *)
(* service is neither listed nor known, stopped if a known one is missing.  *)
observed(s, v) ==
    IF s \notin DOMAIN snap \/ (s \in DOMAIN snap /\ snap[s].status = "unknown") THEN None
    ELSE IF v \in DOMAIN snap[s].services THEN snap[s].services[v]
    ELSE IF v \in known(s) THEN "stopped" ELSE None

changed(s, v) == observed(s, v) # None /\ v \in known(s) /\ observed(s, v) # hist[s][v].cur

count(s, v) ==
    IF pend[s][v] # None /\ pend[s][v].status = observed(s, v) THEN pend[s][v].count + 1 ELSE 1

baseline(s, v) == observed(s, v) # None /\ v \notin known(s)
accepted(s, v) == changed(s, v) /\ count(s, v) >= debounce

\* observe: the phase history and the pending change after this snapshot.
histAfter(s, v) ==
    IF baseline(s, v) \/ accepted(s, v)
    THEN [cur |-> observed(s, v), older |-> accepted(s, v)] ELSE hist[s][v]

\* Faulty variant: a poll at the accepted status does not reset the debounce.
PendKept(s, v) ==
    IF observed(s, v) = None \/ baseline(s, v) \/ ~changed(s, v) THEN pend[s][v]
    ELSE IF accepted(s, v) THEN None
    ELSE [status |-> observed(s, v), count |-> count(s, v)]

pendAfter(s, v) ==
    IF observed(s, v) = None \/ baseline(s, v) THEN pend[s][v]
    ELSE IF ~changed(s, v) \/ accepted(s, v) THEN None
    ELSE [status |-> observed(s, v), count |-> count(s, v)]

\* History: a readable poll lengthens the streak, up to debounce, or starts a new one.
streakAfter(s, v) ==
    LET n == streak[s][v].polls
        grown == IF n < debounce THEN n + 1 ELSE n
    IN  IF observed(s, v) = None THEN streak[s][v]
        ELSE [status |-> observed(s, v),
              polls |-> IF observed(s, v) = streak[s][v].status THEN grown ELSE 1]

-----------------------------------------------------------------------------
(* Alerts: [rec, to] is the record after a decision and what was fired.     *)

inCooldown(r, to) == alertCooldown > 0 /\ r.left[to] > 0

\* Faulty variant: a delivery does not start the cooldown.
DeliverUnrecorded(r, to) ==
    [rec |-> [r EXCEPT !.last = to, !.suppressed = FALSE], to |-> {to}]

deliver(r, to) ==
    [rec |-> IF alertCooldown = 0 THEN r
             ELSE [left |-> [r.left EXCEPT ![to] = alertCooldown], last |-> to, suppressed |-> FALSE],
     to |-> {to}]

\* Newly failed and directly recovered services page, the others are silent.
alertWorthy(from, to) == to = "unhealthy" \/ (from = "unhealthy" /\ to = "healthy")

onAccept(s, v) ==
    LET r == rec[s][v]
        to == observed(s, v)
    IN  IF ~accepted(s, v) \/ ~alertWorthy(hist[s][v].cur, to) THEN [rec |-> r, to |-> {}]
        ELSE IF inCooldown(r, to) THEN [rec |-> [r EXCEPT !.suppressed = TRUE], to |-> {}]
        ELSE deliver(r, to)

\* Only a status that differs from the last alert delivered is still owed.
owed(r, cur) ==
    \/ cur = "unhealthy" /\ r.last # "unhealthy"
    \/ cur = "healthy" /\ r.last = "unhealthy"

\* Faulty variant: a suppressed alert still cooling is forgotten.
CatchUpOnce(r, h) ==
    IF alertCooldown = 0 \/ ~r.suppressed \/ ~h.older THEN [rec |-> r, to |-> {}]
    ELSE IF ~owed(r, h.cur) \/ inCooldown(r, h.cur) THEN [rec |-> [r EXCEPT !.suppressed = FALSE], to |-> {}]
    ELSE deliver(r, h.cur)

\* catchUpStack: a suppressed alert is resolved, still cooling, or delivered late.
catchUp(r, h) ==
    IF alertCooldown = 0 \/ ~r.suppressed \/ ~h.older THEN [rec |-> r, to |-> {}]
    ELSE IF ~owed(r, h.cur) THEN [rec |-> [r EXCEPT !.suppressed = FALSE], to |-> {}]
    ELSE IF inCooldown(r, h.cur) THEN [rec |-> r, to |-> {}]
    ELSE deliver(r, h.cur)

reading(s) == s \in DOMAIN snap /\ snap[s].status # "unknown"

alerts(s, v) ==
    LET first == onAccept(s, v)
        late == catchUp(first.rec, histAfter(s, v))
    IN  IF reading(s) /\ histAfter(s, v) # None
        THEN [rec |-> late.rec, to |-> first.to \cup late.to]
        ELSE [rec |-> rec[s][v], to |-> {}]

-----------------------------------------------------------------------------
Each(F(_, _)) == [s \in Stack |-> [v \in Service |-> F(s, v)]]

\* The poll hands over a snapshot.
WatchPoll(readable) ==
    /\ pollOnce(readable)
    /\ fired' = {}
    /\ UNCHANGED <<memory, disk, saving, faults, ghosts>>

\* Observe, up to the save: alerts are fired as the snapshot is worked through.
WatcherObserve ==
    LET decided == Each(alerts) IN
    /\ Busy /\ ~saving
    /\ hist' = Each(histAfter)
    /\ pend' = Each(pendAfter)
    /\ rec' = [s \in Stack |-> [v \in Service |-> decided[s][v].rec]]
    /\ dirty' = (dirty \/ hist' # hist \/ \E s \in Stack : \E v \in Service :
                    decided[s][v].to # {} \/ (rec[s][v].suppressed /\ ~rec'[s][v].suppressed))
    /\ saving' = TRUE
    /\ fired' = UNION {{[stack |-> s, service |-> v, to |-> d] : d \in decided[s][v].to}
                         : s \in Stack, v \in Service}
    /\ picture' = [s \in Stack |-> [v \in Service |->
                     IF decided[s][v].to = {} THEN picture[s][v]
                     ELSE CHOOSE d \in decided[s][v].to : TRUE]]
    /\ quiet' = [s \in Stack |-> [v \in Service |-> [d \in Direction |->
                     IF d \in decided[s][v].to THEN alertCooldown ELSE quiet[s][v][d]]]]
    /\ streak' = Each(streakAfter)
    /\ UNCHANGED <<pollerVars, disk, faults, lost>>

\* The end of Observe: one save when anything changed; a failed save is only logged.
Save ==
    /\ saving
    /\ saving' = FALSE /\ snap' = None
    /\ dirty' = FALSE
    /\ \/ disk' = (IF dirty THEN [hist |-> hist, rec |-> rec] ELSE disk) /\ UNCHANGED faults
       \/ /\ dirty /\ "save" \in Faults /\ faults < MaxFaults
          /\ faults' = faults + 1
          /\ UNCHANGED disk
    /\ fired' = {}
    /\ UNCHANGED <<containers, refs, ticker, trigger, hist, pend, rec, ghosts>>

\* ObserveDeploy: a successful deploy is recorded, and saved by the next Observe.
\* It waits while Observe holds the lock.
ObserveDeploy ==
    /\ ~saving
    /\ dirty' = TRUE
    /\ fired' = {}
    /\ UNCHANGED <<pollerVars, hist, pend, rec, disk, saving, faults, ghosts>>

\* The end of a run, or a client that connects, asks for a poll.
Request ==
    /\ RequestPoll
    /\ fired' = {}
    /\ UNCHANGED <<containers, refs, ticker, snap, memory, disk, saving, faults, ghosts>>

\* New: the persisted state is loaded; a missing or corrupt file starts clean.
WatcherRestart ==
    /\ "crash" \in Faults /\ faults < MaxFaults
    /\ faults' = faults + 1
    /\ \/ hist' = disk.hist /\ rec' = disk.rec /\ UNCHANGED disk
          /\ lost' = (lost \/ disk # [hist |-> hist, rec |-> rec])
       \/ /\ "corrupt" \in Faults
          /\ hist' = [s \in Stack |-> [v \in Service |-> None]]
          /\ rec' = [s \in Stack |-> [v \in Service |-> noAlerts]]
          /\ disk' = [hist |-> hist', rec |-> rec']
          /\ lost' = TRUE
    /\ pend' = [s \in Stack |-> [v \in Service |-> None]]
    /\ dirty' = FALSE /\ saving' = FALSE
    /\ snap' = None /\ ticker' = FALSE /\ trigger' = FALSE
    /\ fired' = {}
    /\ UNCHANGED <<containers, refs, picture, quiet, streak>>

minusTick(n) == IF n > 0 THEN n - 1 ELSE 0
cooled(records) ==
    [s \in Stack |-> [v \in Service |->
        [records[s][v] EXCEPT !.left = [d \in Direction |-> minusTick(@[d])]]]]

\* The clock: recorded times age in memory and on disk alike.
WatchTick ==
    /\ ticker' = TRUE
    /\ rec' = cooled(rec)
    /\ disk' = [disk EXCEPT !.rec = cooled(@)]
    /\ quiet' = [s \in Stack |-> [v \in Service |-> [d \in Direction |-> minusTick(quiet[s][v][d])]]]
    /\ fired' = {}
    /\ UNCHANGED <<containers, refs, trigger, snap, hist, pend, dirty, saving, faults,
                   picture, streak, lost>>

WatchWorld(s) ==
    /\ ContainersChange(s)
    /\ fired' = {}
    /\ UNCHANGED <<memory, disk, saving, faults, ghosts>>

WatchInit ==
    /\ PollerInit
    /\ hist = [s \in Stack |-> [v \in Service |-> None]]
    /\ pend = [s \in Stack |-> [v \in Service |-> None]]
    /\ rec = [s \in Stack |-> [v \in Service |-> noAlerts]]
    /\ dirty = FALSE
    /\ disk = [hist |-> hist, rec |-> rec]
    /\ saving = FALSE
    /\ faults = 0
    /\ fired = {}
    /\ picture = [s \in Stack |-> [v \in Service |-> None]]
    /\ quiet = [s \in Stack |-> [v \in Service |-> [d \in Direction |-> 0]]]
    /\ streak = [s \in Stack |-> [v \in Service |-> [status |-> None, polls |-> 0]]]
    /\ lost = FALSE

\* The poller's goroutine.
Goroutine == WatcherObserve \/ Save \/ \E readable \in SUBSET refs : WatchPoll(readable)

WatchNext ==
    \/ Goroutine \/ ObserveDeploy \/ Request \/ WatcherRestart \/ WatchTick
    \/ \E s \in Stack : WatchWorld(s)

WatchSpec == WatchInit /\ [][WatchNext]_watchVars

\* The ticker never stops, the poller's goroutine runs, docker answers now and then.
WatchFairness ==
    /\ WF_watchVars(WatchTick)
    /\ WF_watchVars(Goroutine)
    /\ SF_watchVars(WatchPoll(refs))
FairWatchSpec == WatchSpec /\ WatchFairness

-----------------------------------------------------------------------------
(* Properties.                                                             *)

\* A status becomes a phase only after it held for debounce readable polls in a row:
\* blips and a flap between two other statuses do not add up.  Unreadable polls and
\* deploys in between are passed over, as in Observe.
DebounceHolds ==
    [][WatcherObserve => \A s \in Stack : \A v \in Service :
            (hist[s][v] # None /\ hist'[s][v] # hist[s][v])
                => streak'[s][v] = [status |-> hist'[s][v].cur, polls |-> debounce]]_watchVars

\* Two alerts of a service in the same direction are a cooldown apart, across
\* restarts too, unless a restart lost what was never saved.
AlertsLimited ==
    [][\A a \in fired' : quiet[a.stack][a.service][a.to] = 0 \/ lost]_watchVars

\* A service that settles unhealthy does so loudly: whatever was suppressed on
\* the way there, the last alert names it unhealthy in the end (catchUpStack).
SettledDown(s, v) == hist[s][v] # None /\ hist[s][v].cur = "unhealthy" /\ hist[s][v].older
DownIsTold ==
    \A s \in Stack : \A v \in Service :
        <>[]SettledDown(s, v) => (<>[](picture[s][v] = "unhealthy") \/ <>lost)
=============================================================================
