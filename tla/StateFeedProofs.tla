--------------------------- MODULE StateFeedProofs ---------------------------
(***************************************************************************)
(* The feeds that keep the page current, for any number of stacks, POSTs,   *)
(* hosts, streams, lines and restarts, and for every configuration: the     *)
(* autosync overrides, the switches on screen, the other hosts and the log. *)
(***************************************************************************)
EXTENDS StateFeed, SequenceTheorems, NaturalsInduction, WellFoundedInduction, TLAPS

-----------------------------------------------------------------------------
(* The overrides                                                            *)


\* The overrides are a function over the stacks, and exceptions.
Overrides == DOMAIN stackOverride = Stack /\ OverrideIsException

\* A process starts without overrides.
LEMMA OverridesAtStart ==
  ASSUME stackOverride' = [s \in Stack |-> None]
  PROVE  Overrides'
BY DEF Overrides, OverrideIsException

\* What leaves the controller alone leaves the overrides exceptions.
LEMMA OverridesFrame ==
  ASSUME Overrides, UNCHANGED controllerVars
  PROVE  Overrides'
BY DEF Overrides, OverrideIsException, controllerVars, baseline, baselineGiven, globalGiven

\* The global switch moves every baseline; an override that meets its new one goes.
LEMMA OverridesSetGlobal ==
  ASSUME Overrides, NEW v, SetGlobal(v)
  PROVE  Overrides'
<1>1. /\ globalOverride' = v /\ globalConfig' = globalConfig /\ stackConfig' = stackConfig
      /\ stackOverride' = [s \in Stack |->
            IF stackOverride[s] = baselineGiven(v, s) THEN None ELSE stackOverride[s]]
  BY DEF SetGlobal
<1>2. ASSUME NEW s \in Stack, stackOverride'[s] # None
      PROVE  stackOverride'[s] # baselineGiven(v, s)
  BY <1>1, <1>2
<1>3. ASSUME NEW s \in Stack PROVE baseline(s)' = baselineGiven(v, s)
  BY <1>1 DEF baseline, baselineGiven, globalGiven
<1>. QED BY <1>1, <1>2, <1>3 DEF Overrides, OverrideIsException

\* A stack's switch moves no baseline, and sets no override that says the same.
LEMMA OverridesSetStack ==
  ASSUME Overrides, NEW s, NEW v, SetStack(s, v)
  PROVE  Overrides'
<1>1. /\ stackOverride' = [stackOverride EXCEPT ![s] = IF v = baseline(s) THEN None ELSE v]
      /\ UNCHANGED <<globalConfig, stackConfig, globalOverride>>
  BY DEF SetStack
<1>2. ASSUME NEW u \in Stack PROVE baseline(u)' = baseline(u)
  BY <1>1 DEF baseline, baselineGiven, globalGiven
<1>. QED BY <1>1, <1>2 DEF Overrides, OverrideIsException

\* A POST is the only step of the panel that sets an override, a restart the only
\* one that clears them all.
LEMMA WhoSetsOverrides ==
  ASSUME PanelNext
  PROVE  \/ UNCHANGED controllerVars
         \/ \E v : SetGlobal(v)
         \/ \E s, v : SetStack(s, v)
         \/ stackOverride' = [s \in Stack |-> None]
<1>1. CASE StreamStep \/ Answer \/ Cut
  BY <1>1 DEF StreamStep, Subscribe, Baseline, Deliver, Answer, Cut, autosyncVars
<1>2. CASE Restart
  BY <1>2 DEF Restart, NewController
<1>3. ASSUME NEW h \in Handler, Click(h) PROVE UNCHANGED controllerVars
  BY <1>3 DEF Click, autosyncVars
<1>4. ASSUME NEW s \in Stack, Push(s) PROVE UNCHANGED controllerVars
  BY <1>4 DEF Push, autosyncVars
<1>5. ASSUME NEW g \in Publisher, PublishStep(g) PROVE UNCHANGED controllerVars
  BY <1>5 DEF PublishStep, TakeSnapshot, PublishSnapshot, TakeView, PublishView, autosyncVars
<1>6. ASSUME RunStep PROVE UNCHANGED controllerVars
  BY <1>6 DEF RunStep, StartRun, Reconcile, RunStack, Defer, FinishRun, autosyncVars
<1>7. ASSUME NEW g \in Publisher, Set(g)
      PROVE  (\E v : SetGlobal(v)) \/ (\E s, v : SetStack(s, v))
  BY <1>7 DEF Set
<1>8. ASSUME NEW g \in Publisher, Reply(g) PROVE UNCHANGED controllerVars
  BY <1>8 DEF Reply, autosyncVars
<1>9. ASSUME NEW g \in Publisher, Goroutine(g)
      PROVE  \/ UNCHANGED controllerVars
             \/ \E v : SetGlobal(v)
             \/ \E s, v : SetStack(s, v)
  BY <1>5, <1>6, <1>7, <1>8, <1>9 DEF Goroutine
<1>. QED BY <1>1, <1>2, <1>3, <1>4, <1>9 DEF PanelNext

\* Every step of the feeds keeps the overrides exceptions.
LEMMA OverridesStep == Overrides /\ [Next]_vars => Overrides'
<1>. SUFFICES ASSUME Overrides, [Next]_vars PROVE Overrides'
  OBVIOUS
<1>1. CASE PanelNext
  BY <1>1, WhoSetsOverrides, OverridesFrame, OverridesSetGlobal, OverridesSetStack,
     OverridesAtStart
<1>2. CASE UNCHANGED panelVars
  BY <1>2, OverridesFrame DEF panelVars, autosyncVars
<1>3. CASE UNCHANGED vars
  BY <1>2, <1>3 DEF vars
<1>. QED BY <1>1, <1>2, <1>3 DEF Next, Panel, Hosts, Logs

\* An override is only ever an exception from what its stack would do without it
\* (SetGlobal and SetStack of internal/autosync, ADR-0019).
THEOREM OverridesAreExceptions == Spec => []OverrideIsException
<1>1. Init => Overrides
  BY DEF Init, PanelInit, AutosyncInit, Overrides, OverrideIsException
<1>2. Overrides => OverrideIsException
  BY DEF Overrides
<1>. QED BY <1>1, <1>2, OverridesStep, PTL DEF Spec

-----------------------------------------------------------------------------
(* The switches on screen                                                   *)

View == [Stack -> {None, "", "stack", "global"}]
Event == [snap : Snapshots \cup {None}, view : View \cup {None}]
Toggle == [scope : Stack \cup {"global"}, enabled : BOOLEAN]
Stage == {"idle", "set", "snapshot", "publish", "view", "publishView", "reply", "stacks", "defer"}

\* The types of the controller and its publishers, of the run, and of the browser.
PublisherTypeOK ==
    /\ AutosyncTypeOK
    /\ stage \in [Publisher -> Stage]
    /\ request \in [Handler -> Toggle \cup {None}]
    /\ \A h \in Handler : stage[h] = "set" => request[h] \in Toggle
    /\ held \in [Publisher -> Event]
    /\ todo \in Seq(Stack) /\ (stage["run"] = "defer" => todo # <<>>)

BrowserTypeOK ==
    /\ channel \in Seq(Event)
    /\ answers \subseteq [snap : Snapshots, boot : Nat]
    /\ shown \in Snapshots \cup {None}
    /\ autosyncVersion \in Nat \cup {None}
    /\ shownBoot \in Nat \cup {None} /\ boot \in Nat

\* A snapshot this process took is of an earlier version, or what it would take now.
Fresh(x) == x # None => x.version <= version /\ (x.version = version => x = Snapshot)

\* Whatever is on its way or on screen and comes from this process is such a one; the
\* version the page remembers is that of what it shows.
FreshOK ==
    /\ \A g \in Publisher : Fresh(held[g].snap)
    /\ \A k \in 1 .. Len(channel) : Fresh(channel[k].snap)
    /\ \A a \in answers : a.boot <= boot /\ (a.boot = boot => Fresh(a.snap))
    /\ shownBoot # None => shownBoot <= boot /\ shown # None
    /\ shownBoot = boot => Fresh(shown)
    /\ autosyncVersion # None => shown # None /\ autosyncVersion = shown.version

\* The page has the newest version, or one of an earlier process with a later number.
UpToDate ==
    /\ autosyncVersion # None /\ autosyncVersion >= version
    /\ shownBoot = boot => shown = Snapshot

\* The newest version is still to be read or on its way to the connection.
UnderWay ==
    \/ stream = "subscribed"
    \/ \E g \in Publisher : stage[g] = "snapshot" \/ (stage[g] = "publish" /\ held[g].snap = Snapshot)
    \/ \E k \in 1 .. Len(channel) : channel[k].snap = Snapshot

\* No version is lost between the controller and a connection that has lost nothing.
NothingLost == stream # "off" /\ ~missed => UpToDate \/ UnderWay

\* SwitchesAreRight, made inductive.
PanelInv == PublisherTypeOK /\ BrowserTypeOK /\ FreshOK /\ NothingLost

\* A stack's baseline is on or off, as is what it comes to.
LEMMA EffectiveType ==
    ASSUME AutosyncTypeOK
    PROVE  /\ \A v \in BOOLEAN \cup {None} : globalGiven(v) \in BOOLEAN
           /\ \A v \in BOOLEAN \cup {None}, s \in Stack : baselineGiven(v, s) \in BOOLEAN
           /\ \A s \in Stack : Effective(s) \in BOOLEAN
<1>1. ASSUME NEW v \in BOOLEAN \cup {None} PROVE globalGiven(v) \in BOOLEAN
  BY <1>1 DEF AutosyncTypeOK, globalGiven
<1>2. ASSUME NEW v \in BOOLEAN \cup {None}, NEW s \in Stack PROVE baselineGiven(v, s) \in BOOLEAN
  BY <1>1, <1>2 DEF AutosyncTypeOK, baselineGiven
<1>3. ASSUME NEW s \in Stack PROVE Effective(s) \in BOOLEAN
  <2>1. baseline(s) \in BOOLEAN
    BY <1>2, <1>3 DEF baseline, AutosyncTypeOK
  <2> QED
    BY <2>1, <1>3 DEF AutosyncTypeOK, Effective
<1> QED
  BY <1>1, <1>2, <1>3

\* A snapshot is one.
LEMMA SnapshotType ==
    ASSUME AutosyncTypeOK
    PROVE  Snapshot \in Snapshots /\ Snapshot # None /\ Snapshot.version = version
<1>1. GlobalEffective \in BOOLEAN /\ version \in Nat
  BY EffectiveType DEF AutosyncTypeOK, GlobalEffective
<1>2. [s \in Stack |-> Effective(s)] \in [Stack -> BOOLEAN]
  BY EffectiveType
<1>3. Snapshot \in Snapshots
  BY <1>1, <1>2 DEF Snapshot, Snapshots
<1> QED
  BY <1>3, AutosyncAssumption DEF Snapshot

\* A switch keeps the controller's types and makes a new version.
LEMMA SetType ==
    ASSUME AutosyncTypeOK, NEW v \in BOOLEAN, pending' = pending,
           SetGlobal(v) \/ \E s \in Stack : SetStack(s, v)
    PROVE  AutosyncTypeOK' /\ version' = version + 1
<1>1. UNCHANGED <<globalConfig, stackConfig, pending>> /\ version' = version + 1
      /\ globalOverride' \in BOOLEAN \cup {None}
  BY DEF SetGlobal, SetStack, AutosyncTypeOK
<1>2. stackOverride' \in [Stack -> BOOLEAN \cup {None}]
  <2>1. CASE SetGlobal(v)
    BY <2>1 DEF SetGlobal, AutosyncTypeOK
  <2>2. ASSUME NEW s \in Stack, SetStack(s, v)
        PROVE  stackOverride' \in [Stack -> BOOLEAN \cup {None}]
    <3>1. (IF v = baseline(s) THEN None ELSE v) \in BOOLEAN \cup {None}
      OBVIOUS
    <3> QED
      BY <2>2, <3>1 DEF SetStack, AutosyncTypeOK
  <2> QED
    BY <2>1, <2>2
<1>3. version \in Nat /\ globalConfig' \in BOOLEAN \cup {None}
      /\ stackConfig' \in [Stack -> BOOLEAN \cup {None}]
      /\ pending' \in [Stack -> {None, "", "stack", "global"}]
  BY <1>1 DEF AutosyncTypeOK
<1>4. version' \in Nat
  <2>1. version \in Nat /\ version' = version + 1
    BY <1>1, <1>3
  <2> QED
    BY ONLY <2>1
<1> QED
  BY <1>1, <1>2, <1>3, <1>4 DEF AutosyncTypeOK

\* Steps that touch neither the controller's settings nor the way to the browser, and
\* leave every publisher that is about to read or send where it is.
LEMMA PanelFrame ==
    ASSUME FreshOK, NothingLost,
           UNCHANGED <<controllerVars, held, stream, channel, answers, shown, autosyncVersion,
                       shownBoot, boot, missed>>,
           \A g \in Publisher : stage[g] \in {"snapshot", "publish"} => stage'[g] = stage[g]
    PROVE  FreshOK' /\ NothingLost'
<1>1. Snapshot' = Snapshot /\ version' = version
  BY DEF Snapshot, controllerVars, GlobalEffective, Effective, baseline, baselineGiven, globalGiven
<1>2. FreshOK'
  BY <1>1 DEF FreshOK, Fresh
<1>3. UpToDate => UpToDate'
  BY <1>1 DEF UpToDate
<1>4. UnderWay => UnderWay'
  BY <1>1 DEF UnderWay
<1> QED
  BY <1>2, <1>3, <1>4 DEF NothingLost

\* A click and the steps of a run that only move on.
LEMMA AsidePanel ==
    ASSUME PanelInv,
           \/ \E h \in Handler : Click(h)
           \/ StartRun \/ Reconcile \/ RunStack \/ Defer \/ FinishRun
           \/ \E s \in Stack : Push(s)
    PROVE  PanelInv'
<1> USE DEF PanelInv, PublisherTypeOK, BrowserTypeOK
<1>1. UNCHANGED <<controllerVars, held, stream, channel, answers, shown, autosyncVersion, shownBoot, boot, missed>>
  BY DEF Click, StartRun, Reconcile, RunStack, Defer, FinishRun, Push, autosyncVars, browserVars,
     publishVars
<1>2. "run" \in Publisher /\ \A h \in Handler : h \in Publisher /\ h # "run"
  BY PanelAssumption DEF Publisher
<1>3. \A g \in Publisher : stage[g] \in {"snapshot", "publish"} => stage'[g] = stage[g]
  BY <1>2 DEF Click, StartRun, Reconcile, RunStack, Defer, FinishRun, Push, publishVars
<1>4. FreshOK' /\ NothingLost' /\ BrowserTypeOK'
  BY <1>1, <1>3, PanelFrame
<1>5. AutosyncTypeOK'
  <2>1. pending' \in [Stack -> {None, "", "stack", "global"}]
    <3>1. CASE RunStack \/ Defer
      <4>1. Head(todo) \in Stack
        BY <3>1 DEF RunStack, Defer
      <4> QED
        BY <3>1, <4>1 DEF RunStack, Defer, Clear, Mark, Reason, AutosyncTypeOK
    <3>2. CASE pending' = pending
      BY <3>2 DEF AutosyncTypeOK
    <3> QED
      BY <3>1, <3>2 DEF Click, StartRun, Reconcile, FinishRun, Push, autosyncVars
  <2> QED
    BY <1>1, <2>1 DEF AutosyncTypeOK, controllerVars
<1>6. todo' \in Seq(Stack) /\ (stage'["run"] = "defer" => todo' # <<>>)
  <2>1. CASE RunStack \/ Defer
    <3>1. todo # <<>> /\ (todo' = todo \/ (todo' = Tail(todo) /\ stage'["run"] = "stacks"))
      BY <1>2, <2>1 DEF RunStack, Defer
    <3> QED
      BY <3>1, HeadTailProperties
  <2>2. CASE ~(RunStack \/ Defer)
    <3>1. (todo' = todo \/ todo' = runOrder) /\ (stage'["run"] = "defer" => todo' = todo /\ stage["run"] = "defer")
      BY <1>2, <2>2 DEF Click, StartRun, Reconcile, FinishRun, Push, publishVars, runVars
    <3> QED
      BY <3>1, PanelAssumption
  <2> QED
    BY <2>1, <2>2
<1>7. stage' \in [Publisher -> Stage]
  BY <1>2 DEF Click, StartRun, Reconcile, RunStack, Defer, FinishRun, Push, publishVars, Stage
<1>8. request' \in [Handler -> Toggle \cup {None}] /\ \A h \in Handler : stage'[h] = "set" => request'[h] \in Toggle
  <2>1. ASSUME NEW h \in Handler, Click(h)
        PROVE  /\ request' \in [Handler -> Toggle \cup {None}]
               /\ \A i \in Handler : stage'[i] = "set" => request'[i] \in Toggle
    <3>1. PICK t \in Toggle : request' = [request EXCEPT ![h] = t]
      <4>1. shown \in Snapshots
        BY <2>1 DEF Click
      <4>2. [scope |-> "global", enabled |-> ~shown.global] \in Toggle
        BY <4>1 DEF Toggle
      <4>3. \A s \in Stack : [scope |-> s, enabled |-> ~shown.stacks[s]] \in Toggle
        BY <4>1 DEF Toggle
      <4> QED
        BY <2>1, <4>2, <4>3 DEF Click
    <3> QED
      BY <1>2, <2>1, <3>1 DEF Click
  <2>2. CASE request' = request /\ \A h \in Handler : stage'[h] = stage[h]
    BY <2>2
  <2> QED
    BY <1>2, <2>1, <2>2 DEF StartRun, Reconcile, RunStack, Defer, FinishRun, Push, publishVars
<1> QED
  BY <1>1, <1>4, <1>5, <1>6, <1>7, <1>8

\* After a switch whatever was on its way is of an earlier version, and the POST is
\* about to read the new one.
LEMMA SetPanel ==
    ASSUME PanelInv, NEW h \in Handler, Set(h) PROVE PanelInv'
<1> USE DEF PanelInv
<1>1. h \in Publisher /\ h # "run"
  BY PanelAssumption DEF Publisher
<1>2. /\ stage[h] = "set" /\ request[h] \in Toggle
      /\ stage' = [stage EXCEPT ![h] = "snapshot"]
      /\ UNCHANGED <<pending, runVars, request, held, browserVars, boot>>
  BY DEF Set, PublisherTypeOK
<1>3. /\ SetGlobal(request[h].enabled) \/ \E s \in Stack : SetStack(s, request[h].enabled)
      /\ request[h].enabled \in BOOLEAN
  BY <1>2 DEF Set, Toggle
<1>4. AutosyncTypeOK' /\ version' = version + 1 /\ version \in Nat
  BY <1>2, <1>3, SetType DEF PublisherTypeOK, AutosyncTypeOK
<1>5. PublisherTypeOK'
  BY <1>1, <1>2, <1>4 DEF PublisherTypeOK, Stage, runVars
<1>6. BrowserTypeOK'
  BY <1>2 DEF BrowserTypeOK, browserVars
<1>7. \A x \in Snapshots \cup {None} : Fresh(x) => Fresh(x)'
  BY <1>4 DEF Fresh, Snapshots
<1>8. FreshOK'
  <2>1. \A g \in Publisher : held[g].snap \in Snapshots \cup {None}
    BY DEF PublisherTypeOK, Event
  <2>2. \A k \in 1 .. Len(channel) : channel[k].snap \in Snapshots \cup {None}
    <3>1. \A k \in 1 .. Len(channel) : channel[k] \in Event
      BY DEF BrowserTypeOK
    <3> QED
      BY <3>1 DEF Event
  <2>3. \A a \in answers : a.snap \in Snapshots
    BY DEF BrowserTypeOK
  <2> QED
    BY <1>2, <1>7, <2>1, <2>2, <2>3 DEF FreshOK, BrowserTypeOK, browserVars
<1>9. UnderWay'
  BY <1>1, <1>2 DEF UnderWay, PublisherTypeOK
<1> QED
  BY <1>5, <1>6, <1>8, <1>9 DEF NothingLost

\* The answer to a POST carries the newest version.
LEMMA ReplyPanel ==
    ASSUME PanelInv, NEW h \in Handler, Reply(h) PROVE PanelInv'
<1> USE DEF PanelInv
<1>1. h \in Publisher /\ h # "run"
  BY PanelAssumption DEF Publisher
<1>2. /\ stage[h] = "reply" /\ stage' = [stage EXCEPT ![h] = "idle"]
      /\ request' = [request EXCEPT ![h] = None]
      /\ answers' = answers \cup {[snap |-> Snapshot, boot |-> boot]}
      /\ UNCHANGED <<autosyncVars, todo, held, stream, channel, shown, autosyncVersion, shownBoot, missed, boot>>
  BY DEF Reply
<1>3. Snapshot' = Snapshot /\ version' = version /\ Snapshot \in Snapshots /\ Snapshot.version = version
  BY <1>2, SnapshotType DEF PublisherTypeOK, Snapshot, autosyncVars, controllerVars, GlobalEffective,
     Effective, baseline, baselineGiven, globalGiven
<1>4. PublisherTypeOK'
  <2>1. AutosyncTypeOK'
    BY <1>2 DEF PublisherTypeOK, AutosyncTypeOK, autosyncVars, controllerVars
  <2> QED
    BY <1>1, <1>2, <2>1 DEF PublisherTypeOK, Stage
<1>5. BrowserTypeOK'
  BY <1>2, <1>3 DEF BrowserTypeOK
<1>6. FreshOK'
  <2>1. \A a \in answers' : a.boot <= boot' /\ (a.boot = boot' => Fresh(a.snap)')
    <3>1. version \in Nat /\ boot \in Nat
      BY DEF PublisherTypeOK, BrowserTypeOK, AutosyncTypeOK
    <3> QED
      BY <1>2, <1>3, <3>1 DEF FreshOK, Fresh
  <2> QED
    BY <1>2, <1>3, <2>1 DEF FreshOK, Fresh
<1>7. NothingLost'
  <2>1. UpToDate => UpToDate'
    BY <1>2, <1>3 DEF UpToDate
  <2>2. UnderWay => UnderWay'
    BY <1>1, <1>2, <1>3 DEF UnderWay
  <2> QED
    BY <1>2, <2>1, <2>2 DEF NothingLost
<1> QED
  BY <1>4, <1>5, <1>6, <1>7

\* What publishing an event comes to: it waits in the channel, or there is no
\* connection, or the connection has missed it.
LEMMA PublishCases ==
    ASSUME NEW e, Publish(e)
    PROVE  /\ \/ channel' = channel /\ (stream = "off" \/ missed')
              \/ channel' = Append(channel, e)
           /\ missed => missed'
BY Zenon DEF Publish

\* What an event that reaches the channel of a connection does: it waits there, or the
\* connection has missed it.
LEMMA PublishEvent ==
    ASSUME BrowserTypeOK, NEW e \in Event, Publish(e), stream # "off", ~missed'
    PROVE  /\ Len(channel') = Len(channel) + 1 /\ channel'[Len(channel')] = e
           /\ \A k \in 1 .. Len(channel) : channel'[k] = channel[k]
<1>1. channel' = Append(channel, e) /\ channel \in Seq(Event)
  BY PublishCases DEF BrowserTypeOK
<1> QED
  BY <1>1

\* No event is made up on the way.
LEMMA PublishType ==
    ASSUME BrowserTypeOK, NEW e \in Event, Publish(e)
    PROVE  /\ channel' \in Seq(Event)
           /\ \A k \in 1 .. Len(channel') :
                 channel'[k] = e \/ (k \in 1 .. Len(channel) /\ channel'[k] = channel[k])
           /\ missed => missed'
<1>1. channel \in Seq(Event) /\ (channel' = channel \/ channel' = Append(channel, e)) /\ (missed => missed')
  BY PublishCases DEF BrowserTypeOK
<1>2. CASE channel' = channel
  BY <1>1, <1>2
<1>3. CASE channel' = Append(channel, e)
  <2>1. channel' \in Seq(Event) /\ Len(channel') = Len(channel) + 1 /\ Len(channel) \in Nat
        /\ channel'[Len(channel) + 1] = e /\ \A k \in 1 .. Len(channel) : channel'[k] = channel[k]
    BY <1>1, <1>3
  <2> QED
    BY <1>1, <2>1
<1> QED
  BY <1>1, <1>2, <1>3

\* A publisher reads, sends, reads the queue and sends that.
LEMMA PublishPanel ==
    ASSUME PanelInv, NEW g \in Publisher, PublishStep(g) PROVE PanelInv'
<1> USE DEF PanelInv
<1>1. UNCHANGED <<autosyncVars, runVars, request, stream, answers, shown, autosyncVersion, shownBoot, boot>>
  BY DEF PublishStep, TakeSnapshot, PublishSnapshot, TakeView, PublishView, browserVars
<1>2. Snapshot' = Snapshot /\ version' = version /\ AutosyncTypeOK'
      /\ Snapshot \in Snapshots /\ Snapshot.version = version /\ version \in Nat
  BY <1>1, SnapshotType DEF PublisherTypeOK, Snapshot, autosyncVars, controllerVars, GlobalEffective,
     Effective, baseline, baselineGiven, globalGiven, AutosyncTypeOK
<1>3. \A x : Fresh(x)' <=> Fresh(x)
  BY <1>2 DEF Fresh
<1>4. held[g] \in Event /\ NoEvent \in Event /\ NoEvent.snap = None
  BY DEF PublisherTypeOK, NoEvent, Event
<1>5. PICK e \in Event, t \in Stage \ {"set", "defer"} :
        /\ held' = [held EXCEPT ![g] = e] /\ stage' = [stage EXCEPT ![g] = t]
        /\ \/ stage[g] = "snapshot" /\ t = "publish" /\ e.snap = Snapshot
           \/ stage[g] = "publish" /\ t = "view" /\ e = NoEvent
           \/ stage[g] = "view" /\ t = "publishView" /\ e.snap = held[g].snap
           \/ stage[g] = "publishView" /\ t \in {"idle", "reply"} /\ e = NoEvent
  <2>1. CASE TakeSnapshot(g)
    <3>1. [held[g] EXCEPT !.snap = Snapshot] \in Event
      BY <1>2, <1>4 DEF Event
    <3> QED
      BY <2>1, <3>1, <1>4 DEF TakeSnapshot, Event, Stage
  <2>2. CASE PublishSnapshot(g)
    BY <2>2, <1>4 DEF PublishSnapshot, Stage
  <2>3. CASE TakeView(g)
    <3>1. [held[g] EXCEPT !.view = pending] \in Event
      BY <1>4 DEF Event, View, PublisherTypeOK, AutosyncTypeOK
    <3> QED
      BY <2>3, <3>1, <1>4 DEF TakeView, Event, Stage
  <2>4. CASE PublishView(g)
    BY <2>4, <1>4 DEF PublishView, Stage
  <2> QED
    BY <2>1, <2>2, <2>3, <2>4 DEF PublishStep
<1>6. UNCHANGED <<channel, missed>> \/ Publish(held[g])
  BY DEF PublishStep, TakeSnapshot, PublishSnapshot, TakeView, PublishView, browserVars
<1>7. PublisherTypeOK'
  BY <1>1, <1>2, <1>5 DEF PublisherTypeOK, runVars
<1>8. /\ BrowserTypeOK'
      /\ \A k \in 1 .. Len(channel') :
            channel'[k] = held[g] \/ (k \in 1 .. Len(channel) /\ channel'[k] = channel[k])
      /\ missed => missed'
  BY <1>1, <1>4, <1>6, PublishType DEF BrowserTypeOK
<1>9. FreshOK'
  <2>1. Fresh(Snapshot) /\ Fresh(None)
    BY <1>2 DEF Fresh
  <2>2. \A i \in Publisher : Fresh(held'[i].snap)
    BY <1>4, <1>5, <2>1 DEF FreshOK
  <2>3. \A k \in 1 .. Len(channel') : Fresh(channel'[k].snap)
    BY <1>8 DEF FreshOK
  <2> QED
    BY <1>1, <1>3, <2>2, <2>3 DEF FreshOK
<1>10. NothingLost'
  <2> SUFFICES ASSUME stream # "off", ~missed', UnderWay PROVE UnderWay'
    <3>1. UpToDate => UpToDate'
      BY <1>1, <1>2 DEF UpToDate
    <3> QED
      BY <1>1, <1>8, <3>1 DEF NothingLost
  <2>1. \A k \in 1 .. Len(channel) : k \in 1 .. Len(channel') /\ channel'[k] = channel[k]
    BY <1>4, <1>6, PublishEvent
  <2>2. CASE stage[g] = "snapshot"
    BY <1>2, <1>5, <2>2 DEF UnderWay, PublisherTypeOK
  <2>3. CASE stage[g] = "publish" /\ held[g].snap = Snapshot
    <3>1. Publish(held[g])
      BY <2>3 DEF PublishStep, TakeSnapshot, PublishSnapshot, TakeView, PublishView
    <3>2. Len(channel') \in 1 .. Len(channel') /\ channel'[Len(channel')] = held[g]
      BY <1>4, <3>1, PublishEvent
    <3> QED
      BY <1>2, <2>3, <3>2 DEF UnderWay
  <2>4. CASE ~(stage[g] = "snapshot" \/ (stage[g] = "publish" /\ held[g].snap = Snapshot))
    BY <1>1, <1>2, <1>5, <2>1, <2>4 DEF UnderWay
  <2> QED
    BY <2>2, <2>3, <2>4
<1> QED
  BY <1>7, <1>8, <1>9, <1>10

\* Showing a snapshot, of this process or of an earlier one, keeps what is known of the
\* screen, and leaves it up to date where it or the snapshot was.
LEMMA ApplyPanel ==
    ASSUME PublisherTypeOK, BrowserTypeOK, FreshOK, NEW snap \in Snapshots, NEW b \in Nat,
           b <= boot, b = boot => Fresh(snap), Apply(snap, b)
    PROVE  /\ shown' \in Snapshots \cup {None} /\ autosyncVersion' \in Nat \cup {None}
           /\ shownBoot' \in Nat \cup {None}
           /\ shownBoot' # None => shownBoot' <= boot /\ shown' # None
           /\ shownBoot' = boot => Fresh(shown')
           /\ autosyncVersion' # None => shown' # None /\ autosyncVersion' = shown'.version
           /\ UpToDate \/ (b = boot /\ snap = Snapshot) =>
                 /\ autosyncVersion' # None /\ autosyncVersion' >= version
                 /\ shownBoot' = boot => shown' = Snapshot
<1>1. /\ snap.version \in Nat /\ version \in Nat /\ boot \in Nat /\ snap # None
      /\ Snapshot.version = version
  BY AutosyncAssumption, SnapshotType DEF PublisherTypeOK, BrowserTypeOK, Snapshots
<1>2. /\ shown \in Snapshots \cup {None} /\ autosyncVersion \in Nat \cup {None}
      /\ shownBoot \in Nat \cup {None}
  BY DEF BrowserTypeOK
<1>3. /\ shownBoot # None => shownBoot <= boot /\ shown # None
      /\ shownBoot = boot => Fresh(shown)
      /\ autosyncVersion # None => shown # None /\ autosyncVersion = shown.version
  BY DEF FreshOK
<1>4. None \notin Nat
  BY AutosyncAssumption
<1>5. CASE autosyncVersion # None /\ snap.version < autosyncVersion
  <2>1. UNCHANGED <<shown, autosyncVersion, shownBoot>>
    BY <1>5 DEF Apply
  <2>2. b = boot /\ snap = Snapshot => autosyncVersion > version /\ shownBoot # boot
    BY <1>1, <1>2, <1>3, <1>5 DEF Fresh
  <2> QED
    BY <1>1, <1>2, <1>3, <1>5, <2>1, <2>2 DEF UpToDate
<1>6. CASE ~(autosyncVersion # None /\ snap.version < autosyncVersion)
  <2>1. shown' = snap /\ autosyncVersion' = snap.version /\ shownBoot' = b
    BY <1>6 DEF Apply
  <2>2. UpToDate => snap.version >= version /\ (b = boot => snap = Snapshot)
    BY <1>1, <1>2, <1>6 DEF UpToDate, Fresh
  <2> QED
    BY <1>1, <1>4, <2>1, <2>2
<1> QED
  BY <1>5, <1>6

\* The connection opens, is broken, or the page learns something from it or an answer.
LEMMA BrowserPanel ==
    ASSUME PanelInv, StreamStep \/ Answer \/ Cut PROVE PanelInv'
<1> USE DEF PanelInv
<1>1. UNCHANGED <<autosyncVars, runVars, publishVars, boot>>
  BY DEF StreamStep, Subscribe, Baseline, Deliver, Answer, Cut
<1>2. Snapshot' = Snapshot /\ version' = version /\ boot' = boot /\ PublisherTypeOK'
  BY <1>1 DEF Snapshot, autosyncVars, controllerVars, GlobalEffective, Effective, baseline,
     baselineGiven, globalGiven, publishVars, runVars, PublisherTypeOK, AutosyncTypeOK
<1>3. /\ Snapshot \in Snapshots /\ Fresh(Snapshot) /\ boot \in Nat /\ boot <= boot
      /\ Snapshot # None
  <2>1. version \in Nat /\ boot \in Nat
    BY DEF PublisherTypeOK, AutosyncTypeOK, BrowserTypeOK
  <2> QED
    BY <2>1, SnapshotType DEF Fresh, PublisherTypeOK
<1>4. UpToDate' <=> /\ autosyncVersion' # None /\ autosyncVersion' >= version
                    /\ shownBoot' = boot => shown' = Snapshot
  BY <1>2 DEF UpToDate
<1>5. FreshOK' <=>
        /\ \A g \in Publisher : Fresh(held[g].snap)
        /\ \A k \in 1 .. Len(channel') : Fresh(channel'[k].snap)
        /\ \A a \in answers' : a.boot <= boot /\ (a.boot = boot => Fresh(a.snap))
        /\ shownBoot' # None => shownBoot' <= boot /\ shown' # None
        /\ shownBoot' = boot => Fresh(shown')
        /\ autosyncVersion' # None => shown' # None /\ autosyncVersion' = shown'.version
  BY <1>1, <1>2 DEF FreshOK, Fresh, publishVars
<1>6. CASE Subscribe \/ Cut
  <2>1. /\ channel' = <<>> /\ UNCHANGED <<answers, shown, shownBoot>>
        /\ autosyncVersion' \in {None, autosyncVersion} /\ stream' \in {"subscribed", "off"}
    BY <1>6 DEF Subscribe, Cut
  <2>2. FreshOK'
    BY <1>5, <2>1 DEF FreshOK
  <2>3. BrowserTypeOK'
    BY <1>2, <2>1 DEF BrowserTypeOK
  <2>4. NothingLost'
    BY <2>1 DEF NothingLost, UnderWay
  <2> QED
    BY <1>2, <2>2, <2>3, <2>4
<1>7. CASE Baseline
  <2>1. Apply(Snapshot, boot) /\ UNCHANGED <<channel, answers>>
    BY <1>7 DEF Baseline
  <2>2. FreshOK' /\ UpToDate' /\ BrowserTypeOK'
    BY <1>2, <1>3, <1>4, <1>5, <2>1, ApplyPanel DEF FreshOK, BrowserTypeOK
  <2> QED
    BY <1>2, <2>2 DEF NothingLost
<1>8. CASE Deliver
  <2>1. /\ channel \in Seq(Event) /\ channel # <<>> /\ channel' = Tail(channel)
        /\ stream' = stream /\ missed' = missed /\ stream = "live" /\ UNCHANGED answers
    BY <1>8 DEF Deliver, BrowserTypeOK
  <2>2. /\ channel' \in Seq(Event) /\ Head(channel) = channel[1] /\ Len(channel) \in Nat \ {0}
        /\ Len(channel') = Len(channel) - 1
        /\ \A k \in 1 .. Len(channel') : channel'[k] = channel[k + 1]
    BY <2>1, HeadTailProperties
  <2>3. /\ channel[1] \in Event /\ Fresh(channel[1].snap)
        /\ \A k \in 1 .. Len(channel') : Fresh(channel'[k].snap)
    BY <2>1, <2>2 DEF FreshOK
  <2>4. CASE channel[1].snap # None
    <3>1. Apply(channel[1].snap, boot) /\ channel[1].snap \in Snapshots
      BY <1>8, <2>2, <2>3, <2>4 DEF Deliver, Event
    <3>2. /\ FreshOK' /\ BrowserTypeOK'
          /\ UpToDate \/ channel[1].snap = Snapshot => UpToDate'
      BY <1>2, <1>3, <1>4, <1>5, <2>1, <2>2, <2>3, <3>1, ApplyPanel DEF FreshOK, BrowserTypeOK
    <3>3. UnderWay => UpToDate' \/ UnderWay'
      <4> SUFFICES ASSUME UnderWay, channel[1].snap # Snapshot PROVE UnderWay'
        BY <3>2
      <4>1. ASSUME NEW k \in 1 .. Len(channel), channel[k].snap = Snapshot PROVE UnderWay'
        <5>1. k - 1 \in 1 .. Len(channel') /\ channel'[k - 1] = channel[k]
          BY <2>2, <4>1
        <5> QED
          BY <1>2, <4>1, <5>1 DEF UnderWay
      <4>2. CASE \E g \in Publisher : stage[g] = "snapshot" \/ (stage[g] = "publish" /\ held[g].snap = Snapshot)
        BY <1>1, <1>2, <4>2 DEF UnderWay, publishVars
      <4> QED
        BY <2>1, <4>1, <4>2 DEF UnderWay
    <3> QED
      BY <1>2, <2>1, <3>2, <3>3 DEF NothingLost
  <2>5. CASE channel[1].snap = None
    <3>1. UNCHANGED <<shown, autosyncVersion, shownBoot>>
      BY <1>8, <2>2, <2>5 DEF Deliver
    <3>2. FreshOK' /\ BrowserTypeOK' /\ (UpToDate => UpToDate')
      BY <1>2, <1>5, <2>1, <2>2, <2>3, <3>1 DEF FreshOK, BrowserTypeOK, UpToDate
    <3>3. ASSUME NEW k \in 1 .. Len(channel), channel[k].snap = Snapshot PROVE UnderWay'
      <4>1. k - 1 \in 1 .. Len(channel') /\ channel'[k - 1] = channel[k]
        BY <1>3, <2>2, <2>5, <3>3
      <4> QED
        BY <1>2, <3>3, <4>1 DEF UnderWay
    <3>4. ASSUME \E g \in Publisher : stage[g] = "snapshot" \/ (stage[g] = "publish" /\ held[g].snap = Snapshot)
          PROVE  UnderWay'
      BY <1>1, <1>2, <3>4 DEF UnderWay, publishVars
    <3> QED
      BY <1>2, <2>1, <3>2, <3>3, <3>4 DEF NothingLost, UnderWay
  <2> QED
    BY <2>4, <2>5
<1>9. CASE Answer
  <2>1. PICK a \in answers : answers' = answers \ {a} /\ Apply(a.snap, a.boot)
    BY <1>9 DEF Answer
  <2>2. UNCHANGED <<stream, channel, missed>>
    BY <1>9 DEF Answer
  <2>3. a.snap \in Snapshots /\ a.boot \in Nat /\ a.boot <= boot /\ (a.boot = boot => Fresh(a.snap))
    BY DEF BrowserTypeOK, FreshOK
  <2>4. FreshOK' /\ BrowserTypeOK' /\ (UpToDate => UpToDate')
    BY <1>2, <1>4, <1>5, <2>1, <2>2, <2>3, ApplyPanel DEF FreshOK, BrowserTypeOK
  <2>5. UnderWay => UnderWay'
    BY <1>1, <1>2, <2>2 DEF UnderWay, publishVars
  <2> QED
    BY <1>2, <2>2, <2>4, <2>5 DEF NothingLost
<1> QED
  BY <1>6, <1>7, <1>8, <1>9 DEF StreamStep

\* What a process starts with is typed.
LEMMA ControllerType ==
    /\ NewController => AutosyncTypeOK'
    /\ AutosyncInit => AutosyncTypeOK
<1>1. None \in BOOLEAN \cup {None} /\ 0 \in Nat /\ None \in {None, "", "stack", "global"}
  OBVIOUS
<1>2. ASSUME NewController PROVE AutosyncTypeOK'
  <2>1. globalConfig' \in BOOLEAN \cup {None} /\ stackConfig' \in [Stack -> BOOLEAN \cup {None}]
        /\ globalOverride' \in BOOLEAN \cup {None}
    BY <1>1, <1>2, AutosyncAssumption DEF NewController
  <2>2. stackOverride' \in [Stack -> BOOLEAN \cup {None}] /\ version' \in Nat
        /\ pending' \in [Stack -> {None, "", "stack", "global"}]
    BY <1>1, <1>2 DEF NewController
  <2> QED
    BY <2>1, <2>2 DEF AutosyncTypeOK
<1>3. ASSUME AutosyncInit PROVE AutosyncTypeOK
  <2>1. globalConfig \in BOOLEAN \cup {None} /\ stackConfig \in [Stack -> BOOLEAN \cup {None}]
        /\ globalOverride \in BOOLEAN \cup {None}
    BY <1>1, <1>3, AutosyncAssumption DEF AutosyncInit
  <2>2. stackOverride \in [Stack -> BOOLEAN \cup {None}] /\ version \in Nat
        /\ pending \in [Stack -> {None, "", "stack", "global"}]
    BY <1>1, <1>3 DEF AutosyncInit
  <2> QED
    BY <2>1, <2>2 DEF AutosyncTypeOK
<1> QED
  BY <1>2, <1>3

\* After a restart nothing on screen or on its way is of this process, and no
\* connection is open.
LEMMA RestartPanel ==
    ASSUME PanelInv, Restart PROVE PanelInv'
<1> USE DEF PanelInv
<1>1. AutosyncTypeOK'
  BY ControllerType DEF Restart
<1>2. NoEvent \in Event /\ NoEvent.snap = None
  BY DEF NoEvent, Event
<1>3. /\ todo' = <<>> /\ stage' = [g \in Publisher |-> "idle"] /\ request' = [h \in Handler |-> None]
      /\ held' = [g \in Publisher |-> NoEvent] /\ stream' = "off" /\ channel' = <<>>
      /\ boot' = boot + 1 /\ UNCHANGED <<answers, shown, autosyncVersion, shownBoot>>
  BY DEF Restart
<1>4. "run" \in Publisher /\ \A h \in Handler : h \in Publisher
  BY DEF Publisher
<1>5. PublisherTypeOK'
  BY <1>1, <1>2, <1>3, <1>4 DEF PublisherTypeOK, Stage
<1>6. boot \in Nat /\ boot' \in Nat /\ boot' = boot + 1 /\ boot' # None
  BY <1>3, AutosyncAssumption DEF BrowserTypeOK
<1>7. BrowserTypeOK'
  BY <1>3, <1>6 DEF BrowserTypeOK
<1>8. FreshOK'
  <2>2. \A a \in answers : a.boot <= boot' /\ a.boot # boot'
    BY <1>6 DEF FreshOK, BrowserTypeOK
  <2>3. shownBoot # boot' /\ (shownBoot # None => shownBoot <= boot')
    BY <1>6 DEF FreshOK, BrowserTypeOK
  <2> QED
    BY <1>2, <1>3, <2>2, <2>3 DEF FreshOK, Fresh
<1>9. NothingLost'
  BY <1>3 DEF NothingLost
<1> QED
  BY <1>5, <1>7, <1>8, <1>9

\* PanelInv holds when the first process starts.
LEMMA PanelStart == Init => PanelInv
<1> SUFFICES ASSUME PanelInit PROVE PanelInv
  BY DEF Init
<1>1. NoEvent \in Event /\ NoEvent.snap = None
  BY DEF NoEvent, Event
<1>2. AutosyncTypeOK
  BY ControllerType DEF PanelInit
<1>3. "run" \in Publisher /\ \A h \in Handler : h \in Publisher
  BY DEF Publisher
<1>4. PublisherTypeOK
  BY <1>1, <1>2, <1>3 DEF PanelInit, PublisherTypeOK, Stage
<1>5. BrowserTypeOK
  BY DEF PanelInit, BrowserTypeOK
<1>6. FreshOK
  <2>1. boot # None
    BY AutosyncAssumption DEF PanelInit
  <2> QED
    BY <1>1, <2>1 DEF PanelInit, FreshOK, Fresh
<1>7. NothingLost
  BY DEF PanelInit, NothingLost
<1> QED
  BY <1>4, <1>5, <1>6, <1>7 DEF PanelInv

\* No step of any feed breaks PanelInv.
LEMMA PanelStep == PanelInv /\ [Next]_vars => PanelInv'
<1> SUFFICES ASSUME PanelInv, [Next]_vars PROVE PanelInv'
  OBVIOUS
<1>1. CASE UNCHANGED panelVars
  <2>1. UNCHANGED <<autosyncVars, runVars, publishVars, browserVars, boot>>
    BY <1>1 DEF panelVars
  <2>2. UNCHANGED <<controllerVars, held, stream, channel, answers, shown, autosyncVersion, shownBoot, boot, missed>>
    BY <2>1 DEF autosyncVars, publishVars, browserVars
  <2>3. FreshOK' /\ NothingLost'
    BY <2>1, <2>2, PanelFrame DEF PanelInv, publishVars
  <2> QED
    BY <2>1, <2>2, <2>3 DEF PanelInv, PublisherTypeOK, BrowserTypeOK, autosyncVars, runVars,
       publishVars, controllerVars, AutosyncTypeOK
<1>2. CASE PanelNext
  <2>1. ASSUME NEW g \in Publisher, Goroutine(g) PROVE PanelInv'
    BY <2>1, PublishPanel, AsidePanel, SetPanel, ReplyPanel DEF Goroutine, RunStep, Publisher
  <2> QED
    BY <1>2, <2>1, AsidePanel, BrowserPanel, RestartPanel DEF PanelNext
<1> QED
  BY <1>1, <1>2 DEF Next, Panel, Hosts, Logs, vars

\* Clicks, runs, answers that overtake each other, several goroutines that publish what
\* they read before another did, lost connections and restarts: with any number of each,
\* once nothing is on its way the switches of a page whose connection has lost no event
\* show what the controller holds.
THEOREM SwitchesShowTheController == Spec => []SwitchesAreRight
<1>1. Init => PanelInv
  BY PanelStart
<1>2. PanelInv /\ [Next]_vars => PanelInv'
  BY PanelStep
<1>3. PanelInv => SwitchesAreRight
  <2> SUFFICES ASSUME PanelInv, stream = "live", Quiet, ~missed PROVE shownBoot = boot => shown = Snapshot
    BY DEF SwitchesAreRight
  <2>1. \A g \in Publisher : stage[g] = "idle"
    BY DEF Quiet, allIdle, Publisher
  <2>2. ~UnderWay
    BY <2>1 DEF UnderWay, Quiet
  <2> QED
    BY <2>2 DEF PanelInv, NothingLost, UpToDate
<1> QED
  BY <1>1, <1>2, <1>3, PTL DEF Spec

-----------------------------------------------------------------------------
(* What is shown of the other hosts                                         *)

PeersTypeOK ==
    /\ news \in [peer -> Nat] /\ asked \in [peer -> Nat] /\ snapshot \in [peer -> Nat]
    /\ data \in [peer -> PeerAnswer \cup {Nothing}]
    /\ reachable \in [peer -> BOOLEAN]
    /\ fetched \in [peer -> {"start", "snapshot", "stored"}]

\* What is kept of one peer: nothing newer than its last poll began with, and what
\* that poll brought unless it failed or is still under way.
EntryOK(p) ==
    /\ asked[p] <= news[p]
    /\ fetched[p] = "snapshot" => snapshot[p] = asked[p]
    /\ data[p] # Nothing => data[p].state <= asked[p]
    /\ fetched[p] # "snapshot" /\ reachable[p] => data[p] # Nothing /\ data[p].state >= asked[p]

\* ReachableIsCurrent, made inductive: between passes every goroutine is done.
PeersInv ==
    /\ PeersTypeOK
    /\ pass = "idle" => \A p \in peer : fetched[p] = "stored"
    /\ \A p \in peer : EntryOK(p)

\* The first half of a poll.
LEMMA SnapshotStep ==
    ASSUME PeersInv, NEW p \in peer, FetchSnapshot(p) PROVE PeersInv'
<1> USE DEF PeersInv, PeersTypeOK
<1>1. /\ pass = "polling" /\ fetched[p] = "start" /\ UNCHANGED <<answering, news, pass>>
      /\ asked' = [asked EXCEPT ![p] = news[p]]
  BY DEF FetchSnapshot, peerVars
<1>2. CASE /\ Failed(p) /\ UNCHANGED snapshot
           /\ fetched' = [fetched EXCEPT ![p] = "stored"]
  <2>1. PeersTypeOK'
    BY <1>1, <1>2 DEF Failed
  <2>2. ASSUME NEW q \in peer PROVE EntryOK(q)'
    BY <1>1, <1>2 DEF Failed, EntryOK, PeerAnswer
  <2> QED
    BY <1>1, <2>1, <2>2
<1>3. CASE /\ fetched' = [fetched EXCEPT ![p] = "snapshot"]
           /\ snapshot' = [snapshot EXCEPT ![p] = news[p]]
           /\ UNCHANGED registryVars
  <2>1. PeersTypeOK'
    BY <1>1, <1>3 DEF registryVars
  <2>2. ASSUME NEW q \in peer PROVE EntryOK(q)'
    BY <1>1, <1>3 DEF registryVars, EntryOK, PeerAnswer
  <2> QED
    BY <1>1, <2>1, <2>2
<1> QED
  BY <1>2, <1>3 DEF FetchSnapshot

\* The second half.
LEMMA AuditStep ==
    ASSUME PeersInv, NEW p \in peer, FetchAudit(p) PROVE PeersInv'
<1> USE DEF PeersInv, PeersTypeOK
<1> DEFINE d == [state |-> snapshot[p], deploys |-> fetchAudit(p)]
<1>1. /\ pass = "polling" /\ fetched[p] = "snapshot" /\ UNCHANGED <<news, pass, snapshot, asked>>
      /\ fetched' = [fetched EXCEPT ![p] = "stored"]
      /\ reachable' = [reachable EXCEPT ![p] = TRUE] /\ data' = [data EXCEPT ![p] = d]
  BY DEF FetchAudit, Stored, peerVars
<1>2. d \in PeerAnswer /\ d # Nothing
  <2>1. fetchAudit(p) \in Nat \cup {Nothing}
    BY DEF fetchAudit
  <2> QED
    BY <2>1, PeersAssumption DEF PeerAnswer
<1>3. PeersTypeOK'
  BY <1>1, <1>2
<1>4. ASSUME NEW q \in peer PROVE EntryOK(q)'
  BY <1>1, <1>2 DEF EntryOK
<1> QED
  BY <1>1, <1>3, <1>4

\* Every step of the feeds keeps the entries.
LEMMA PeersStep == PeersInv /\ [Next]_vars => PeersInv'
<1> SUFFICES ASSUME PeersInv, [Next]_vars PROVE PeersInv'
  OBVIOUS
<1>1. CASE StartPass \/ PublishPass
  <2>1. /\ UNCHANGED <<news, asked, snapshot, data, reachable>>
        /\ fetched' = fetched \/ fetched' = [p \in peer |-> "start"]
        /\ pass' = "idle" => fetched' = fetched /\ \A p \in peer : fetched[p] = "stored"
        /\ fetched' # fetched => pass = "idle"
    BY <1>1 DEF StartPass, PublishPass, peerVars, registryVars
  <2>2. PeersTypeOK'
    BY <2>1 DEF PeersInv, PeersTypeOK
  <2>3. ASSUME NEW p \in peer PROVE EntryOK(p)'
    BY <2>1 DEF PeersInv, EntryOK
  <2> QED
    BY <2>1, <2>2, <2>3 DEF PeersInv
<1>2. ASSUME NEW p \in peer, PeerChanges(p) PROVE PeersInv'
  <2>1. /\ news' = [news EXCEPT ![p] = news[p] + 1]
        /\ UNCHANGED <<asked, snapshot, data, reachable, fetched, pass>>
    BY <1>2 DEF PeerChanges, registryVars, loopVars
  <2>2. PeersTypeOK'
    BY <2>1 DEF PeersInv, PeersTypeOK
  <2>3. ASSUME NEW q \in peer PROVE EntryOK(q)'
    BY <2>1 DEF PeersInv, EntryOK, PeersTypeOK
  <2> QED
    BY <2>1, <2>2, <2>3 DEF PeersInv
<1>3. CASE PeersNext
  BY <1>1, <1>2, <1>3, SnapshotStep, AuditStep DEF PeersNext, Fetch
<1>4. CASE UNCHANGED peersVars
  BY <1>4 DEF PeersInv, PeersTypeOK, EntryOK, peersVars, peerVars, registryVars, loopVars
<1>5. CASE UNCHANGED vars
  BY <1>4, <1>5 DEF vars
<1> QED
  BY <1>3, <1>4, <1>5 DEF Next, Panel, Hosts, Logs

\* A host shown as reachable is shown as it was when its last poll began or later,
\* and a host that does not answer keeps what it told last, whatever passes, failures
\* and changes over there interleave, for any number of hosts (internal/peers).
THEOREM ReachableHostsAreCurrent == Spec => []ReachableIsCurrent
<1>1. Init => PeersInv
  BY DEF Init, PeersInit, PeersInv, PeersTypeOK, EntryOK
<1>2. PeersInv => ReachableIsCurrent
  BY DEF PeersInv, EntryOK, ReachableIsCurrent
<1>. QED BY <1>1, <1>2, PeersStep, PTL DEF Spec

-----------------------------------------------------------------------------
\* A set of numbers that has a member has a least one.
LEMMA LeastNat ==
  ASSUME NEW S, S \subseteq Nat, S # {}
  PROVE  \E n \in S : \A m \in Nat : m < n => m \notin S
<1>1. PICK n \in S : \A m \in S : ~(<<m, n>> \in OpToRel(<, Nat))
  BY NatLessThanWellFounded, WFMin, Zenon
<1>2. ASSUME NEW m \in Nat, m < n
      PROVE  m \notin S
  BY <1>1, <1>2 DEF OpToRel
<1>3. QED
  BY <1>2

-----------------------------------------------------------------------------
(* The log page: the operators on lines it is made of                       *)

Line == [id : Nat \ {0}, kind : {"output", "outcome", "routine"}]
Rising(q) == \A j, k \in 1 .. Len(q) : j < k => q[j].id < q[k].id

\* r is what is left of the first n lines of q: those in S, in their order.
LeftOf(q, S, n, r) ==
    /\ r \in Seq(Line)
    /\ \A x \in Line : x \in ToSet(r) <=> x \in S /\ \E j \in 1 .. n : x = q[j]
    /\ Rising(q) => Rising(r)

\* The values of the recursive function of `kept`.
UpTo(q, S, n, f) ==
    f = [k \in 0 .. n |-> IF k = 0 THEN <<>>
                          ELSE IF q[k] \in S THEN Append(f[k - 1], q[k]) ELSE f[k - 1]]

\* The elements of a sequence of lines.
LEMMA Elems ==
  ASSUME NEW q \in Seq(Line)
  PROVE  /\ ToSet(q) = {q[j] : j \in 1 .. Len(q)} /\ Len(q) \in Nat
         /\ ToSet(q) \subseteq Line
BY DEF ToSet

\* A longer list has one line more, or the same lines.
LEMMA NextLeft ==
  ASSUME NEW q \in Seq(Line), NEW S, NEW n \in 1 .. Len(q), NEW r, LeftOf(q, S, n - 1, r)
  PROVE  LeftOf(q, S, n, IF q[n] \in S THEN Append(r, q[n]) ELSE r)
<1> DEFINE s == Append(r, q[n])
<1>0. q[n] \in Line /\ r \in Seq(Line) /\ Len(q) \in Nat
  BY DEF LeftOf
<1>1. /\ s \in Seq(Line) /\ Len(s) = Len(r) + 1 /\ s[Len(s)] = q[n]
      /\ \A j \in 1 .. Len(r) : s[j] = r[j]
  BY <1>0
<1> HIDE DEF s
<1>2. ToSet(s) = ToSet(r) \cup {q[n]}
  <2>1. Len(r) \in Nat /\ ToSet(r) = {r[j] : j \in 1 .. Len(r)} /\ ToSet(s) = {s[j] : j \in 1 .. Len(s)}
    BY <1>0, <1>1, Elems
  <2>2. \A x : (\E j \in 1 .. Len(s) : x = s[j]) <=> x = q[n] \/ \E j \in 1 .. Len(r) : x = r[j]
    BY <1>1, <2>1
  <2>3. QED
    BY <2>1, <2>2
<1>3. \A x : (\E j \in 1 .. n : x = q[j]) <=> x = q[n] \/ \E j \in 1 .. n - 1 : x = q[j]
  BY <1>0
<1>4. Rising(q) => Rising(s)
  <2>0. Rising(q) => Rising(r)
    BY DEF LeftOf
  <2> SUFFICES ASSUME Rising(q), NEW j \in 1 .. Len(s), NEW k \in 1 .. Len(s), j < k
               PROVE  s[j].id < s[k].id
    BY DEF Rising
  <2>1. CASE k = Len(s)
    <3>1. j \in 1 .. Len(r)
      BY <1>0, <1>1, <2>1
    <3>2. r[j] \in Line /\ r[j] \in ToSet(r)
      BY <1>0, <3>1, Elems
    <3>3. PICK i \in 1 .. n - 1 : r[j] = q[i]
      BY <3>2 DEF LeftOf
    <3>4. q[i].id < q[n].id
      <4>1. i \in 1 .. Len(q) /\ n \in 1 .. Len(q) /\ i < n
        BY <1>0
      <4>2. QED
        BY <4>1 DEF Rising
    <3>5. s[j] = q[i] /\ s[k] = q[n]
      BY <1>1, <2>1, <3>1, <3>3
    <3>6. QED
      BY <3>4, <3>5
  <2>2. CASE k # Len(s)
    <3>1. j \in 1 .. Len(r) /\ k \in 1 .. Len(r)
      BY <1>0, <1>1, <2>2
    <3>2. QED
      BY <1>1, <2>0, <3>1 DEF Rising
  <2>3. QED
    BY <2>1, <2>2
<1>5. CASE q[n] \in S
  <2>1. ASSUME NEW x \in Line
        PROVE  x \in ToSet(s) <=> x \in S /\ \E j \in 1 .. n : x = q[j]
    BY <1>2, <1>3, <1>5 DEF LeftOf
  <2>2. LeftOf(q, S, n, s)
    BY <1>1, <1>4, <2>1 DEF LeftOf
  <2>3. QED
    BY <1>5, <2>2 DEF s
<1>6. CASE q[n] \notin S
  BY <1>3, <1>6 DEF LeftOf
<1>7. QED
  BY <1>5, <1>6

\* The recursive function of `kept` exists.
LEMMA UpToExists ==
  ASSUME NEW q, NEW S, Len(q) \in Nat
  PROVE  \E f : UpTo(q, S, Len(q), f)
<1> DEFINE Bad == {n \in Nat : ~\E f : UpTo(q, S, n, f)}
<1>1. ASSUME NEW n \in Bad, \A m \in Nat : m < n => m \notin Bad
      PROVE  FALSE
  <2>1. CASE n = 0
    <3>1. UpTo(q, S, 0, [k \in 0 .. 0 |-> <<>>])
      BY DEF UpTo
    <3>2. QED
      BY <2>1, <3>1
  <2>2. CASE n # 0
    <3>1. PICK g : UpTo(q, S, n - 1, g)
      BY <1>1, <2>2
    <3> DEFINE last == IF q[n] \in S THEN Append(g[n - 1], q[n]) ELSE g[n - 1]
               h == [k \in 0 .. n |-> IF k = n THEN last ELSE g[k]]
    <3>2. \A k \in 0 .. n - 1 : h[k] = g[k]
      BY <2>2
    <3>3. \A k \in 0 .. n - 1 : g[k] =
            IF k = 0 THEN <<>> ELSE IF q[k] \in S THEN Append(g[k - 1], q[k]) ELSE g[k - 1]
      BY <3>1 DEF UpTo
    <3>4. ASSUME NEW k \in 0 .. n
          PROVE  h[k] = IF k = 0 THEN <<>>
                        ELSE IF q[k] \in S THEN Append(h[k - 1], q[k]) ELSE h[k - 1]
      <4>1. CASE k = n
        BY <2>2, <3>2, <4>1
      <4>2. CASE k # n
        BY <2>2, <3>2, <3>3, <4>2
      <4>3. QED
        BY <4>1, <4>2
    <3>5. UpTo(q, S, n, h)
      BY <3>4, Zenon DEF UpTo
    <3>6. QED
      BY <3>5
  <2>3. QED
    BY <2>1, <2>2
<1>2. Bad = {}
  BY <1>1, LeastNat
<1>3. QED
  BY <1>2

\* `kept` is what is left of the whole list.
LEMMA Kept ==
  ASSUME NEW q \in Seq(Line), NEW S
  PROVE  LeftOf(q, S, Len(q), kept(q, S))
<1> DEFINE f == CHOOSE f : UpTo(q, S, Len(q), f)
           Bad == {n \in 0 .. Len(q) : ~LeftOf(q, S, n, f[n])}
<1>0. Len(q) \in Nat
  OBVIOUS
<1>1. UpTo(q, S, Len(q), f)
  BY <1>0, UpToExists
<1>2. kept(q, S) = f[Len(q)]
  BY DEF kept, UpTo
<1> HIDE DEF f
<1>3. \A k \in 0 .. Len(q) : f[k] =
        IF k = 0 THEN <<>> ELSE IF q[k] \in S THEN Append(f[k - 1], q[k]) ELSE f[k - 1]
  BY <1>1 DEF UpTo
<1>4. ASSUME NEW n \in Bad, \A m \in Nat : m < n => m \notin Bad
      PROVE  FALSE
  <2>1. CASE n = 0
    <3>1. f[0] = <<>>
      BY <1>0, <1>3
    <3>2. LeftOf(q, S, 0, <<>>)
      BY DEF LeftOf, Rising, ToSet
    <3>3. QED
      BY <1>4, <2>1, <3>1, <3>2
  <2>2. CASE n # 0
    <3>1. n \in 1 .. Len(q) /\ n - 1 \in Nat /\ n - 1 < n /\ n - 1 \in 0 .. Len(q)
      BY <1>0, <2>2
    <3>2. LeftOf(q, S, n - 1, f[n - 1])
      BY <1>4, <3>1
    <3>3. LeftOf(q, S, n, IF q[n] \in S THEN Append(f[n - 1], q[n]) ELSE f[n - 1])
      BY <3>1, <3>2, NextLeft
    <3>4. QED
      BY <1>3, <1>4, <2>2, <3>3
  <2>3. QED
    BY <2>1, <2>2
<1>5. Bad \subseteq Nat
  BY <1>0
<1>6. Bad = {}
  <2> HIDE DEF Bad
  <2> QED
    BY <1>4, <1>5, LeastNat
<1>7. QED
  BY <1>0, <1>2, <1>6

\* Two rising lists, all of one before all of the other, are a rising list.
LEMMA Joined ==
  ASSUME NEW q \in Seq(Line), NEW r \in Seq(Line)
  PROVE  /\ q \o r \in Seq(Line) /\ ToSet(q \o r) = ToSet(q) \cup ToSet(r)
         /\ Rising(q) /\ Rising(r) /\ (\A x \in ToSet(q), y \in ToSet(r) : x.id < y.id) => Rising(q \o r)
<1> DEFINE s == q \o r
<1>1. Len(q) \in Nat /\ Len(r) \in Nat /\ s \in Seq(Line) /\ Len(s) = Len(q) + Len(r)
  OBVIOUS
<1>2. \A j \in 1 .. Len(s) : s[j] = IF j <= Len(q) THEN q[j] ELSE r[j - Len(q)]
  OBVIOUS
<1>3. /\ ToSet(q) = {q[j] : j \in 1 .. Len(q)} /\ ToSet(r) = {r[j] : j \in 1 .. Len(r)}
      /\ ToSet(s) = {s[j] : j \in 1 .. Len(s)}
  BY <1>1, Elems
<1> HIDE DEF s
<1>4. ASSUME NEW j \in 1 .. Len(q) PROVE j \in 1 .. Len(s) /\ s[j] = q[j]
  BY <1>1, <1>2
<1>5. ASSUME NEW j \in 1 .. Len(r)
      PROVE  Len(q) + j \in 1 .. Len(s) /\ s[Len(q) + j] = r[j]
  <2>1. Len(q) + j \in 1 .. Len(s) /\ ~(Len(q) + j <= Len(q)) /\ (Len(q) + j) - Len(q) = j
    BY <1>1
  <2>2. QED
    BY <1>2, <2>1
<1>6. ASSUME NEW j \in 1 .. Len(s)
      PROVE  \/ j \in 1 .. Len(q) /\ s[j] = q[j]
             \/ j - Len(q) \in 1 .. Len(r) /\ s[j] = r[j - Len(q)]
  BY <1>1, <1>2
<1>7. ToSet(s) = ToSet(q) \cup ToSet(r)
  BY <1>3, <1>4, <1>5, <1>6
<1>8. ASSUME Rising(q), Rising(r), \A x \in ToSet(q), y \in ToSet(r) : x.id < y.id,
             NEW j \in 1 .. Len(s), NEW k \in 1 .. Len(s), j < k
      PROVE  s[j].id < s[k].id
  <2>1. CASE j \in 1 .. Len(q) /\ k \in 1 .. Len(q)
    BY <1>4, <1>8, <2>1 DEF Rising
  <2>2. CASE j \in 1 .. Len(q) /\ k \notin 1 .. Len(q)
    BY <1>3, <1>4, <1>6, <1>8, <2>2
  <2>3. CASE j \notin 1 .. Len(q)
    <3>1. /\ j - Len(q) \in 1 .. Len(r) /\ s[j] = r[j - Len(q)]
          /\ k - Len(q) \in 1 .. Len(r) /\ s[k] = r[k - Len(q)]
          /\ j - Len(q) < k - Len(q)
      BY <1>1, <1>6, <1>8, <2>3
    <3>2. QED
      BY <1>8, <3>1 DEF Rising
  <2>4. QED
    BY <2>1, <2>2, <2>3
<1>9. QED
  BY <1>1, <1>7, <1>8, Zenon DEF s, Rising

\* r is q with x behind it, and without its first line if that makes n lines.
Slid(q, x, n, d, r) ==
    /\ d \in {0, 1} /\ (d = 1 => Len(q) = n)
    /\ r \in Seq(Line) /\ Len(r) = Len(q) + 1 - d /\ Len(r) <= n
    /\ r[Len(r)] = x /\ \A j \in 1 .. Len(r) - 1 : r[j] = q[j + d]

\* A bounded buffer takes a line so.
LEMMA BoundedSlides ==
  ASSUME NEW q \in Seq(Line), NEW x \in Line, NEW n \in Nat \ {0}, Len(q) <= n
  PROVE  \E d \in {0, 1} : Slid(q, x, n, d, bounded(n, Append(q, x)))
<1> DEFINE s == Append(q, x)
<1>1. /\ s \in Seq(Line) /\ Len(s) = Len(q) + 1 /\ s[Len(s)] = x /\ Len(q) \in Nat
      /\ \A j \in 1 .. Len(q) : s[j] = q[j]
  OBVIOUS
<1> HIDE DEF s
<1>2. CASE Len(q) < n
  <2>1. bounded(n, s) = s
    BY <1>1, <1>2 DEF bounded
  <2>2. Slid(q, x, n, 0, s)
    BY <1>1, <1>2 DEF Slid
  <2>3. QED
    BY <2>1, <2>2 DEF s
<1>3. CASE Len(q) = n
  <2> DEFINE r == SubSeq(s, 2, Len(s))
  <2>1. bounded(n, s) = r
    BY <1>1, <1>3 DEF bounded, newestOf
  <2>2. /\ r \in Seq(Line) /\ Len(r) = Len(q)
        /\ \A j \in 1 .. Len(r) : r[j] = s[j + 1]
    BY <1>1, <1>3
  <2> HIDE DEF r
  <2>3. Slid(q, x, n, 1, r)
    BY <1>1, <1>3, <2>2 DEF Slid
  <2>4. QED
    BY <2>1, <2>3 DEF s
<1>4. QED
  BY <1>2, <1>3

\* What such a buffer holds.
LEMMA SlidLines ==
  ASSUME NEW q \in Seq(Line), NEW x \in Line, NEW n \in Nat \ {0}, NEW d, NEW r, Slid(q, x, n, d, r)
  PROVE  /\ x \in ToSet(r) /\ ToSet(r) \subseteq ToSet(q) \cup {x}
         /\ \A y \in ToSet(q) : y \in ToSet(r) \/ (d = 1 /\ y = q[1])
         /\ Rising(q) /\ (\A y \in ToSet(q) : y.id < x.id) =>
                /\ Rising(r)
                /\ \A y \in ToSet(q) : y \in ToSet(r) \/ \A z \in ToSet(r) : y.id < z.id
<1>1. /\ ToSet(q) = {q[j] : j \in 1 .. Len(q)} /\ ToSet(r) = {r[j] : j \in 1 .. Len(r)}
      /\ Len(q) \in Nat /\ Len(r) \in Nat \ {0} /\ Len(r) = Len(q) + 1 - d /\ d \in {0, 1}
      /\ Len(r) \in 1 .. Len(r)
  <2>1. /\ d \in {0, 1} /\ (d = 1 => Len(q) = n) /\ r \in Seq(Line) /\ Len(r) = Len(q) + 1 - d
    BY DEF Slid
  <2>2. /\ ToSet(q) = {q[j] : j \in 1 .. Len(q)} /\ ToSet(r) = {r[j] : j \in 1 .. Len(r)}
        /\ Len(q) \in Nat /\ Len(r) \in Nat
    BY <2>1, Elems
  <2>3. QED
    BY <2>1, <2>2
<1>2. ASSUME NEW j \in 1 .. Len(r), j # Len(r)
      PROVE  j + d \in 1 .. Len(q) /\ r[j] = q[j + d]
  BY <1>1, <1>2 DEF Slid
<1>3. r[Len(r)] = x
  BY DEF Slid
<1>4. ASSUME NEW j \in 1 .. Len(q), j > d
      PROVE  j - d \in 1 .. Len(r) /\ r[j - d] = q[j]
  <2>1. j - d \in 1 .. Len(r) - 1 /\ (j - d) + d = j
    BY <1>1, <1>4
  <2>2. QED
    BY <1>1, <2>1 DEF Slid
<1>5. x \in ToSet(r) /\ ToSet(r) \subseteq ToSet(q) \cup {x}
  BY <1>1, <1>2, <1>3
<1>6. ASSUME NEW y \in ToSet(q) PROVE y \in ToSet(r) \/ (d = 1 /\ y = q[1])
  <2>1. PICK j \in 1 .. Len(q) : y = q[j]
    BY <1>1
  <2>2. CASE j > d
    BY <1>1, <1>4, <2>1, <2>2
  <2>3. CASE ~(j > d)
    BY <1>1, <2>1, <2>3
  <2>4. QED
    BY <2>2, <2>3
<1>7. ASSUME Rising(q), \A y \in ToSet(q) : y.id < x.id,
             NEW j \in 1 .. Len(r), NEW k \in 1 .. Len(r), j < k
      PROVE  r[j].id < r[k].id
  <2>1. j + d \in 1 .. Len(q) /\ r[j] = q[j + d]
    BY <1>1, <1>2, <1>7
  <2>2. CASE k = Len(r)
    BY <1>1, <1>3, <1>7, <2>1, <2>2
  <2>3. CASE k # Len(r)
    BY <1>1, <1>2, <1>7, <2>1, <2>3 DEF Rising
  <2>4. QED
    BY <2>2, <2>3
<1>8. Rising(q) /\ (\A y \in ToSet(q) : y.id < x.id) => Rising(r)
  BY <1>7 DEF Rising
<1>9. ASSUME Rising(q), \A y \in ToSet(q) : y.id < x.id, d = 1, NEW z \in ToSet(r)
      PROVE  q[1].id < z.id
  <2>1. PICK j \in 1 .. Len(r) : z = r[j]
    BY <1>1
  <2>2. 1 \in 1 .. Len(q) /\ q[1] \in ToSet(q)
    BY <1>1, <1>9
  <2>3. CASE j = Len(r)
    BY <1>3, <1>9, <2>1, <2>2, <2>3
  <2>4. CASE j # Len(r)
    BY <1>1, <1>2, <1>9, <2>1, <2>2, <2>4 DEF Rising
  <2>5. QED
    BY <2>3, <2>4
<1>10. QED
  BY <1>5, <1>6, <1>8, <1>9

-----------------------------------------------------------------------------
(* The log page: the server's lists                                         *)

LogTypeOK ==
    /\ nextID \in Nat \ {0} /\ lastSent \in Nat /\ lastEventID \in Nat
    /\ entries \in Seq(Line) /\ pinned \in Seq(Line)
    /\ logChannel \in Seq(Line) /\ backlog \in Seq(Line)
    /\ logStream \in {"off", "subscribed", "replaying", "live"}
    /\ droppedLine \in BOOLEAN

\* A line this process has logged is older than the ring or in it, and an outcome is
\* older than the pinned ones or one of them.
Known(line) ==
    /\ line.id < nextID
    /\ line.id + Len(entries) < nextID \/ line \in ToSet(entries)
    /\ isPinnedOutcome(line) =>
            line \in ToSet(pinned) \/ \A p \in ToSet(pinned) : line.id < p.id

Held == ToSet(entries) \cup ToSet(pinned)
Queued == ToSet(backlog) \cup ToSet(logChannel)

RingOK ==
    /\ Len(entries) <= logCapacity
    /\ \A j \in 1 .. Len(entries) : entries[j].id + Len(entries) + 1 = nextID + j
    /\ Len(pinned) <= pinnedCap /\ Rising(pinned)
    /\ \A p \in ToSet(pinned) : isPinnedOutcome(p)
    /\ outcomes = pinned
    /\ \A line \in Held \cup Queued : Known(line)

\* Everything in the ring is at its distance from the newest line.
LEMMA RingLines ==
  ASSUME LogTypeOK, RingOK
  PROVE  /\ Rising(entries)
         /\ \A e \in ToSet(entries) : nextID <= e.id + Len(entries) /\ e.id < nextID
<1>1. Len(entries) \in Nat /\ ToSet(entries) = {entries[j] : j \in 1 .. Len(entries)}
  BY Elems DEF LogTypeOK
<1>2. ASSUME NEW j \in 1 .. Len(entries)
      PROVE  entries[j].id \in Nat /\ entries[j].id + Len(entries) + 1 = nextID + j
  <2>1. entries[j] \in Line
    BY DEF LogTypeOK
  <2>2. QED
    BY <2>1 DEF RingOK, Line
<1>3. nextID \in Nat
  BY DEF LogTypeOK
<1>4. Rising(entries)
  BY <1>1, <1>2, <1>3 DEF Rising
<1>5. QED
  BY <1>1, <1>2, <1>3, <1>4

\* EntriesAfter: everything held after an ID, in its order.
LEMMA WhatIsReplayed ==
  ASSUME LogTypeOK, RingOK, NEW id \in Nat
  PROVE  /\ EntriesAfter(id) \in Seq(Line) /\ Rising(EntriesAfter(id))
         /\ ToSet(EntriesAfter(id)) = {line \in Held : line.id > id}
<1> DEFINE ringStart == IF entries = <<>> THEN nextID ELSE entries[1].id
           evicted == {line \in ToSet(pinned) : line.id < ringStart}
           newer == {line \in ToSet(pinned \o entries) : line.id > id}
           q == kept(pinned, evicted \cap newer)
           r == kept(entries, newer)
<1>1. EntriesAfter(id) = q \o r
  BY DEF EntriesAfter
<1>2. entries \in Seq(Line) /\ pinned \in Seq(Line) /\ nextID \in Nat
  BY DEF LogTypeOK
<1>3. ToSet(pinned \o entries) = ToSet(pinned) \cup ToSet(entries)
  BY <1>2, Joined
<1>4. ringStart \in Nat /\ ringStart + Len(entries) = nextID
  <2>1. CASE entries = <<>>
    BY <1>2, <2>1
  <2>2. CASE entries # <<>>
    <3>1. 1 \in 1 .. Len(entries) /\ entries[1] \in Line
      BY <1>2, <2>2
    <3>2. entries[1].id \in Nat /\ entries[1].id + Len(entries) + 1 = nextID + 1
      BY <3>1 DEF RingOK, Line
    <3>3. QED
      BY <1>2, <2>2, <3>2
  <2>3. QED
    BY <2>1, <2>2
<1> HIDE DEF ringStart
<1>5. /\ LeftOf(pinned, evicted \cap newer, Len(pinned), q)
      /\ LeftOf(entries, newer, Len(entries), r)
  BY <1>2, Kept
<1> HIDE DEF q, r
<1>6. /\ ToSet(pinned) = {pinned[j] : j \in 1 .. Len(pinned)} /\ ToSet(pinned) \subseteq Line
      /\ ToSet(entries) = {entries[j] : j \in 1 .. Len(entries)} /\ ToSet(entries) \subseteq Line
  BY <1>2, Elems
<1>7. q \in Seq(Line) /\ r \in Seq(Line)
  BY <1>5 DEF LeftOf
<1>8. ToSet(q) \subseteq Line /\ ToSet(r) \subseteq Line
  BY <1>7, Elems
<1>9. \A x \in Line : x \in ToSet(q) <=> x \in ToSet(pinned) /\ x.id < ringStart /\ x.id > id
  BY <1>3, <1>5, <1>6 DEF LeftOf
<1>10. \A x \in Line : x \in ToSet(r) <=> x \in ToSet(entries) /\ x.id > id
  BY <1>3, <1>5, <1>6 DEF LeftOf
<1>11. \A e \in ToSet(entries) : e.id >= ringStart
  <2> SUFFICES ASSUME NEW e \in ToSet(entries) PROVE e.id >= ringStart
    OBVIOUS
  <2>1. e.id \in Nat /\ nextID <= e.id + Len(entries) /\ Len(entries) \in Nat
    BY <1>2, <1>6, RingLines DEF Line
  <2>2. QED
    BY <1>2, <1>4, <2>1
<1>12. Rising(q) /\ Rising(r)
  BY <1>5, RingLines DEF LeftOf, RingOK
<1>13. \A x \in ToSet(q), y \in ToSet(r) : x.id < y.id
  BY <1>4, <1>8, <1>9, <1>10, <1>11 DEF Line
<1>14. \A p \in ToSet(pinned) : p.id < ringStart \/ p \in ToSet(entries)
  <2> SUFFICES ASSUME NEW p \in ToSet(pinned) PROVE p.id < ringStart \/ p \in ToSet(entries)
    OBVIOUS
  <2>1. Known(p) /\ p.id \in Nat
    BY <1>6 DEF RingOK, Held, Line
  <2>2. QED
    BY <1>2, <1>4, <2>1 DEF Known
<1>15. QED
  BY <1>1, <1>6, <1>7, <1>8, <1>9, <1>10, <1>12, <1>13, <1>14, Joined DEF Held

-----------------------------------------------------------------------------
(* The log page: its connection                                             *)

\* What waits for the page is in order, and newer than what it has; what it has been
\* sent before waits only where SendLine skips it.
QueueOK ==
    /\ Rising(backlog) /\ Rising(logChannel)
    /\ logStream # "replaying" => backlog = <<>>
    /\ logStream = "off" => logChannel = <<>>
    /\ lastSent <= lastEventID /\ lastEventID < nextID
    /\ \A line \in ToSet(backlog) : line.id > lastEventID
    /\ \A line \in ToSet(logChannel) : line.id > lastEventID \/ lastSent = lastEventID

\* Once the backlog is read, everything newer than what the page has waits for it,
\* the backlog first.
NothingMissed ==
    logStream \in {"replaying", "live"} /\ ~droppedLine =>
        \A line \in Held : line.id > lastEventID =>
            \/ line \in ToSet(backlog)
            \/ line \in ToSet(logChannel) /\ \A b \in ToSet(backlog) : b.id < line.id

ServerInv == LogTypeOK /\ RingOK /\ QueueOK /\ NothingMissed

\* What a new line does to the lists.
LEMMA AppendLists ==
  ASSUME LogTypeOK, RingOK, NEW kind \in {"output", "outcome", "routine"}, AppendLine(kind)
  PROVE  \E line \in Line, d \in {0, 1} :
            /\ line.id = nextID
            /\ Slid(entries, line, logCapacity, d, entries')
            /\ \/ ~isPinnedOutcome(line) /\ pinned' = pinned
               \/ isPinnedOutcome(line) /\ \E c \in {0, 1} : Slid(pinned, line, pinnedCap, c, pinned')
            /\ outcomes' = pinned' /\ nextID' = nextID + 1
            /\ \/ logChannel' = logChannel /\ (droppedLine' \/ logStream = "off")
               \/ logChannel' = Append(logChannel, line) /\ logStream # "off"
            /\ droppedLine => droppedLine'
            /\ droppedLine' \in BOOLEAN
            /\ UNCHANGED <<logStream, backlog, lastSent, pageVars>>
<1> DEFINE line == [id |-> nextID, kind |-> kind]
<1>1. line \in Line /\ line.id = nextID /\ (isPinnedOutcome(line) <=> kind = "outcome")
  BY DEF LogTypeOK, Line, isPinnedOutcome
<1> HIDE DEF line
<1>2. \E d \in {0, 1} : Slid(entries, line, logCapacity, d, bounded(logCapacity, Append(entries, line)))
  BY <1>1, BoundedSlides, LogAssumption DEF LogTypeOK, RingOK
<1>3. \E c \in {0, 1} : Slid(pinned, line, pinnedCap, c, bounded(pinnedCap, Append(pinned, line)))
  BY <1>1, BoundedSlides, LogAssumption DEF LogTypeOK, RingOK
<1>4. /\ entries' = bounded(logCapacity, Append(entries, line))
      /\ pinned' = IF isPinnedOutcome(line) THEN bounded(pinnedCap, Append(pinned, line)) ELSE pinned
      /\ outcomes' = IF kind = "outcome" THEN bounded(pinnedCap, Append(outcomes, line)) ELSE outcomes
      /\ nextID' = nextID + 1
      /\ UNCHANGED <<logStream, backlog, lastSent, pageVars>>
  BY DEF AppendLine, line
<1>5. outcomes' = pinned'
  BY <1>1, <1>4 DEF RingOK
<1>6. /\ \/ logChannel' = logChannel /\ (droppedLine' \/ logStream = "off")
         \/ logChannel' = Append(logChannel, line) /\ logStream # "off"
      /\ droppedLine => droppedLine'
      /\ droppedLine' \in BOOLEAN
  BY DEF AppendLine, line, LogTypeOK
<1>7. \/ ~isPinnedOutcome(line) /\ pinned' = pinned
      \/ isPinnedOutcome(line) /\ \E c \in {0, 1} : Slid(pinned, line, pinnedCap, c, pinned')
  BY <1>3, <1>4
<1>8. QED
  BY <1>1, <1>2, <1>4, <1>5, <1>6, <1>7

\* A new line keeps the server's side in order.
LEMMA AppendServer ==
  ASSUME ServerInv, NEW kind \in {"output", "outcome", "routine"}, AppendLine(kind)
  PROVE  ServerInv'
<1>0. LogTypeOK /\ RingOK /\ QueueOK /\ NothingMissed
  BY DEF ServerInv
<1>1. PICK line \in Line, d \in {0, 1} :
            /\ line.id = nextID
            /\ Slid(entries, line, logCapacity, d, entries')
            /\ \/ ~isPinnedOutcome(line) /\ pinned' = pinned
               \/ isPinnedOutcome(line) /\ \E c \in {0, 1} : Slid(pinned, line, pinnedCap, c, pinned')
            /\ outcomes' = pinned' /\ nextID' = nextID + 1
            /\ \/ logChannel' = logChannel /\ (droppedLine' \/ logStream = "off")
               \/ logChannel' = Append(logChannel, line) /\ logStream # "off"
            /\ droppedLine => droppedLine'
            /\ droppedLine' \in BOOLEAN
            /\ UNCHANGED <<logStream, backlog, lastSent, pageVars>>
  BY <1>0, AppendLists, Zenon
<1>2. /\ nextID \in Nat \ {0} /\ entries \in Seq(Line) /\ pinned \in Seq(Line)
      /\ backlog \in Seq(Line) /\ logChannel \in Seq(Line)
      /\ logCapacity \in Nat \ {0} /\ pinnedCap \in Nat \ {0}
      /\ Len(entries) \in Nat
  BY <1>0, LogAssumption DEF LogTypeOK
<1>3. /\ ToSet(entries) \subseteq Line /\ ToSet(pinned) \subseteq Line
      /\ ToSet(backlog) \subseteq Line /\ ToSet(logChannel) \subseteq Line
      /\ \A x \in Line : x.id \in Nat \ {0}
  BY <1>2, Elems DEF Line
<1>4. \A x \in Held \cup Queued : x.id < nextID /\ x \in Line
  BY <1>0, <1>3 DEF RingOK, Known, Held, Queued
<1>5. /\ entries' \in Seq(Line) /\ Len(entries') = Len(entries) + 1 - d /\ Len(entries') <= logCapacity
      /\ line \in ToSet(entries') /\ ToSet(entries') \subseteq ToSet(entries) \cup {line}
      /\ \A y \in ToSet(entries) : y \in ToSet(entries') \/ (d = 1 /\ y = entries[1])
  <2>1. entries' \in Seq(Line) /\ Len(entries') = Len(entries) + 1 - d /\ Len(entries') <= logCapacity
    BY <1>1 DEF Slid
  <2>2. /\ line \in ToSet(entries') /\ ToSet(entries') \subseteq ToSet(entries) \cup {line}
        /\ \A y \in ToSet(entries) : y \in ToSet(entries') \/ (d = 1 /\ y = entries[1])
    BY <1>1, <1>2, SlidLines
  <2>3. QED
    BY <2>1, <2>2
<1>6. /\ pinned' \in Seq(Line) /\ Len(pinned') <= pinnedCap /\ Rising(pinned')
      /\ ToSet(pinned') \subseteq ToSet(pinned) \cup {line}
      /\ isPinnedOutcome(line) => line \in ToSet(pinned')
      /\ line \in ToSet(pinned') => isPinnedOutcome(line) \/ line \in ToSet(pinned)
      /\ \A y \in ToSet(pinned) : y \in ToSet(pinned') \/ \A z \in ToSet(pinned') : y.id < z.id
  <2>1. Rising(pinned) /\ Len(pinned) <= pinnedCap /\ \A y \in ToSet(pinned) : y.id < line.id
    BY <1>0, <1>1, <1>4 DEF RingOK, Held
  <2>2. CASE pinned' = pinned /\ ~isPinnedOutcome(line)
    BY <1>2, <2>1, <2>2
  <2>3. ASSUME NEW c \in {0, 1}, isPinnedOutcome(line), Slid(pinned, line, pinnedCap, c, pinned')
        PROVE  /\ pinned' \in Seq(Line) /\ Len(pinned') <= pinnedCap /\ Rising(pinned')
               /\ ToSet(pinned') \subseteq ToSet(pinned) \cup {line} /\ line \in ToSet(pinned')
               /\ \A y \in ToSet(pinned) : y \in ToSet(pinned') \/ \A z \in ToSet(pinned') : y.id < z.id
    <3>1. pinned' \in Seq(Line) /\ Len(pinned') <= pinnedCap
      BY <2>3 DEF Slid
    <3>2. /\ Rising(pinned')
          /\ ToSet(pinned') \subseteq ToSet(pinned) \cup {line} /\ line \in ToSet(pinned')
          /\ \A y \in ToSet(pinned) : y \in ToSet(pinned') \/ \A z \in ToSet(pinned') : y.id < z.id
      BY <1>2, <2>1, <2>3, SlidLines
    <3>3. QED
      BY <3>1, <3>2
  <2>4. QED
    BY <1>1, <2>2, <2>3
<1>7. /\ logChannel' \in Seq(Line)
      /\ Rising(logChannel')
      /\ ToSet(logChannel') \subseteq ToSet(logChannel) \cup {line} /\ ToSet(logChannel) \subseteq ToSet(logChannel')
      /\ logStream = "off" => logChannel' = logChannel
      /\ logStream # "off" /\ ~droppedLine' => line \in ToSet(logChannel')
  <2>1. CASE logChannel' = logChannel /\ (droppedLine' \/ logStream = "off")
    BY <1>0, <1>2, <2>1 DEF QueueOK
  <2>2. CASE logChannel' = Append(logChannel, line) /\ logStream # "off"
    <3>1. Slid(logChannel, line, Len(logChannel) + 1, 0, logChannel')
      BY <1>2, <2>2 DEF Slid
    <3>2. \A x \in ToSet(logChannel) : x.id < line.id
      BY <1>1, <1>4 DEF Queued
    <3>3. Len(logChannel) + 1 \in Nat \ {0}
      BY <1>2
    <3>4. logChannel' \in Seq(Line)
      BY <3>1 DEF Slid
    <3>5. /\ line \in ToSet(logChannel') /\ ToSet(logChannel') \subseteq ToSet(logChannel) \cup {line}
          /\ ToSet(logChannel) \subseteq ToSet(logChannel')
          /\ Rising(logChannel) => Rising(logChannel')
      BY <1>2, <3>1, <3>2, <3>3, SlidLines
    <3>6. QED
      BY <1>0, <2>2, <3>4, <3>5 DEF QueueOK
  <2>3. QED
    BY <1>1, <2>1, <2>2
<1>8. LogTypeOK'
  BY <1>0, <1>1, <1>2, <1>5, <1>6, <1>7 DEF LogTypeOK, pageVars
<1>9. ASSUME NEW x, x = line \/ x \in Held \cup Queued PROVE Known(x)'
  <2>1. x \in Line /\ x.id < nextID + 1 /\ x.id \in Nat
    BY <1>1, <1>3, <1>4, <1>9
  <2>2. x.id + Len(entries') < nextID + 1 \/ x \in ToSet(entries')
    <3>1. CASE x = line
      BY <1>5, <3>1
    <3>2. CASE x \in Held \cup Queued /\ x \notin ToSet(entries')
      <4>1. x.id + Len(entries) < nextID \/ x \in ToSet(entries)
        BY <1>0, <3>2 DEF RingOK, Known
      <4>2. CASE x.id + Len(entries) < nextID
        BY <1>2, <1>5, <2>1, <4>2
      <4>3. CASE x \in ToSet(entries)
        <5>1. d = 1 /\ x = entries[1]
          BY <1>5, <3>2, <4>3
        <5>2. Len(entries) # 0
          BY <1>2, <4>3 DEF ToSet
        <5>3. x.id + Len(entries) + 1 = nextID + 1
          BY <1>0, <1>2, <5>1, <5>2 DEF RingOK
        <5>4. QED
          BY <1>2, <1>5, <2>1, <5>1, <5>3
      <4>4. QED
        BY <4>1, <4>2, <4>3
    <3>3. QED
      BY <1>9, <3>1, <3>2
  <2>3. ASSUME isPinnedOutcome(x)
        PROVE  x \in ToSet(pinned') \/ \A p \in ToSet(pinned') : x.id < p.id
    <3>1. CASE x = line
      BY <1>6, <2>3, <3>1
    <3>2. CASE x \in Held \cup Queued
      <4>1. x \in ToSet(pinned) \/ \A p \in ToSet(pinned) : x.id < p.id
        BY <1>0, <2>3, <3>2 DEF RingOK, Known
      <4>2. x.id < line.id
        BY <1>1, <1>4, <3>2
      <4>3. QED
        BY <1>6, <4>1, <4>2
    <3>3. QED
      BY <1>9, <3>1, <3>2
  <2>4. QED
    BY <1>1, <2>1, <2>2, <2>3 DEF Known, isPinnedOutcome
<1>10. Held' \subseteq Held \cup {line} /\ Queued' \subseteq Queued \cup {line} /\ Queued \subseteq Queued'
  BY <1>1, <1>5, <1>6, <1>7 DEF Held, Queued
<1>11. d \in {0, 1} /\ line.id = nextID /\ nextID' = nextID + 1 /\ Len(entries') \in Nat
  BY <1>1, <1>2, <1>5
<1>12. \A j \in 1 .. Len(entries') : entries'[j].id + Len(entries') + 1 = nextID' + j
  <2> SUFFICES ASSUME NEW j \in 1 .. Len(entries')
               PROVE  entries'[j].id + Len(entries') + 1 = nextID' + j
    OBVIOUS
  <2>1. CASE j = Len(entries')
    <3>1. entries'[j] = line
      BY <1>1, <2>1 DEF Slid
    <3>2. entries'[j].id = nextID /\ nextID \in Nat
      BY <1>2, <1>11, <3>1
    <3>3. QED
      BY <1>11, <2>1, <3>2
  <2>2. CASE j # Len(entries')
    <3>0. j \in 1 .. Len(entries') - 1 /\ j + d \in 1 .. Len(entries)
      BY <1>2, <1>5, <1>11, <2>2
    <3>1. entries'[j] = entries[j + d] /\ j + d \in 1 .. Len(entries)
      BY <1>1, <3>0 DEF Slid
    <3>2. entries[j + d].id + Len(entries) + 1 = nextID + (j + d) /\ entries[j + d].id \in Nat
      BY <1>0, <1>2, <1>3, <3>1, Elems DEF RingOK
    <3>3. entries'[j].id + Len(entries) + 1 = nextID + (j + d) /\ entries'[j].id \in Nat
      BY <3>1, <3>2
    <3>4. Len(entries) \in Nat /\ nextID \in Nat /\ Len(entries') = Len(entries) + 1 - d
      BY <1>2, <1>5
    <3>5. j \in Nat
      BY <1>11
    <3> DEFINE m == entries'[j].id
               l == Len(entries)
    <3>6. m \in Nat /\ l \in Nat /\ m + l + 1 = nextID + (j + d)
      BY <3>3, <3>4
    <3> HIDE DEF m, l
    <3>7. CASE d = 0
      <4>1. m + l + 1 = nextID + j
        BY <3>4, <3>5, <3>6, <3>7
      <4>2. m + (l + 1) + 1 = (nextID + 1) + j
        BY <3>4, <3>5, <3>6, <4>1
      <4>3. QED
        BY <1>11, <3>4, <3>6, <3>7, <4>2 DEF m, l
    <3>8. CASE d = 1
      BY <1>11, <3>4, <3>5, <3>6, <3>8 DEF m, l
    <3>9. QED
      BY <1>11, <3>7, <3>8
  <2>3. QED
    BY <2>1, <2>2
<1>13. \A p \in ToSet(pinned') : isPinnedOutcome(p)
  BY <1>0, <1>6 DEF RingOK
<1>14. RingOK'
  BY <1>1, <1>5, <1>6, <1>9, <1>10, <1>12, <1>13 DEF RingOK, isPinnedOutcome
<1>15. QueueOK'
  BY <1>0, <1>1, <1>3, <1>7 DEF QueueOK, LogTypeOK, pageVars
<1>16. NothingMissed'
  <2> SUFFICES ASSUME logStream \in {"replaying", "live"}, ~droppedLine',
                      NEW x \in Held', x.id > lastEventID
               PROVE  \/ x \in ToSet(backlog)
                      \/ x \in ToSet(logChannel') /\ \A b \in ToSet(backlog) : b.id < x.id
    BY <1>1 DEF NothingMissed, pageVars
  <2>1. CASE x = line
    BY <1>1, <1>4, <1>7, <2>1 DEF Queued
  <2>2. CASE x # line
    BY <1>0, <1>1, <1>7, <1>10, <2>2 DEF NothingMissed
  <2>3. QED
    BY <2>1, <2>2
<1>17. QED
  BY <1>8, <1>14, <1>15, <1>16 DEF ServerInv

\* Taking the first line off a list.
LEMMA Popped ==
  ASSUME NEW q \in Seq(Line), q # <<>>
  PROVE  /\ Head(q) \in Line /\ Tail(q) \in Seq(Line)
         /\ ToSet(q) = ToSet(Tail(q)) \cup {Head(q)}
         /\ Rising(q) => Rising(Tail(q)) /\ \A y \in ToSet(Tail(q)) : Head(q).id < y.id
<1> DEFINE r == Tail(q)
<1>1. /\ Len(q) \in Nat \ {0} /\ r \in Seq(Line) /\ Len(r) = Len(q) - 1 /\ Head(q) = q[1]
      /\ \A j \in 1 .. Len(r) : r[j] = q[j + 1]
  OBVIOUS
<1> HIDE DEF r
<1>2. /\ ToSet(q) = {q[j] : j \in 1 .. Len(q)} /\ ToSet(r) = {r[j] : j \in 1 .. Len(r)}
      /\ ToSet(q) \subseteq Line
  BY <1>1, Elems
<1>3. 1 \in 1 .. Len(q) /\ \A j \in 1 .. Len(r) : j + 1 \in 1 .. Len(q)
  BY <1>1
<1>4. ASSUME NEW j \in 1 .. Len(q) PROVE j = 1 \/ (j - 1 \in 1 .. Len(r) /\ r[j - 1] = q[j])
  <2>1. CASE j # 1
    <3>1. j - 1 \in 1 .. Len(r) /\ (j - 1) + 1 = j
      BY <1>1, <2>1
    <3>2. QED
      BY <1>1, <3>1
  <2>2. QED
    BY <2>1
<1>5. ToSet(q) = ToSet(r) \cup {q[1]}
  BY <1>1, <1>2, <1>3, <1>4
<1>6. ASSUME Rising(q)
      PROVE  Rising(r) /\ \A y \in ToSet(r) : q[1].id < y.id
  <2>1. ASSUME NEW j \in 1 .. Len(r), NEW k \in 1 .. Len(r), j < k PROVE r[j].id < r[k].id
    <3>1. j + 1 \in 1 .. Len(q) /\ k + 1 \in 1 .. Len(q) /\ j + 1 < k + 1
      BY <1>1, <1>3, <2>1
    <3>2. QED
      BY <1>1, <1>6, <3>1 DEF Rising
  <2>2. ASSUME NEW j \in 1 .. Len(r) PROVE q[1].id < r[j].id
    <3>1. j + 1 \in 1 .. Len(q) /\ 1 < j + 1
      BY <1>1, <1>3
    <3>2. QED
      BY <1>1, <1>3, <1>6, <3>1 DEF Rising
  <2>3. QED
    BY <1>2, <2>1, <2>2 DEF Rising
<1>7. QED
  BY <1>1, <1>2, <1>3, <1>5, <1>6 DEF r

\* The page gets a line: the oldest one it does not have, if nothing was dropped.
Receive(line) ==
    /\ line \in Line /\ line.id > lastEventID /\ Known(line)
    /\ ~droppedLine => \A x \in Held : x.id > lastEventID => x = line \/ x.id > line.id
    /\ pushLog(line) /\ lastEventID' = line.id
    /\ UNCHANGED <<logVars, outcomes, droppedLine>>

\* A step that leaves the page and the lists alone.
Aside == UNCHANGED <<logVars, outcomes, droppedLine, pageVars>>

\* The lists stay in order while a line of them is sent.
LEMMA KnownStays ==
  ASSUME RingOK, UNCHANGED <<logVars, outcomes>>, Queued' \subseteq Held \cup Queued
  PROVE  RingOK'
<1>1. /\ nextID' = nextID /\ entries' = entries /\ pinned' = pinned /\ outcomes' = outcomes
      /\ Held' = Held
  BY DEF logVars, Held
<1>2. \A x : Known(x) => Known(x)'
  BY <1>1 DEF Known, isPinnedOutcome
<1>3. QED
  BY <1>1, <1>2 DEF RingOK, isPinnedOutcome

LEMMA ReplayServer ==
  ASSUME ServerInv, Replay
  PROVE  ServerInv' /\ (Aside \/ \E line : Receive(line))
<1>0. LogTypeOK /\ RingOK /\ QueueOK /\ NothingMissed
  BY DEF ServerInv
<1>1. CASE backlog = <<>>
  <2>1. /\ logStream' = "live"
        /\ UNCHANGED <<nextID, entries, pinned, outcomes, droppedLine, logChannel, backlog, lastSent,
                       lastEventID, logEntries, pinnedLogEntries>>
    BY <1>1 DEF Replay, logVars, pageVars
  <2>2. Aside
    BY <2>1 DEF Aside, logVars, pageVars
  <2>3. Queued' = Queued /\ Held' = Held
    BY <2>1 DEF Queued, Held
  <2>4. LogTypeOK' /\ QueueOK'
    BY <1>0, <1>1, <2>1 DEF LogTypeOK, QueueOK
  <2>5. RingOK'
    BY <1>0, <2>2, <2>3, KnownStays DEF Aside
  <2>6. NothingMissed'
    BY <1>0, <2>1, <2>3 DEF NothingMissed, Replay
  <2>7. QED
    BY <2>2, <2>4, <2>5, <2>6 DEF ServerInv
<1>2. CASE backlog # <<>>
  <2> DEFINE line == Head(backlog)
  <2>1. /\ pushLog(line) /\ lastSent' = line.id /\ lastEventID' = line.id /\ backlog' = Tail(backlog)
        /\ UNCHANGED <<nextID, entries, pinned, logStream, logChannel, outcomes, droppedLine>>
        /\ logStream = "replaying" /\ UNCHANGED <<logVars, outcomes, droppedLine>>
    BY <1>2 DEF Replay, writeLogSSE, logVars
  <2>2. /\ line \in Line /\ backlog' \in Seq(Line)
        /\ ToSet(backlog) = ToSet(backlog') \cup {line}
        /\ Rising(backlog') /\ \A y \in ToSet(backlog') : line.id < y.id
    BY <1>0, <1>2, <2>1, Popped DEF LogTypeOK, QueueOK
  <2> HIDE DEF line
  <2>3. Known(line) /\ line.id > lastEventID /\ line.id \in Nat /\ line.id < nextID
    BY <1>0, <2>2 DEF RingOK, QueueOK, Queued, Known, Line
  <2>4. Queued' \subseteq Queued /\ Held' = Held
    BY <2>1, <2>2 DEF Queued, Held
  <2>5. LogTypeOK'
    BY <1>0, <2>1, <2>2, <2>3 DEF LogTypeOK
  <2>6. RingOK'
    BY <1>0, <2>1, <2>4, KnownStays
  <2>7. QueueOK'
    BY <1>0, <2>1, <2>2, <2>3 DEF QueueOK
  <2>8. Held \subseteq Line
    BY <1>0, Elems DEF LogTypeOK, Held
  <2>9. NothingMissed'
    <3> SUFFICES ASSUME ~droppedLine, NEW x \in Held, x.id > line.id
                 PROVE  \/ x \in ToSet(backlog')
                        \/ x \in ToSet(logChannel) /\ \A b \in ToSet(backlog') : b.id < x.id
      BY <2>1, <2>4 DEF NothingMissed
    <3>1. x.id > lastEventID /\ x # line
      BY <1>0, <2>3, <2>8 DEF LogTypeOK, Line
    <3>2. QED
      BY <1>0, <2>1, <2>2, <3>1 DEF NothingMissed
  <2>10. ASSUME ~droppedLine, NEW x \in Held, x.id > lastEventID PROVE x = line \/ x.id > line.id
    <3>1. x.id \in Nat /\ line.id \in Nat
      BY <2>3, <2>8 DEF Line
    <3>2. x \in ToSet(backlog) \/ line.id < x.id
      BY <1>0, <2>1, <2>2, <2>10 DEF NothingMissed
    <3>3. QED
      BY <2>2, <3>1, <3>2
  <2>11. Receive(line)
    BY <2>1, <2>2, <2>3, <2>10 DEF Receive
  <2>12. QED
    BY <2>5, <2>6, <2>7, <2>9, <2>11 DEF ServerInv
<1>3. QED
  BY <1>1, <1>2

LEMMA SendServer ==
  ASSUME ServerInv, SendLine
  PROVE  ServerInv' /\ (Aside \/ \E line : Receive(line))
<1>0. LogTypeOK /\ RingOK /\ QueueOK /\ NothingMissed
  BY DEF ServerInv
<1> DEFINE line == Head(logChannel)
<1>1. /\ logStream = "live" /\ logChannel # <<>> /\ logChannel' = Tail(logChannel) /\ backlog = <<>>
      /\ UNCHANGED <<nextID, entries, pinned, logStream, backlog, outcomes, droppedLine>>
      /\ UNCHANGED <<logVars, outcomes, droppedLine>>
  BY <1>0 DEF SendLine, QueueOK, logVars
<1>2. /\ line \in Line /\ logChannel' \in Seq(Line)
      /\ ToSet(logChannel) = ToSet(logChannel') \cup {line}
      /\ Rising(logChannel') /\ \A y \in ToSet(logChannel') : line.id < y.id
  BY <1>0, <1>1, Popped DEF LogTypeOK, QueueOK
<1>3. \/ line.id <= lastSent /\ UNCHANGED <<lastSent, lastEventID, logEntries, pinnedLogEntries>>
      \/ ~(line.id <= lastSent) /\ pushLog(line) /\ lastSent' = line.id /\ lastEventID' = line.id
  BY DEF SendLine, writeLogSSE, pageVars
<1> HIDE DEF line
<1>4. Known(line) /\ line.id \in Nat /\ line.id < nextID
  BY <1>0, <1>2 DEF RingOK, Queued, Known, Line
<1>5. Queued' \subseteq Queued /\ Held' = Held /\ ToSet(backlog) = {} /\ ToSet(backlog') = {}
  BY <1>1, <1>2 DEF Queued, Held, ToSet
<1>6. RingOK'
  BY <1>0, <1>1, <1>5, KnownStays
<1>7. Held \subseteq Line /\ lastSent \in Nat /\ lastEventID \in Nat /\ lastSent <= lastEventID
  BY <1>0, Elems DEF LogTypeOK, Held, QueueOK
<1>8. LogTypeOK' /\ QueueOK'
  BY <1>0, <1>1, <1>2, <1>3, <1>4, <1>5, <1>7 DEF LogTypeOK, QueueOK
<1>9. NothingMissed'
  <2> SUFFICES ASSUME ~droppedLine, NEW x \in Held, x.id > lastEventID'
               PROVE  x \in ToSet(logChannel')
    BY <1>1, <1>5 DEF NothingMissed
  <2>1. x.id > lastEventID /\ x.id > line.id
    <3>1. x.id \in Nat
      BY <1>7 DEF Line
    <3>2. line.id <= lastSent \/ line.id > lastEventID
      BY <1>0, <1>2, <1>4, <1>7 DEF QueueOK
    <3>3. QED
      BY <1>3, <1>4, <1>7, <3>1, <3>2
  <2>2. QED
    BY <1>0, <1>1, <1>2, <1>4, <1>5, <2>1 DEF NothingMissed
<1>10. CASE line.id <= lastSent
  BY <1>1, <1>3, <1>6, <1>8, <1>9, <1>10 DEF ServerInv, Aside, pageVars
<1>11. CASE ~(line.id <= lastSent)
  <2>1. line.id > lastEventID
    BY <1>0, <1>2, <1>4, <1>7, <1>11 DEF QueueOK
  <2>2. ASSUME ~droppedLine, NEW x \in Held, x.id > lastEventID PROVE x = line \/ x.id > line.id
    BY <1>0, <1>1, <1>2, <1>4, <1>5, <1>7, <2>2 DEF NothingMissed, Line
  <2>3. Receive(line)
    BY <1>1, <1>2, <1>3, <1>4, <1>11, <2>1, <2>2 DEF Receive
  <2>4. QED
    BY <1>6, <1>8, <1>9, <2>3 DEF ServerInv
<1>12. QED
  BY <1>10, <1>11

\* Subscribing, reading the backlog, a break and a restart leave the page alone,
\* but for what it will ask from.
LEMMA ConnectServer ==
  ASSUME ServerInv, SubscribeLog \/ ReadBacklog \/ BreakLog
  PROVE  /\ ServerInv'
         /\ UNCHANGED <<logVars, outcomes, droppedLine, logEntries, pinnedLogEntries>>
         /\ lastEventID' \in {lastEventID, 0}
<1>0. LogTypeOK /\ RingOK /\ QueueOK /\ NothingMissed
  BY DEF ServerInv
<1>1. CASE SubscribeLog \/ BreakLog
  <2>1. /\ UNCHANGED <<logVars, outcomes, droppedLine, logEntries, pinnedLogEntries>>
        /\ UNCHANGED <<nextID, entries, pinned, outcomes, droppedLine>>
        /\ lastEventID' \in {lastEventID, 0} /\ lastSent' = 0
        /\ logStream' \in {"off", "subscribed"} /\ logChannel' = <<>> /\ backlog' = <<>>
    BY <1>1 DEF SubscribeLog, BreakLog, disconnected, logVars, pageVars
  <2>2. <<>> \in Seq(Line) /\ Rising(<<>>) /\ ToSet(<<>>) = {}
    BY DEF Rising, ToSet
  <2>3. LogTypeOK'
    BY <1>0, <2>1, <2>2 DEF LogTypeOK
  <2>4. RingOK'
    BY <1>0, <2>1, <2>2, KnownStays DEF Queued
  <2>5. QueueOK'
    BY <1>0, <2>1, <2>2 DEF QueueOK, LogTypeOK
  <2>6. QED
    BY <2>1, <2>3, <2>4, <2>5 DEF ServerInv, NothingMissed
<1>2. CASE ReadBacklog
  <2>1. /\ UNCHANGED <<logVars, outcomes, droppedLine, logEntries, pinnedLogEntries>>
        /\ UNCHANGED <<nextID, entries, pinned, outcomes, droppedLine, lastEventID, lastSent, logChannel>>
        /\ logStream' = "replaying" /\ backlog' = EntriesAfter(lastEventID)
    BY <1>2 DEF ReadBacklog, logVars, pageVars
  <2>2. /\ backlog' \in Seq(Line) /\ Rising(backlog')
        /\ ToSet(backlog') = {line \in Held : line.id > lastEventID}
    BY <1>0, <2>1, WhatIsReplayed DEF LogTypeOK
  <2>3. LogTypeOK'
    BY <1>0, <2>1, <2>2 DEF LogTypeOK
  <2>4. RingOK'
    BY <1>0, <2>1, <2>2, KnownStays DEF Queued
  <2>5. QueueOK'
    BY <1>0, <2>1, <2>2 DEF QueueOK
  <2>6. NothingMissed'
    BY <2>1, <2>2 DEF NothingMissed, Held
  <2>7. QED
    BY <2>1, <2>3, <2>4, <2>5, <2>6 DEF ServerInv
<1>3. QED
  BY <1>1, <1>2

LEMMA RestartServer ==
  ASSUME ServerInv, RestartLog
  PROVE  ServerInv' /\ entries' = <<>> /\ pinned' = <<>> /\ UNCHANGED pageVars /\ nextID' = nextID + 1
<1>1. /\ nextID' = nextID + 1 /\ entries' = <<>> /\ pinned' = <<>> /\ outcomes' = <<>>
      /\ droppedLine' = FALSE /\ logStream' = "off" /\ logChannel' = <<>> /\ backlog' = <<>>
      /\ lastSent' = 0 /\ lastEventID' = lastEventID /\ UNCHANGED pageVars
  BY DEF RestartLog, disconnected, pageVars
<1>2. <<>> \in Seq(Line) /\ Rising(<<>>) /\ ToSet(<<>>) = {} /\ Len(<<>>) = 0
  BY DEF Rising, ToSet
<1>3. LogTypeOK /\ QueueOK
  BY DEF ServerInv
<1>4. LogTypeOK'
  <2>1. nextID' \in Nat \ {0} /\ lastEventID' \in Nat
    BY <1>1, <1>3 DEF LogTypeOK
  <2>2. droppedLine' \in BOOLEAN
    BY <1>1, Zenon
  <2>3. QED
    BY <1>1, <1>2, <2>1, <2>2 DEF LogTypeOK
<1>5. RingOK'
  BY <1>1, <1>2, LogAssumption DEF RingOK, Held, Queued
<1>6. QueueOK'
  BY <1>1, <1>2, <1>3 DEF QueueOK, LogTypeOK
<1>7. QED
  BY <1>1, <1>4, <1>5, <1>6 DEF ServerInv, NothingMissed

LEMMA ServerInit == LogInit => ServerInv
<1>1. <<>> \in Seq(Line) /\ Rising(<<>>) /\ ToSet(<<>>) = {} /\ Len(<<>>) = 0
  BY DEF Rising, ToSet
<1> SUFFICES ASSUME LogInit PROVE ServerInv
  OBVIOUS
<1>2. /\ nextID = 1 /\ entries = <<>> /\ pinned = <<>> /\ outcomes = <<>> /\ lastEventID = 0
      /\ logStream = "off" /\ logChannel = <<>> /\ backlog = <<>> /\ lastSent = 0
  BY DEF LogInit
<1>3. droppedLine \in BOOLEAN
  BY Zenon DEF LogInit
<1>4. LogTypeOK
  BY <1>1, <1>2, <1>3 DEF LogTypeOK
<1>5. RingOK
  BY <1>1, <1>2, LogAssumption DEF RingOK, Held, Queued
<1>6. QueueOK
  BY <1>1, <1>2 DEF QueueOK
<1>7. QED
  BY <1>2, <1>4, <1>5, <1>6 DEF ServerInv, NothingMissed

-----------------------------------------------------------------------------
(* The log page: its buffers                                                *)

NewestPinned == IF pinnedLogEntries = <<>> THEN 0 ELSE Last(pinnedLogEntries).id

\* The page's buffers.
PageTypeOK ==
    /\ logEntries \in Seq(Line) /\ Len(logEntries) <= logCapacity
    /\ pinnedLogEntries \in Seq(Line) /\ Len(pinnedLogEntries) <= pinnedCap
    /\ Rising(pinnedLogEntries)
    /\ \A p \in ToSet(pinnedLogEntries) : p.id < nextID

\* The lines of the ring the page has had are the newest of its own.
RingShown ==
    \A e \in ToSet(entries) : e.id <= lastEventID =>
        /\ lastEventID - e.id < Len(logEntries)
        /\ logEntries[Len(logEntries) - (lastEventID - e.id)] = e

\* The pinned outcomes it has had are the newest it has pinned.
PinnedShown ==
    \E n \in 0 .. Len(pinned) :
        /\ \A k \in 1 .. Len(pinned) : pinned[k].id <= NewestPinned <=> k <= n
        /\ n <= Len(pinnedLogEntries)
        /\ \A k \in 1 .. n : pinnedLogEntries[Len(pinnedLogEntries) - n + k] = pinned[k]

\* Behind a pinned outcome the page has had, or behind the place it has left, its
\* ring has only newer lines.
InPlace(p) ==
    \E k \in 0 .. Len(logEntries) :
        /\ k = 0 \/ logEntries[k] = p
        /\ \A j \in k + 1 .. Len(logEntries) : logEntries[j].id > p.id

PinnedSeen ==
    \A p \in ToSet(pinned) : p.id <= lastEventID => p.id <= NewestPinned /\ InPlace(p)

PageInv == PageTypeOK /\ (~droppedLine => RingShown /\ PinnedShown /\ PinnedSeen)

\* The newest pinned line is one of them.
LEMMA NewestIsOne ==
  ASSUME PageTypeOK
  PROVE  /\ NewestPinned \in Nat
         /\ \A p \in ToSet(pinnedLogEntries) : p.id <= NewestPinned
         /\ pinnedLogEntries # <<>> => NewestPinned = pinnedLogEntries[Len(pinnedLogEntries)].id
<1>1. CASE pinnedLogEntries = <<>>
  BY <1>1 DEF NewestPinned, ToSet
<1>2. CASE pinnedLogEntries # <<>>
  <2>1. /\ Len(pinnedLogEntries) \in Nat \ {0} /\ pinnedLogEntries \in Seq(Line)
        /\ Len(pinnedLogEntries) \in 1 .. Len(pinnedLogEntries)
    BY <1>2 DEF PageTypeOK
  <2>2. NewestPinned = pinnedLogEntries[Len(pinnedLogEntries)].id
    BY <1>2 DEF NewestPinned, Last
  <2>3. \A j \in 1 .. Len(pinnedLogEntries) : pinnedLogEntries[j] \in Line
    BY <2>1
  <2>4. \A j \in 1 .. Len(pinnedLogEntries) : pinnedLogEntries[j].id <= NewestPinned
    <3> SUFFICES ASSUME NEW j \in 1 .. Len(pinnedLogEntries)
                 PROVE  pinnedLogEntries[j].id <= NewestPinned
      OBVIOUS
    <3>1. CASE j = Len(pinnedLogEntries)
      BY <2>1, <2>2, <2>3, <3>1 DEF Line
    <3>2. CASE j # Len(pinnedLogEntries)
      BY <2>1, <2>2, <2>3, <3>2 DEF PageTypeOK, Rising, Line
    <3>3. QED
      BY <3>1, <3>2
  <2>5. QED
    BY <2>1, <2>2, <2>3, <2>4, Elems DEF Line
<1>3. QED
  BY <1>1, <1>2

\* A buffer that takes a line keeps the others at their place before it.
LEMMA SlidFromEnd ==
  ASSUME NEW q \in Seq(Line), NEW x, NEW n, NEW d, NEW r, Slid(q, x, n, d, r),
         NEW m \in Nat, m + 1 < Len(r)
  PROVE  m < Len(q) /\ r[Len(r) - (m + 1)] = q[Len(q) - m]
<1>0. /\ d \in {0, 1} /\ r \in Seq(Line) /\ Len(r) = Len(q) + 1 - d
      /\ \A j \in 1 .. Len(r) - 1 : r[j] = q[j + d]
  BY Zenon DEF Slid
<1>1. /\ d \in {0, 1} /\ Len(r) = Len(q) + 1 - d /\ Len(r) \in Nat /\ Len(q) \in Nat
      /\ \A j \in 1 .. Len(r) - 1 : r[j] = q[j + d]
  BY <1>0
<1> DEFINE j == Len(r) - (m + 1)
<1>2. j \in 1 .. Len(r) - 1 /\ j + d = Len(q) - m /\ m < Len(q)
  <2> DEFINE lr == Len(r)
             lq == Len(q)
  <2>1. lr \in Nat /\ lq \in Nat /\ lr = lq + 1 - d /\ m + 1 < lr
    BY <1>1
  <2> HIDE DEF lr, lq
  <2>2. CASE d = 0
    BY <2>1, <2>2 DEF lr, lq
  <2>3. CASE d = 1
    BY <2>1, <2>3 DEF lr, lq
  <2>4. QED
    BY <1>1, <2>2, <2>3
<1> HIDE DEF j
<1>3. r[j] = q[j + d]
  BY <1>1, <1>2
<1>4. QED
  BY <1>2, <1>3 DEF j

\* What pushLog does to the page's buffers.
LEMMA Pushed ==
  ASSUME PageTypeOK, NEW line \in Line, pushLog(line)
  PROVE  /\ \E d \in {0, 1} : Slid(logEntries, line, logCapacity, d, logEntries')
         /\ \/ /\ isPinnedOutcome(line) /\ NewestPinned < line.id /\ NewestPinned' = line.id
               /\ \E c \in {0, 1} : Slid(pinnedLogEntries, line, pinnedCap, c, pinnedLogEntries')
            \/ /\ isPinnedOutcome(line) => line.id <= NewestPinned
               /\ NewestPinned' = NewestPinned /\ pinnedLogEntries' = pinnedLogEntries
<1>1. /\ logEntries' = bounded(logCapacity, Append(logEntries, line))
      /\ pinnedLogEntries' = IF isPinnedOutcome(line)
                                /\ (pinnedLogEntries = <<>> \/ Last(pinnedLogEntries).id < line.id)
                             THEN bounded(pinnedCap, Append(pinnedLogEntries, line))
                             ELSE pinnedLogEntries
  BY DEF pushLog
<1>2. /\ logEntries \in Seq(Line) /\ Len(logEntries) <= logCapacity
      /\ pinnedLogEntries \in Seq(Line) /\ Len(pinnedLogEntries) <= pinnedCap
      /\ logCapacity \in Nat \ {0} /\ pinnedCap \in Nat \ {0}
  BY LogAssumption DEF PageTypeOK
<1>3. \E d \in {0, 1} : Slid(logEntries, line, logCapacity, d, logEntries')
  BY <1>1, <1>2, BoundedSlides
<1>4. line.id \in Nat \ {0} /\ NewestPinned \in Nat
  BY NewestIsOne DEF Line
<1>5. (pinnedLogEntries = <<>> \/ Last(pinnedLogEntries).id < line.id) <=> NewestPinned < line.id
  BY <1>4 DEF NewestPinned
<1>6. CASE isPinnedOutcome(line) /\ NewestPinned < line.id
  <2>1. pinnedLogEntries' = bounded(pinnedCap, Append(pinnedLogEntries, line))
    BY <1>1, <1>5, <1>6
  <2>2. PICK c \in {0, 1} : Slid(pinnedLogEntries, line, pinnedCap, c, pinnedLogEntries')
    BY <1>2, <2>1, BoundedSlides
  <2>3. /\ pinnedLogEntries' \in Seq(Line) /\ Len(pinnedLogEntries') = Len(pinnedLogEntries) + 1 - c
        /\ pinnedLogEntries'[Len(pinnedLogEntries')] = line
        /\ (c = 1 => Len(pinnedLogEntries) = pinnedCap)
    BY <2>2 DEF Slid
  <2>4. pinnedLogEntries' # <<>>
    BY <1>2, <2>3
  <2>5. NewestPinned' = line.id
    BY <2>3, <2>4 DEF NewestPinned, Last
  <2>6. QED
    BY <1>3, <1>6, <2>2, <2>5
<1>7. CASE ~(isPinnedOutcome(line) /\ NewestPinned < line.id)
  <2>1. pinnedLogEntries' = pinnedLogEntries
    BY <1>1, <1>5, <1>7
  <2>2. NewestPinned' = NewestPinned
    BY <2>1 DEF NewestPinned
  <2>3. QED
    BY <1>3, <1>4, <1>7, <2>1, <2>2
<1>8. QED
  BY <1>6, <1>7

\* The page's buffers keep their sizes and their order.
LEMMA ReceiveType ==
  ASSUME PageTypeOK, ServerInv, NEW line, Receive(line)
  PROVE  PageTypeOK'
<1>1. /\ line \in Line /\ pushLog(line) /\ line.id < nextID /\ nextID' = nextID
  BY DEF Receive, Known, logVars
<1>2. PICK d \in {0, 1} : Slid(logEntries, line, logCapacity, d, logEntries')
  BY <1>1, Pushed
<1>3. logEntries' \in Seq(Line) /\ Len(logEntries') <= logCapacity
  BY <1>2 DEF Slid
<1>4. CASE pinnedLogEntries' = pinnedLogEntries
  BY <1>1, <1>3, <1>4 DEF PageTypeOK
<1>5. ASSUME NEW c \in {0, 1}, Slid(pinnedLogEntries, line, pinnedCap, c, pinnedLogEntries'),
             NewestPinned < line.id
      PROVE  PageTypeOK'
  <2>1. pinnedLogEntries' \in Seq(Line) /\ Len(pinnedLogEntries') <= pinnedCap
    BY <1>5 DEF Slid
  <2>2. pinnedLogEntries \in Seq(Line) /\ pinnedCap \in Nat \ {0} /\ Rising(pinnedLogEntries)
    BY LogAssumption DEF PageTypeOK
  <2>3. \A p \in ToSet(pinnedLogEntries) : p.id < line.id
    <3>1. ToSet(pinnedLogEntries) \subseteq Line
      BY <2>2, Elems
    <3>2. QED
      BY <1>1, <1>5, <3>1, NewestIsOne DEF Line
  <2>4. Rising(pinnedLogEntries') /\ ToSet(pinnedLogEntries') \subseteq ToSet(pinnedLogEntries) \cup {line}
    BY <1>1, <1>5, <2>2, <2>3, SlidLines
  <2>5. QED
    BY <1>1, <1>3, <2>1, <2>4 DEF PageTypeOK
<1>6. QED
  BY <1>1, <1>4, <1>5, Pushed
\* A line the page gets next is the one after its last, if the ring holds one it has.
LEMMA NextInRing ==
  ASSUME ServerInv, ~droppedLine, NEW line, Receive(line),
         NEW e \in ToSet(entries), e.id <= lastEventID
  PROVE  line \in ToSet(entries) /\ line.id = lastEventID + 1
<1>0. LogTypeOK /\ RingOK /\ QueueOK /\ NothingMissed
  BY DEF ServerInv
<1>1. /\ line \in Line /\ line.id > lastEventID /\ line.id < nextID
      /\ \A x \in Held : x.id > lastEventID => x = line \/ x.id > line.id
  BY DEF Receive, Known
<1>2. /\ entries \in Seq(Line) /\ nextID \in Nat /\ lastEventID \in Nat /\ Len(entries) \in Nat
      /\ ToSet(entries) = {entries[j] : j \in 1 .. Len(entries)} /\ ToSet(entries) \subseteq Line
  BY <1>0, Elems DEF LogTypeOK
<1>3. e.id \in Nat /\ line.id \in Nat /\ nextID <= e.id + Len(entries)
  BY <1>0, <1>1, <1>2, RingLines DEF Line
<1> DEFINE j == lastEventID + Len(entries) + 2 - nextID
<1>4. j \in 1 .. Len(entries) /\ nextID + j = (lastEventID + 1) + Len(entries) + 1
  <2> DEFINE l == Len(entries)
  <2>1. l \in Nat /\ nextID <= e.id + l
    BY <1>2, <1>3
  <2> HIDE DEF l
  <2>2. QED
    BY <1>1, <1>2, <1>3, <2>1 DEF l
<1> HIDE DEF j
<1>5. entries[j] \in Line /\ entries[j] \in ToSet(entries) /\ entries[j].id + Len(entries) + 1 = nextID + j
  BY <1>0, <1>2, <1>4 DEF RingOK
<1>6. entries[j].id = lastEventID + 1
  BY <1>2, <1>4, <1>5 DEF Line
<1>7. entries[j] \in Held /\ ~(entries[j].id > line.id)
  BY <1>1, <1>2, <1>3, <1>5, <1>6 DEF Held
<1>8. entries[j] = line
  BY <1>1, <1>2, <1>6, <1>7
<1>9. QED
  BY <1>5, <1>6, <1>8

\* The page's ring stays the newest of what it has had.
LEMMA ReceiveRing ==
  ASSUME PageInv, ServerInv, ~droppedLine, NEW line, Receive(line)
  PROVE  RingShown'
<1>0. LogTypeOK /\ RingOK /\ QueueOK /\ NothingMissed /\ PageTypeOK /\ RingShown
  BY DEF ServerInv, PageInv
<1>1. /\ line \in Line /\ line.id > lastEventID /\ line.id < nextID /\ pushLog(line)
      /\ \A x \in Held : x.id > lastEventID => x = line \/ x.id > line.id
      /\ lastEventID' = line.id /\ entries' = entries
  BY DEF Receive, Known, logVars
<1>2. /\ entries \in Seq(Line) /\ nextID \in Nat /\ lastEventID \in Nat
      /\ Len(entries) \in Nat /\ Len(entries) <= logCapacity /\ logCapacity \in Nat
      /\ ToSet(entries) \subseteq Line /\ line.id \in Nat
  BY <1>0, <1>1, Elems, LogAssumption DEF LogTypeOK, RingOK, Line
<1>3. PICK d \in {0, 1} : Slid(logEntries, line, logCapacity, d, logEntries')
  BY <1>0, <1>1, Pushed
<1>4. /\ Len(logEntries') = Len(logEntries) + 1 - d /\ logEntries' \in Seq(Line)
      /\ d = 1 => Len(logEntries) = logCapacity
      /\ logEntries'[Len(logEntries')] = line
  BY <1>3, Zenon DEF Slid
<1>5. Len(logEntries) \in Nat /\ Len(logEntries') \in Nat /\ logEntries \in Seq(Line)
  BY <1>0, <1>4 DEF PageTypeOK
<1> SUFFICES ASSUME NEW e \in ToSet(entries), e.id <= line.id
             PROVE  /\ line.id - e.id < Len(logEntries')
                    /\ logEntries'[Len(logEntries') - (line.id - e.id)] = e
  BY <1>1 DEF RingShown
<1>6. e.id \in Nat /\ e \in Held /\ nextID <= e.id + Len(entries)
  BY <1>0, <1>2, RingLines DEF Held, Line
<1>7. CASE e.id > lastEventID
  <2>1. e = line
    BY <1>1, <1>2, <1>6, <1>7
  <2>2. Len(logEntries') > 0 /\ line.id - e.id = 0
    <3>1. logCapacity > 0
      BY LogAssumption
    <3>2. CASE d = 0
      BY <1>2, <1>4, <1>5, <2>1, <3>2
    <3>3. CASE d = 1
      BY <1>2, <1>4, <1>5, <2>1, <3>1, <3>3
    <3>4. QED
      BY <1>3, <3>2, <3>3
  <2>3. QED
    BY <1>4, <1>5, <2>1, <2>2
<1>8. CASE e.id <= lastEventID
  <2> DEFINE m == lastEventID - e.id
             l == Len(logEntries)
  <2>1. line.id = lastEventID + 1 /\ m < l /\ logEntries[l - m] = e
    BY <1>0, <1>8, NextInRing DEF RingShown
  <2>2. m \in Nat /\ line.id - e.id = m + 1 /\ m + 1 < Len(entries)
    <3> DEFINE a == line.id
               b == e.id
               c == Len(entries)
    <3>1. /\ a \in Nat /\ b \in Nat /\ c \in Nat /\ lastEventID \in Nat /\ nextID \in Nat
          /\ a = lastEventID + 1 /\ b <= lastEventID /\ a < nextID /\ nextID <= b + c
      BY <1>1, <1>2, <1>6, <1>8, <2>1
    <3> HIDE DEF a, b, c
    <3>2. lastEventID - b \in Nat /\ a - b = (lastEventID - b) + 1 /\ (lastEventID - b) + 1 < c
      BY <3>1
    <3>3. QED
      BY <3>2 DEF a, b, c
  <2>3. l \in Nat /\ Len(logEntries') = l + 1 - d /\ (d = 1 => l = logCapacity)
    BY <1>4, <1>5
  <2> HIDE DEF m, l
  <2>4. m + 1 < Len(logEntries')
    <3>1. CASE d = 0
      BY <2>1, <2>2, <2>3, <3>1
    <3>2. CASE d = 1
      BY <1>2, <2>2, <2>3, <3>2
    <3>3. QED
      BY <1>3, <3>1, <3>2
  <2>5. logEntries'[Len(logEntries') - (m + 1)] = logEntries[Len(logEntries) - m]
    <3>1. Slid(logEntries, line, logCapacity, d, logEntries') /\ logEntries \in Seq(Line)
      BY <1>3, <1>5
    <3>2. m \in Nat /\ m + 1 < Len(logEntries')
      BY <2>2, <2>4
    <3>3. QED
      BY <3>1, <3>2, SlidFromEnd
  <2>6. QED
    BY <2>1, <2>2, <2>4, <2>5 DEF l
<1>9. QED
  BY <1>2, <1>6, <1>7, <1>8
\* The pinned outcomes the page has pinned stay the newest it has pinned.
LEMMA ReceivePinned ==
  ASSUME PageInv, ServerInv, ~droppedLine, NEW line, Receive(line)
  PROVE  PinnedShown'
<1>0. LogTypeOK /\ RingOK /\ QueueOK /\ PageTypeOK /\ PinnedShown /\ PinnedSeen
  BY DEF ServerInv, PageInv
<1>1. /\ line \in Line /\ line.id > lastEventID /\ pushLog(line) /\ pinned' = pinned
      /\ \A x \in Held : x.id > lastEventID => x = line \/ x.id > line.id
      /\ isPinnedOutcome(line) => line \in ToSet(pinned) \/ \A p \in ToSet(pinned) : line.id < p.id
  BY DEF Receive, Known, logVars
<1>2. /\ pinned \in Seq(Line) /\ Len(pinned) \in Nat /\ Len(pinned) <= pinnedCap /\ Rising(pinned)
      /\ ToSet(pinned) = {pinned[j] : j \in 1 .. Len(pinned)} /\ ToSet(pinned) \subseteq Line
      /\ lastEventID \in Nat /\ line.id \in Nat /\ NewestPinned \in Nat
      /\ pinnedLogEntries \in Seq(Line) /\ Len(pinnedLogEntries) \in Nat
  BY <1>0, <1>1, Elems, NewestIsOne DEF LogTypeOK, RingOK, Line, PageTypeOK
<1>3. \A k \in 1 .. Len(pinned) : pinned[k] \in ToSet(pinned) /\ pinned[k] \in Held /\ pinned[k].id \in Nat
  BY <1>2 DEF Held, Line
<1>4. PICK n \in 0 .. Len(pinned) :
        /\ \A k \in 1 .. Len(pinned) : pinned[k].id <= NewestPinned <=> k <= n
        /\ n <= Len(pinnedLogEntries)
        /\ \A k \in 1 .. n : pinnedLogEntries[Len(pinnedLogEntries) - n + k] = pinned[k]
  BY <1>0 DEF PinnedShown
<1>5. CASE NewestPinned' = NewestPinned /\ pinnedLogEntries' = pinnedLogEntries
  BY <1>1, <1>4, <1>5, Zenon DEF PinnedShown
<1>6. ASSUME isPinnedOutcome(line), NewestPinned < line.id, NewestPinned' = line.id,
             NEW c \in {0, 1}, Slid(pinnedLogEntries, line, pinnedCap, c, pinnedLogEntries')
      PROVE  PinnedShown'
  <2> DEFINE Shown(m) ==
        /\ \A k \in 1 .. Len(pinned) : pinned[k].id <= line.id <=> k <= m
        /\ m <= Len(pinnedLogEntries')
        /\ \A k \in 1 .. m : pinnedLogEntries'[Len(pinnedLogEntries') - m + k] = pinned[k]
  <2>1. /\ pinnedLogEntries' \in Seq(Line) /\ Len(pinnedLogEntries') = Len(pinnedLogEntries) + 1 - c
        /\ c = 1 => Len(pinnedLogEntries) = pinnedCap
        /\ pinnedLogEntries'[Len(pinnedLogEntries')] = line
    BY <1>6, Zenon DEF Slid
  <2>2. Len(pinnedLogEntries') \in Nat
    BY <2>1
  <2>3. ASSUME \A p \in ToSet(pinned) : line.id < p.id
        PROVE  Shown(0)
    <3>1. ASSUME NEW k \in 1 .. Len(pinned) PROVE pinned[k].id <= line.id <=> k <= 0
      <4>1. line.id < pinned[k].id /\ pinned[k].id \in Nat
        BY <1>3, <2>3
      <4>2. ~(k <= 0) /\ ~(pinned[k].id <= line.id)
        BY <1>2, <4>1
      <4>3. QED
        BY <4>2
    <3>2. 0 <= Len(pinnedLogEntries') /\ 1 .. 0 = {}
      BY <2>2
    <3>3. QED
      BY <3>1, <3>2, Zenon
  <2>4. ASSUME line \in ToSet(pinned)
        PROVE  n + 1 \in 0 .. Len(pinned) /\ Shown(n + 1)
    <3>1. PICK i \in 1 .. Len(pinned) : line = pinned[i]
      BY <1>2, <2>4
    <3>2. n < i
      BY <1>2, <1>3, <1>4, <1>6, <3>1
    <3>3. i <= n + 1
      <4> SUFFICES ASSUME n + 1 < i PROVE FALSE
        BY <1>2, <3>1
      <4>1. n + 1 \in 1 .. Len(pinned) /\ n + 1 # i
        BY <1>2, <1>4, <3>1
      <4>2. pinned[n + 1].id < line.id
        BY <1>2, <3>1, <4>1 DEF Rising
      <4>3. pinned[n + 1].id <= lastEventID
        <5> DEFINE x == pinned[n + 1]
        <5>1. x \in Held /\ x.id \in Nat /\ x.id < line.id
          BY <1>3, <4>1, <4>2
        <5> HIDE DEF x
        <5>2. ~(x.id > lastEventID)
          BY <1>1, <1>2, <5>1
        <5>3. QED
          BY <1>2, <5>1, <5>2 DEF x
      <4>4. pinned[n + 1].id <= NewestPinned
        BY <1>0, <1>3, <4>1, <4>3 DEF PinnedSeen
      <4>5. n + 1 <= n
        BY <1>4, <4>1, <4>4
      <4>6. QED
        BY <4>5
    <3>4. i = n + 1 /\ n + 1 \in 1 .. Len(pinned)
      BY <1>2, <3>1, <3>2, <3>3
    <3>5. ASSUME NEW k \in 1 .. Len(pinned) PROVE pinned[k].id <= line.id <=> k <= n + 1
      <4>1. CASE k < i
        BY <1>2, <1>3, <3>1, <3>4, <4>1 DEF Rising
      <4>2. CASE k = i
        BY <1>2, <3>1, <3>4, <4>2
      <4>3. CASE i < k
        BY <1>2, <1>3, <3>1, <3>4, <4>3 DEF Rising
      <4>4. QED
        BY <1>2, <3>1, <4>1, <4>2, <4>3
    <3>6. n + 1 <= Len(pinnedLogEntries')
      <4>1. CASE c = 0
        BY <1>2, <1>4, <2>1, <4>1
      <4>2. CASE c = 1
        BY <1>2, <2>1, <3>4, <4>2, LogAssumption
      <4>3. QED
        BY <1>6, <4>1, <4>2
    <3>7. ASSUME NEW k \in 1 .. n + 1
          PROVE  pinnedLogEntries'[Len(pinnedLogEntries') - (n + 1) + k] = pinned[k]
      <4>1. CASE k = n + 1
        <5>1. Len(pinnedLogEntries') - (n + 1) + k = Len(pinnedLogEntries')
          BY <2>2, <4>1
        <5>2. QED
          BY <2>1, <3>1, <3>4, <4>1, <5>1
      <4>2. CASE k # n + 1
        <5> DEFINE m == n - k
        <5>1. k \in 1 .. n /\ m \in Nat /\ m + 1 < Len(pinnedLogEntries')
          BY <2>2, <3>6, <4>2
        <5>2. /\ Len(pinnedLogEntries') - (n + 1) + k = Len(pinnedLogEntries') - (m + 1)
              /\ Len(pinnedLogEntries) - n + k = Len(pinnedLogEntries) - m
          BY <1>2, <2>2
        <5>3. m \in Nat /\ m + 1 < Len(pinnedLogEntries')
          BY <5>1
        <5> HIDE DEF m, Shown
        <5>4. pinnedLogEntries'[Len(pinnedLogEntries') - (m + 1)] = pinnedLogEntries[Len(pinnedLogEntries) - m]
          <6>1. Slid(pinnedLogEntries, line, pinnedCap, c, pinnedLogEntries') /\ pinnedLogEntries \in Seq(Line)
            BY <1>2, <1>6
          <6>2. QED
            BY <5>3, <6>1, SlidFromEnd
        <5>5. pinnedLogEntries[Len(pinnedLogEntries) - m] = pinned[k]
          BY <1>4, <5>1, <5>2
        <5>6. QED
          BY <5>2, <5>4, <5>5
      <4>3. QED
        BY <4>1, <4>2
    <3>8. QED
      <4>1. Shown(n + 1)
        BY <3>5, <3>6, <3>7, Zenon
      <4> HIDE DEF Shown
      <4>2. QED
        BY <1>2, <3>4, <4>1
  <2> HIDE DEF Shown
  <2>5. \E m \in 0 .. Len(pinned) : Shown(m)
    <3>1. CASE line \in ToSet(pinned)
      BY <2>4, <3>1
    <3>2. CASE line \notin ToSet(pinned)
      <4>1. Shown(0)
        BY <1>1, <1>6, <2>3, <3>2
      <4>2. QED
        BY <1>2, <4>1
    <3>3. QED
      BY <3>1, <3>2
  <2>6. QED
    BY <1>1, <1>6, <2>5, Zenon DEF Shown, PinnedShown
<1>7. QED
  BY <1>0, <1>1, <1>5, <1>6, Pushed

\* A pinned outcome the page has had keeps its place.
LEMMA ReceiveSeen ==
  ASSUME PageInv, ServerInv, ~droppedLine, NEW line, Receive(line)
  PROVE  PinnedSeen'
<1>0. LogTypeOK /\ RingOK /\ QueueOK /\ PageTypeOK /\ PinnedSeen
  BY DEF ServerInv, PageInv
<1>1. /\ line \in Line /\ line.id > lastEventID /\ pushLog(line) /\ pinned' = pinned
      /\ \A x \in Held : x.id > lastEventID => x = line \/ x.id > line.id
      /\ lastEventID' = line.id
  BY DEF Receive, logVars
<1>2. /\ pinned \in Seq(Line) /\ ToSet(pinned) \subseteq Line
      /\ lastEventID \in Nat /\ line.id \in Nat /\ NewestPinned \in Nat
      /\ logEntries \in Seq(Line) /\ Len(logEntries) \in Nat
  BY <1>0, <1>1, Elems, NewestIsOne DEF LogTypeOK, Line, PageTypeOK
<1>3. PICK d \in {0, 1} : Slid(logEntries, line, logCapacity, d, logEntries')
  BY <1>0, <1>1, Pushed
<1>4. /\ Len(logEntries') = Len(logEntries) + 1 - d /\ logEntries' \in Seq(Line)
      /\ logEntries'[Len(logEntries')] = line /\ d \in {0, 1}
      /\ \A j \in 1 .. Len(logEntries') - 1 : logEntries'[j] = logEntries[j + d]
  BY <1>3, Zenon DEF Slid
<1>5. Len(logEntries') \in Nat
  BY <1>4
<1>6. /\ NewestPinned' \in Nat /\ NewestPinned <= NewestPinned'
      /\ isPinnedOutcome(line) => line.id <= NewestPinned'
  <2>1. \/ isPinnedOutcome(line) /\ NewestPinned < line.id /\ NewestPinned' = line.id
        \/ (isPinnedOutcome(line) => line.id <= NewestPinned) /\ NewestPinned' = NewestPinned
    BY <1>0, <1>1, Pushed
  <2>2. QED
    BY <1>2, <2>1
<1> SUFFICES ASSUME NEW p \in ToSet(pinned), p.id <= line.id
             PROVE  p.id <= NewestPinned' /\ InPlace(p)'
  BY <1>1 DEF PinnedSeen
<1>7. p.id \in Nat /\ p \in Held /\ isPinnedOutcome(p)
  BY <1>0, <1>2 DEF Held, Line, RingOK
<1>8. CASE p.id > lastEventID
  <2>1. p = line
    BY <1>1, <1>2, <1>7, <1>8
  <2>2. \A j \in Len(logEntries') + 1 .. Len(logEntries') : logEntries'[j].id > p.id
    BY <1>5
  <2>3. InPlace(p)'
    BY <1>4, <1>5, <2>1, <2>2 DEF InPlace
  <2>4. QED
    BY <1>6, <1>7, <2>1, <2>3
<1>9. CASE p.id <= lastEventID
  <2>1. p.id <= NewestPinned'
    BY <1>0, <1>2, <1>6, <1>7, <1>9 DEF PinnedSeen
  <2>2. PICK k \in 0 .. Len(logEntries) :
            /\ k = 0 \/ logEntries[k] = p
            /\ \A j \in k + 1 .. Len(logEntries) : logEntries[j].id > p.id
    BY <1>0, <1>9, Zenon DEF PinnedSeen, InPlace
  <2> DEFINE i == IF k <= d THEN 0 ELSE k - d
             l == Len(logEntries)
             ll == Len(logEntries')
  <2>3. l \in Nat /\ ll \in Nat /\ ll = l + 1 - d
    BY <1>2, <1>4, <1>5
  <2>4. k \in 0 .. l /\ i = (IF k <= d THEN 0 ELSE k - d)
    OBVIOUS
  <2> HIDE DEF i, l, ll
  <2>5. /\ i \in 0 .. ll /\ (i # 0 => i + d = k /\ i \in 1 .. ll - 1)
        /\ \A j \in i + 1 .. ll : j = ll \/ (j \in 1 .. ll - 1 /\ j + d \in k + 1 .. l)
    <3>1. CASE d = 0
      BY <2>3, <2>4, <3>1
    <3>2. CASE d = 1
      BY <2>3, <2>4, <3>2
    <3>3. QED
      BY <1>3, <3>1, <3>2
  <2>6. i = 0 \/ logEntries'[i] = p
    BY <1>4, <2>2, <2>4, <2>5 DEF ll
  <2>7. \A j \in i + 1 .. ll : logEntries'[j].id > p.id
    <3> SUFFICES ASSUME NEW j \in i + 1 .. ll PROVE logEntries'[j].id > p.id
      OBVIOUS
    <3>1. CASE j = ll
      BY <1>1, <1>2, <1>4, <1>7, <1>9, <3>1 DEF ll
    <3>2. CASE j # ll
      BY <1>4, <2>2, <2>5, <3>2 DEF l, ll
    <3>3. QED
      BY <3>1, <3>2
  <2>8. InPlace(p)'
    BY <2>5, <2>6, <2>7 DEF InPlace, ll
  <2>9. QED
    BY <2>1, <2>8
<1>10. QED
  BY <1>2, <1>7, <1>8, <1>9

\* A line that reaches the page keeps its invariant.
LEMMA ReceivePage ==
  ASSUME PageInv, ServerInv, NEW line, Receive(line)
  PROVE  PageInv'
<1>1. PageTypeOK'
  BY ReceiveType DEF PageInv
<1>2. droppedLine' = droppedLine
  BY DEF Receive
<1>3. QED
  BY <1>1, <1>2, ReceiveRing, ReceivePinned, ReceiveSeen DEF PageInv
\* A new line leaves what the page has had in its place.
LEMMA AppendPage ==
  ASSUME PageInv, ServerInv, NEW kind \in {"output", "outcome", "routine"}, AppendLine(kind)
  PROVE  PageInv'
<1>0. LogTypeOK /\ RingOK /\ QueueOK /\ PageTypeOK
  BY DEF ServerInv, PageInv
<1>1. PICK line \in Line :
            /\ line.id = nextID
            /\ \E d \in {0, 1} : Slid(entries, line, logCapacity, d, entries')
            /\ \/ pinned' = pinned
               \/ \E c \in {0, 1} : Slid(pinned, line, pinnedCap, c, pinned')
            /\ nextID' = nextID + 1
            /\ droppedLine => droppedLine'
            /\ UNCHANGED pageVars
  BY <1>0, AppendLists, Zenon
<1>2. UNCHANGED <<lastEventID, logEntries, pinnedLogEntries>> /\ NewestPinned' = NewestPinned
  BY <1>1 DEF pageVars, NewestPinned
<1>3. /\ entries \in Seq(Line) /\ pinned \in Seq(Line) /\ Len(pinned) \in Nat
      /\ logCapacity \in Nat \ {0} /\ pinnedCap \in Nat \ {0}
      /\ nextID \in Nat /\ lastEventID \in Nat /\ lastEventID < nextID
      /\ NewestPinned \in Nat /\ line.id \in Nat
  BY <1>0, <1>1, NewestIsOne, LogAssumption DEF LogTypeOK, QueueOK
<1>4. ToSet(entries') \subseteq ToSet(entries) \cup {line}
  BY <1>1, <1>3, SlidLines
<1>5. ToSet(pinned') \subseteq ToSet(pinned) \cup {line}
  BY <1>1, <1>3, SlidLines
<1>6. ~(line.id <= lastEventID)
  BY <1>1, <1>3
<1>7. PageTypeOK'
  <2>1. ToSet(pinnedLogEntries) \subseteq Line
    BY <1>0, Elems DEF PageTypeOK
  <2>2. \A p \in ToSet(pinnedLogEntries) : p.id < nextID'
    BY <1>0, <1>1, <1>3, <2>1 DEF PageTypeOK, Line
  <2>3. QED
    BY <1>0, <1>2, <2>2 DEF PageTypeOK
<1>8. ASSUME ~droppedLine PROVE RingShown'
  BY <1>2, <1>4, <1>6, <1>8 DEF PageInv, RingShown
<1>9. ASSUME ~droppedLine PROVE PinnedSeen'
  <2>1. \A p : InPlace(p) => InPlace(p)'
    BY <1>2 DEF InPlace
  <2>2. QED
    BY <1>2, <1>5, <1>6, <1>9, <2>1 DEF PageInv, PinnedSeen
<1>10. ASSUME ~droppedLine PROVE PinnedShown'
  <2>1. PICK n \in 0 .. Len(pinned) :
        /\ \A k \in 1 .. Len(pinned) : pinned[k].id <= NewestPinned <=> k <= n
        /\ n <= Len(pinnedLogEntries)
        /\ \A k \in 1 .. n : pinnedLogEntries[Len(pinnedLogEntries) - n + k] = pinned[k]
    BY <1>10 DEF PageInv, PinnedShown
  <2>2. CASE pinned' = pinned
    BY <1>2, <2>1, <2>2, Zenon DEF PinnedShown
  <2>3. ASSUME NEW c \in {0, 1}, Slid(pinned, line, pinnedCap, c, pinned')
        PROVE  PinnedShown'
    <3> DEFINE m == IF c <= n THEN n - c ELSE 0
    <3>1. /\ pinned' \in Seq(Line) /\ Len(pinned') = Len(pinned) + 1 - c
          /\ pinned'[Len(pinned')] = line
          /\ \A k \in 1 .. Len(pinned') - 1 : pinned'[k] = pinned[k + c]
          /\ c = 1 => Len(pinned) = pinnedCap
      BY <2>3, Zenon DEF Slid
    <3>2. Len(pinned') \in Nat /\ Len(pinnedLogEntries) \in Nat /\ n \in Nat
      BY <1>0, <1>3, <2>1, <3>1 DEF PageTypeOK
    <3>3. /\ m \in 0 .. Len(pinned') - 1 /\ m <= n /\ (1 <= m => n = m + c)
          /\ \A k \in 1 .. Len(pinned') - 1 : k + c \in 1 .. Len(pinned) /\ (k + c <= n <=> k <= m)
      <4> DEFINE l == Len(pinned)
                 ll == Len(pinned')
      <4>1. l \in Nat /\ ll \in Nat /\ ll = l + 1 - c /\ n \in 0 .. l
        BY <1>3, <2>1, <3>1, <3>2
      <4> HIDE DEF l, ll
      <4>2. CASE c = 0
        BY <4>1, <4>2 DEF l, ll
      <4>3. CASE c = 1
        <5>1. ll = l /\ m = (IF 1 <= n THEN n - 1 ELSE 0)
          BY <4>1, <4>3
        <5> HIDE DEF m
        <5>2. m \in 0 .. ll - 1 /\ m <= n /\ (1 <= m => n = m + 1) /\ m \in Nat
          <6>1. ll \in Nat \ {0}
            BY <1>3, <3>1, <4>3, <5>1 DEF l, ll
          <6>2. QED
            BY <4>1, <5>1, <6>1
        <5>3. ASSUME NEW k \in 1 .. ll - 1
              PROVE  k + 1 \in 1 .. l /\ (k + 1 <= n <=> k <= m)
          BY <4>1, <5>1
        <5>4. QED
          BY <4>3, <5>2, <5>3 DEF l, ll
      <4>4. QED
        BY <2>3, <4>2, <4>3
    <3> HIDE DEF m
    <3>4. NewestPinned < line.id
      <4>1. CASE pinnedLogEntries = <<>>
        BY <1>0, <1>1, <4>1 DEF NewestPinned, LogTypeOK
      <4>2. CASE pinnedLogEntries # <<>>
        <5>1. pinnedLogEntries \in Seq(Line)
          BY <1>0 DEF PageTypeOK
        <5>2. pinnedLogEntries[Len(pinnedLogEntries)] \in ToSet(pinnedLogEntries)
          BY <4>2, <5>1, Elems
        <5>3. QED
          BY <1>0, <1>1, <4>2, <5>2, NewestIsOne DEF PageTypeOK
      <4>3. QED
        BY <4>1, <4>2
    <3>5. ASSUME NEW k \in 1 .. Len(pinned')
          PROVE  pinned'[k].id <= NewestPinned <=> k <= m
      <4>1. CASE k = Len(pinned')
        <5>1. ~(line.id <= NewestPinned) /\ ~(k <= m)
          BY <1>3, <3>2, <3>3, <3>4, <4>1
        <5>2. QED
          BY <3>1, <4>1, <5>1
      <4>2. CASE k # Len(pinned')
        <5>1. k \in 1 .. Len(pinned') - 1
          BY <3>2, <4>2
        <5>2. pinned'[k] = pinned[k + c] /\ k + c \in 1 .. Len(pinned) /\ (k + c <= n <=> k <= m)
          BY <3>1, <3>3, <5>1
        <5>3. pinned[k + c].id <= NewestPinned <=> k + c <= n
          BY <2>1, <5>2
        <5>4. QED
          BY <5>2, <5>3
      <4>3. QED
        BY <4>1, <4>2
    <3>6. m <= Len(pinnedLogEntries)
      BY <2>1, <3>2, <3>3
    <3>7. ASSUME NEW k \in 1 .. m
          PROVE  pinnedLogEntries[Len(pinnedLogEntries) - m + k] = pinned'[k]
      <4>1. k \in 1 .. Len(pinned') - 1 /\ n = m + c /\ k + c \in 1 .. n
        BY <2>3, <3>2, <3>3
      <4>2. Len(pinnedLogEntries) - m + k = Len(pinnedLogEntries) - n + (k + c)
        BY <2>3, <3>2, <3>3, <4>1
      <4>3. pinnedLogEntries[Len(pinnedLogEntries) - n + (k + c)] = pinned[k + c]
        BY <2>1, <4>1
      <4>4. QED
        BY <3>1, <4>1, <4>2, <4>3
    <3>8. m \in 0 .. Len(pinned')
      BY <3>2, <3>3
    <3>9. QED
      BY <1>2, <3>5, <3>6, <3>7, <3>8, Zenon DEF PinnedShown
  <2>4. QED
    BY <1>1, <2>2, <2>3
<1>11. QED
  BY <1>1, <1>7, <1>8, <1>9, <1>10 DEF PageInv

\* Nothing of what the page has had is lost when its connection comes or goes; one
\* that asks for everything has had nothing yet.
LEMMA ConnectPage ==
  ASSUME PageInv, ServerInv, lastEventID' \in {lastEventID, 0},
         UNCHANGED <<logVars, outcomes, droppedLine, logEntries, pinnedLogEntries>>
  PROVE  PageInv'
<1>1. /\ nextID' = nextID /\ entries' = entries /\ pinned' = pinned
      /\ logEntries' = logEntries /\ pinnedLogEntries' = pinnedLogEntries
      /\ droppedLine' = droppedLine
  BY DEF logVars
<1>2. NewestPinned' = NewestPinned /\ \A p : InPlace(p) => InPlace(p)'
  BY <1>1 DEF NewestPinned, InPlace
<1>3. PageTypeOK' /\ (~droppedLine => PinnedShown')
  BY <1>1, <1>2 DEF PageInv, PageTypeOK, PinnedShown
<1>4. CASE lastEventID' = lastEventID
  BY <1>1, <1>2, <1>3, <1>4 DEF PageInv, RingShown, PinnedSeen
<1>5. CASE lastEventID' = 0
  <2>1. ToSet(entries) \subseteq Line /\ ToSet(pinned) \subseteq Line
    BY Elems DEF ServerInv, LogTypeOK
  <2>2. \A x \in Line : ~(x.id <= 0)
    BY DEF Line
  <2>3. RingShown' /\ PinnedSeen'
    BY <1>1, <1>5, <2>1, <2>2 DEF RingShown, PinnedSeen
  <2>4. QED
    BY <1>1, <1>3, <2>3 DEF PageInv
<1>6. QED
  BY <1>4, <1>5

\* A new process has nothing that the page could have had.
LEMMA RestartPage ==
  ASSUME PageInv, ServerInv, entries' = <<>>, pinned' = <<>>, UNCHANGED pageVars, nextID' = nextID + 1
  PROVE  PageInv'
<1>1. UNCHANGED <<lastEventID, logEntries, pinnedLogEntries>> /\ NewestPinned' = NewestPinned
  BY DEF pageVars, NewestPinned
<1>2. ToSet(<<>>) = {} /\ Len(<<>>) = 0 /\ 0 .. 0 = {0} /\ 1 .. 0 = {}
  BY DEF ToSet
<1>3. PageTypeOK'
  <2>1. ToSet(pinnedLogEntries) \subseteq Line /\ nextID \in Nat
    BY Elems DEF PageInv, PageTypeOK, ServerInv, LogTypeOK
  <2>2. \A p \in ToSet(pinnedLogEntries) : p.id < nextID'
    BY <2>1 DEF PageInv, PageTypeOK, Line
  <2>3. QED
    BY <1>1, <2>2 DEF PageInv, PageTypeOK
<1>4. RingShown' /\ PinnedSeen'
  BY <1>2 DEF RingShown, PinnedSeen
<1>5. PinnedShown'
  <2>1. Len(pinnedLogEntries) \in Nat
    BY DEF PageInv, PageTypeOK
  <2>2. 0 <= Len(pinnedLogEntries')
    BY <1>1, <2>1
  <2>3. QED
    BY <1>2, <2>2 DEF PinnedShown
<1>6. QED
  BY <1>3, <1>4, <1>5 DEF PageInv

LEMMA PageStart == LogInit => PageInv
<1> SUFFICES ASSUME LogInit PROVE PageInv
  OBVIOUS
<1>1. /\ entries = <<>> /\ pinned = <<>> /\ logEntries = <<>> /\ pinnedLogEntries = <<>>
  BY DEF LogInit
<1>2. /\ <<>> \in Seq(Line) /\ Rising(<<>>) /\ ToSet(<<>>) = {} /\ Len(<<>>) = 0
      /\ 0 .. 0 = {0} /\ 1 .. 0 = {}
  BY DEF Rising, ToSet
<1>3. PageTypeOK
  BY <1>1, <1>2, LogAssumption DEF PageTypeOK
<1>4. RingShown /\ PinnedSeen /\ PinnedShown
  BY <1>1, <1>2 DEF RingShown, PinnedSeen, PinnedShown
<1>5. QED
  BY <1>3, <1>4 DEF PageInv
\* One step of the log, of its stream or of its page.
LEMMA LogStep ==
  ASSUME ServerInv, PageInv, LogNext
  PROVE  ServerInv' /\ PageInv'
<1>1. ASSUME NEW kind \in {"output", "outcome", "routine"}, AppendLine(kind)
      PROVE  ServerInv' /\ PageInv'
  BY <1>1, AppendServer, AppendPage
<1>2. ASSUME SubscribeLog \/ ReadBacklog \/ BreakLog PROVE ServerInv' /\ PageInv'
  BY <1>2, ConnectServer, ConnectPage
<1>3. ASSUME Replay \/ SendLine PROVE ServerInv' /\ PageInv'
  <2>1. ServerInv' /\ (Aside \/ \E line : Receive(line))
    BY <1>3, ReplayServer, SendServer
  <2>2. ASSUME Aside PROVE PageInv'
    BY <2>2, ConnectPage DEF Aside, pageVars
  <2>3. QED
    BY <2>1, <2>2, ReceivePage
<1>4. ASSUME RestartLog PROVE ServerInv' /\ PageInv'
  BY <1>4, RestartServer, RestartPage
<1>5. QED
  BY <1>1, <1>2, <1>3, <1>4 DEF LogNext

\* A page that has caught up shows what the server holds.
LEMMA CaughtUp ==
  ASSUME ServerInv, PageInv
  PROVE  LogIsShown
<1>1. LogTypeOK /\ RingOK /\ QueueOK /\ NothingMissed /\ PageTypeOK
  BY DEF ServerInv, PageInv
<1>2. \A i, j \in 1 .. Len(pinnedLogEntries) :
        i < j => pinnedLogEntries[i].id < pinnedLogEntries[j].id
  BY <1>1 DEF PageTypeOK, Rising
<1>3. ASSUME logStream = "live", logChannel = <<>>, ~droppedLine
      PROVE  ToSet(entries \o outcomes) \subseteq ToSet(logView)
  <2>1. RingShown /\ PinnedShown /\ PinnedSeen
    BY <1>3 DEF PageInv
  <2>2. /\ entries \in Seq(Line) /\ pinned \in Seq(Line) /\ outcomes = pinned /\ lastEventID \in Nat
        /\ logEntries \in Seq(Line) /\ pinnedLogEntries \in Seq(Line)
    BY <1>1 DEF LogTypeOK, RingOK, PageTypeOK
  <2>3. /\ Held \subseteq Line /\ ToSet(entries \o outcomes) = Held
        /\ ToSet(pinned) = {pinned[j] : j \in 1 .. Len(pinned)} /\ Len(pinned) \in Nat
        /\ ToSet(logEntries) = {logEntries[j] : j \in 1 .. Len(logEntries)} /\ Len(logEntries) \in Nat
        /\ ToSet(pinnedLogEntries) = {pinnedLogEntries[j] : j \in 1 .. Len(pinnedLogEntries)}
        /\ Len(pinnedLogEntries) \in Nat
    BY <2>2, Elems, Joined DEF Held
  <2>4. \A x \in Held : x.id \in Nat /\ x.id <= lastEventID
    <3>1. ToSet(backlog) = {} /\ ToSet(logChannel) = {}
      BY <1>1, <1>3 DEF QueueOK, ToSet
    <3>2. \A x \in Held : ~(x.id > lastEventID)
      BY <1>1, <1>3, <3>1 DEF NothingMissed
    <3>3. QED
      BY <2>2, <2>3, <3>2 DEF Line
  <2> DEFINE evicted == {line \in ToSet(pinnedLogEntries) :
                            logEntries = <<>> \/ line.id < logEntries[1].id}
             older == kept(pinnedLogEntries, evicted)
  <2>5. logView = older \o logEntries
    BY DEF logView
  <2>6. LeftOf(pinnedLogEntries, evicted, Len(pinnedLogEntries), older)
    BY <2>2, Kept
  <2> HIDE DEF older
  <2>7. ToSet(logView) = ToSet(older) \cup ToSet(logEntries)
    BY <2>2, <2>5, <2>6, Joined DEF LeftOf
  <2>8. ASSUME NEW e \in ToSet(entries) PROVE e \in ToSet(logEntries)
    <3>1. e.id \in Nat /\ e.id <= lastEventID
      BY <2>4, <2>8 DEF Held
    <3>2. /\ lastEventID - e.id < Len(logEntries)
          /\ logEntries[Len(logEntries) - (lastEventID - e.id)] = e
      BY <2>1, <2>8, <3>1 DEF RingShown
    <3>3. Len(logEntries) - (lastEventID - e.id) \in 1 .. Len(logEntries)
      BY <2>2, <2>3, <3>1, <3>2
    <3>4. QED
      BY <2>3, <3>2, <3>3
  <2>9. ASSUME NEW p \in ToSet(pinned) PROVE p \in ToSet(older) \cup ToSet(logEntries)
    <3>1. p \in Line /\ p.id <= NewestPinned /\ InPlace(p)
      BY <2>1, <2>3, <2>4, <2>9 DEF Held, PinnedSeen
    <3>2. p \in ToSet(pinnedLogEntries)
      <4>1. PICK n \in 0 .. Len(pinned) :
            /\ \A k \in 1 .. Len(pinned) : pinned[k].id <= NewestPinned <=> k <= n
            /\ n <= Len(pinnedLogEntries)
            /\ \A k \in 1 .. n : pinnedLogEntries[Len(pinnedLogEntries) - n + k] = pinned[k]
        BY <2>1 DEF PinnedShown
      <4>2. PICK k \in 1 .. Len(pinned) : p = pinned[k]
        BY <2>3, <2>9
      <4>3. k \in 1 .. n
        BY <2>3, <3>1, <4>1, <4>2
      <4>4. Len(pinnedLogEntries) - n + k \in 1 .. Len(pinnedLogEntries)
        BY <2>3, <4>1, <4>3
      <4>5. QED
        BY <2>3, <4>1, <4>2, <4>3, <4>4
    <3>3. PICK k \in 0 .. Len(logEntries) :
            /\ k = 0 \/ logEntries[k] = p
            /\ \A j \in k + 1 .. Len(logEntries) : logEntries[j].id > p.id
      BY <3>1, Zenon DEF InPlace
    <3>4. CASE k # 0
      BY <2>3, <3>3, <3>4
    <3>5. CASE k = 0
      <4>1. logEntries = <<>> \/ 1 \in k + 1 .. Len(logEntries)
        BY <2>2, <2>3, <3>5
      <4>2. logEntries = <<>> \/ logEntries[1].id > p.id
        BY <3>3, <4>1
      <4>3. p \in evicted
        <5>1. logEntries # <<>> => logEntries[1] \in Line
          BY <2>2
        <5>2. QED
          BY <3>1, <3>2, <4>2, <5>1 DEF Line
      <4>4. p \in ToSet(older)
        BY <2>3, <2>6, <3>1, <3>2, <4>3 DEF LeftOf
      <4>5. QED
        BY <4>4
    <3>6. QED
      BY <3>4, <3>5
  <2>10. QED
    BY <2>3, <2>7, <2>8, <2>9 DEF Held
<1>4. QED
  BY <1>2, <1>3 DEF LogIsShown

\* Whatever the feeds do, the log and its page stay in order.
LEMMA RingStep == ServerInv /\ PageInv /\ [Next]_vars => ServerInv' /\ PageInv'
<1> SUFFICES ASSUME ServerInv, PageInv, [Next]_vars
             PROVE  ServerInv' /\ PageInv'
  OBVIOUS
<1>1. CASE Logs(LogNext)
  BY <1>1, LogStep DEF Logs
<1>2. CASE UNCHANGED ringVars
  <2>1. UNCHANGED <<nextID, entries, pinned, outcomes, droppedLine, logStream, logChannel, backlog,
                    lastSent, lastEventID, logEntries, pinnedLogEntries>>
    BY <1>2 DEF ringVars, logVars, connectionVars, pageVars
  <2>2. Held' = Held /\ Queued' = Queued /\ \A x : Known(x) => Known(x)'
    BY <2>1 DEF Held, Queued, Known, isPinnedOutcome
  <2>3. LogTypeOK' /\ RingOK' /\ QueueOK' /\ NothingMissed'
    <3>1. LogTypeOK /\ RingOK /\ QueueOK /\ NothingMissed
      BY DEF ServerInv
    <3>2. LogTypeOK' /\ QueueOK'
      BY <2>1, <3>1 DEF LogTypeOK, QueueOK
    <3>3. RingOK'
      BY <2>1, <2>2, <3>1 DEF RingOK, isPinnedOutcome
    <3>4. NothingMissed'
      BY <2>1, <2>2, <3>1 DEF NothingMissed
    <3>5. QED
      BY <3>2, <3>3, <3>4
  <2>4. PageInv'
    BY <2>1, ConnectPage DEF logVars
  <2>5. QED
    BY <2>3, <2>4 DEF ServerInv
<1>3. QED
  BY <1>1, <1>2, Zenon DEF Next, Panel, Hosts, vars

\* logbuf.Log, the log stream and app-logs.js: a page that has caught up shows every
\* line the ring holds and every outcome kept, in any number of lines, replays,
\* reconnects and restarts, unless a full channel dropped one; its pinned outcomes
\* are in order and none is there twice.
THEOREM LogPageIsComplete == Spec => []LogIsShown
<1>1. Init => ServerInv /\ PageInv
  BY ServerInit, PageStart DEF Init
<1>2. ServerInv /\ PageInv => LogIsShown
  BY CaughtUp
<1>. QED BY <1>1, <1>2, RingStep, PTL DEF Spec
=============================================================================
