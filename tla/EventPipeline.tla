---------------------------- MODULE EventPipeline ----------------------------
(***************************************************************************)
(* What becomes of a deploy event: emit numbers it and passes it to the     *)
(* sinks one after the other - the history, the SSE broadcaster, the audit  *)
(* log.  Two goroutines emit: a deploy run (under the deploy mutex) and the *)
(* health poller (healed, heal_exhausted), which takes no lock.  A browser  *)
(* follows the stream with one EventSource.                                 *)
(*                                                                         *)
(* A timestamp is the number of the emission.  Diffs, commits and wording   *)
(* are left out.                                                            *)
(***************************************************************************)
EXTENDS Naturals, SequencesExt, FiniteSetsExt, TLC

CONSTANTS
    None,
    Stack,
    RunStatus, PollStatus,  \* statuses the run and the poller emit
    maxHistorySize,         \* events the history keeps
    perStackCap,            \* audit records kept per stack
    compactionSlack,        \* lines the audit file may grow past twice its records
    channelSize,            \* buffer of an SSE subscriber
    Faults,                 \* subset of {"history", "append", "compact", "crash"}
    Budgets                 \* bounds: how many events, connections and faults may happen

Event == [id : Nat, stack : Stack, status : RunStatus \cup PollStatus, count : Nat,
          first : Nat, latest : Nat, rollback : Nat]

\* The code keeps 100 events. In a history of one, an event stored late would drop the one
\* with the highest ID, and a restart would give that ID again.
ASSUME PipelineAssumption ==
    /\ {maxHistorySize, perStackCap, channelSize} \subseteq Nat \ {0} /\ maxHistorySize > 1
    /\ compactionSlack \in Nat
    /\ Budgets \subseteq [events : Nat, connects : Nat, faults : Nat]
    /\ Faults \subseteq {"history", "append", "compact", "crash"}
    /\ IsFiniteSet(Stack) /\ None \notin Stack \cup Event
    /\ RunStatus \cap PollStatus = {}

VARIABLES
    nextEventID,    \* the ID given last
    clock,          \* emissions so far, over all processes
    emitting,       \* emitting[g]: the event goroutine g is passing on, or None
    at,             \* at[g]: how far it has got
    history,        \* the ring of events, oldest first
    historyFile,    \* deploy-history.yaml
    byStack,        \* audit records per stack, oldest first
    auditFile,      \* lines of deploy-audit.jsonl: records or Torn
    diskLines,      \* the audit log's idea of how many lines that is
    stream,         \* the SSE connection: "off", "subscribed" or "live"
    channel,        \* events waiting for the stream's goroutine
    lastSentID,     \* newest event the connection has sent
    lastEventID,    \* the ID the browser would resume from; 0: none
    budget,         \* what may still happen
    \* ghosts
    seen,           \* emissions the browser holds
    missed,         \* emissions the broadcaster dropped for the full channel
    top,            \* highest ID that reached the history or the broadcaster
    overtaken,      \* emissions that got there after a higher ID
    unsaved,        \* a save of the history has failed
    unlogged,       \* a write of the audit file has failed since the last compaction
    disordered      \* a record came in behind a later one

emitVars == <<nextEventID, clock, emitting, at>>
historyVars == <<history, historyFile, unsaved, top, overtaken>>
auditVars == <<byStack, auditFile, diskLines, unlogged, disordered>>
clientVars == <<stream, channel, lastSentID, lastEventID, seen, missed>>
vars == <<emitVars, historyVars, auditVars, clientVars, budget>>

Goroutine == {"run", "poll"}
Torn == [stack |-> None]

inFlightStatuses == {"deploying", "skipped", "queued", "blocked", "held"}
repeatableStatuses == {"failed", "rolled_back", "rolled_back_unhealthy", "heal_exhausted"}
auditableStatuses == {"success", "failed", "rolled_back", "rolled_back_unhealthy",
                      "healed", "heal_exhausted", "removed"}
unrecorded == {"skipped", "held"}
Terminal(e) == e.status \notin inFlightStatuses

-----------------------------------------------------------------------------
(* Collapsing repeats (ADR-0056): one failure that stands is one entry.      *)

\* All failures of a stack with one status read the same here.
RepeatsOf(e, prev) ==
    e.status \in repeatableStatuses /\ e.stack = prev.stack /\ e.status = prev.status

occurrences(e) == IF e.count > 1 THEN e.count ELSE 1
start(e) == IF e.first # 0 THEN e.first ELSE e.latest
AbsorbInto(e, prev) ==
    [e EXCEPT !.count = occurrences(prev) + 1,
              !.first = Min({start(prev), e.latest}),
              !.latest = Max({prev.latest, e.latest})]

\* Faulty variant: the phases of a run are not looked past.
LastEvents(h, stack) == {i \in DOMAIN h : h[i].stack = stack}

\* The newest outcome of e's stack in h; phases of runs are looked past.
lastOutcomes(h, stack) == {i \in DOMAIN h : h[i].stack = stack /\ Terminal(h[i])}

\* What is at the positions I of a sequence, in order.
kept(q, I) ==
    LET upTo[k \in 0 .. Len(q)] ==
            IF k = 0 THEN <<>>
            ELSE IF k \in I THEN Append(upTo[k - 1], q[k]) ELSE upTo[k - 1]
    IN  upTo[Len(q)]

keepOthers(h, from, stack) == {i \in from .. Len(h) : h[i].stack # stack}

newest(q, n) == IF Len(q) > n THEN SubSeq(q, Len(q) - n + 1, Len(q)) ELSE q

\* addLocked: a repeat replaces the outcome it repeats and the phases after it.
absorbed(h, e) ==
    LET last == lastOutcomes(h, e.stack) IN
    IF last # {} /\ RepeatsOf(e, h[Max(last)])
    THEN LET i == Max(last) IN
         [history |-> kept(h, (1 .. i - 1) \cup keepOthers(h, i + 1, e.stack)),
          event |-> AbsorbInto(e, h[i])]
    ELSE [history |-> h, event |-> e]
addLocked(h, e) == newest(Append(absorbed(h, e).history, absorbed(h, e).event), maxHistorySize)
stored(h, e) == absorbed(h, e).event

\* load replays the file through addLocked.
loadHistory(file) ==
    LET loaded[k \in 0 .. Len(file)] ==
            IF k = 0 THEN <<>> ELSE addLocked(loaded[k - 1], file[k])
    IN  loaded[Len(file)]
MaxEventID(h) == Max({h[i].id : i \in DOMAIN h} \cup {0})
EventByID(h, id) == \E i \in DOMAIN h : h[i].id = id
\* Faulty variant: off by one.
EventsPastNext(h, id) == kept(h, {i \in DOMAIN h : h[i].id > id + 1})

EventsAfterID(h, id) == kept(h, {i \in DOMAIN h : h[i].id > id})

-----------------------------------------------------------------------------
(* The audit log.                                                          *)

fold(recs, r) ==
    IF recs # <<>> /\ RepeatsOf(r, Last(recs)) THEN Append(Front(recs), AbsorbInto(r, Last(recs)))
    ELSE Append(recs, r)
\* What the lines of a stack fold to; torn lines are no one's.
collapseRuns(file, s) ==
    LET runs[k \in 0 .. Len(file)] ==
            IF k = 0 THEN <<>>
            ELSE IF file[k].stack = s THEN fold(runs[k - 1], file[k]) ELSE runs[k - 1]
    IN  runs[Len(file)]

\* Faulty variant: the load does not trim.
LoadUntrimmed(file) == [s \in Stack |-> collapseRuns(file, s)]

\* load folds runs and trims each stack.
loadAudit(file) == [s \in Stack |-> newest(collapseRuns(file, s), perStackCap)]

totalLocked(recs) == MapThenSumSet(LAMBDA s : Len(recs[s]), Stack)

\* compact writes every record, sorted by time: the records of each time in turn.
recordsAt(recs, time) == {r \in UNION {ToSet(recs[s]) : s \in Stack} : r.latest = time}
compacted(recs) ==
    LET upTo[t \in 0 .. clock] ==
            IF t = 0 THEN <<>> ELSE upTo[t - 1] \o SetToSeq(recordsAt(recs, t))
    IN  upTo[clock]

\* Faulty variant: the record's ID is taken though the history no longer holds it.
OutcomeUnchecked(stack) ==
    IF byStack[stack] = <<>> THEN [status |-> None, id |-> 0]
    ELSE [status |-> Last(byStack[stack]).status, id |-> Last(byStack[stack]).id]

\* LastOutcome: the stack's newest record, and its event's ID while that is held.
lastOutcome(stack) ==
    IF byStack[stack] = <<>> THEN [status |-> None, id |-> 0]
    ELSE LET r == Last(byStack[stack])
         IN  [status |-> r.status, id |-> IF EventByID(history, r.id) THEN r.id ELSE 0]

-----------------------------------------------------------------------------
(* Emitting.                                                               *)

Spend(what) == budget[what] > 0 /\ budget' = [budget EXCEPT ![what] = @ - 1]
Fault(f) == f \in Faults /\ Spend("faults")

\* emit, EmitHealed, EmitHealExhausted: the next ID, and on a success the
\* rollback it retries, read before any sink records the success.
Emit(g, stack, status) ==
    /\ emitting[g] = None /\ Spend("events")
    /\ nextEventID' = nextEventID + 1
    /\ clock' = clock + 1
    /\ LET prev == lastOutcome(stack)
           retry == status = "success" /\ prev.status \in {"rolled_back", "rolled_back_unhealthy"}
       IN  emitting' = [emitting EXCEPT ![g] =
                [id |-> nextEventID', stack |-> stack, status |-> status, count |-> 0,
                 first |-> 0, latest |-> clock', rollback |-> IF retry THEN prev.id ELSE 0]]
    /\ at' = [at EXCEPT ![g] = "emitted"]
    /\ overtaken' = IF nextEventID' <= top THEN overtaken \cup {clock'} ELSE overtaken
    /\ UNCHANGED <<history, historyFile, unsaved, top, auditVars, clientVars>>

\* Ghost: g's event reaches a sink before events of lower IDs that are behind.
Overtake(g, behind) ==
    LET id == emitting[g].id IN
    /\ top' = Max({top, id})
    /\ overtaken' = overtaken \cup
            {emitting[h].latest : h \in {i \in Goroutine : at[i] \in behind /\ emitting[i].id < id}}

\* deploySink, first half: the history stores the event and saves itself.
\* Skipped and held events pass it by.
Store(g) ==
    /\ at[g] = "emitted"
    /\ at' = [at EXCEPT ![g] = "stored"]
    /\ LET e == emitting[g] IN
       /\ Overtake(g, {"emitted"})
       /\ IF e.status \in unrecorded THEN UNCHANGED <<history, historyFile, emitting, unsaved, budget>>
          ELSE /\ history' = addLocked(history, e)
               /\ emitting' = [emitting EXCEPT ![g] = stored(history, e)]
               /\ \/ historyFile' = history' /\ UNCHANGED <<unsaved, budget>>
                  \/ Fault("history") /\ unsaved' = TRUE /\ UNCHANGED historyFile
    /\ UNCHANGED <<nextEventID, clock, auditVars, clientVars>>

\* The rest of the sinks: the broadcaster, where a full channel misses the event,
\* then the audit log.  Nothing reads the two together: they are one step.
Publish(e) ==
    IF stream = "off" THEN UNCHANGED <<channel, missed>>
    ELSE IF Len(channel) < channelSize
    THEN channel' = Append(channel, e) /\ UNCHANGED missed
    ELSE missed' = missed \cup {e.latest} /\ UNCHANGED channel

\* The record of an emitted event: the history's collapse does not reach the
\* other sinks.
recordFromEvent(e) == [e EXCEPT !.count = 0, !.first = 0]

\* compact: an atomic rewrite; a failure leaves the file as it is.
Compact(recs) ==
    \/ /\ auditFile' = compacted(recs)
       /\ diskLines' = Len(compacted(recs))
       /\ unlogged' = FALSE
       /\ UNCHANGED budget
    \/ /\ Fault("compact")
       /\ unlogged' = TRUE
       /\ UNCHANGED <<auditFile, diskLines>>

\* appendLine: behind a torn line it makes one malformed line, lost at the next load.
appended(file, r) == IF file # <<>> /\ Last(file) = Torn THEN Front(file) ELSE Append(file, r)
tooLong(lines, recs) == lines > 2 * totalLocked(recs) + compactionSlack

AppendLine(r, recs) ==
    \/ /\ Fault("append")
       /\ unlogged' = TRUE
       /\ UNCHANGED <<auditFile, diskLines>>
    \/ /\ ~tooLong(diskLines + 1, recs)
       /\ auditFile' = appended(auditFile, r)
       /\ diskLines' = diskLines + 1
       /\ unlogged' = (unlogged \/ auditFile' # Append(auditFile, r))
       /\ UNCHANGED budget
    \/ tooLong(diskLines + 1, recs) /\ Compact(recs)

\* A repeat replaces its record and rewrites the file.
Record(e) ==
    LET r == recordFromEvent(e)
        recs == byStack[e.stack]
    IN  IF e.status \notin auditableStatuses THEN UNCHANGED <<auditVars, budget>>
        ELSE /\ disordered' = (disordered \/ \E i \in DOMAIN recs : recs[i].latest > r.latest)
             /\ byStack' = [byStack EXCEPT ![e.stack] = newest(fold(recs, r), perStackCap)]
             /\ IF recs # <<>> /\ RepeatsOf(r, Last(recs)) THEN Compact(byStack')
                ELSE AppendLine(r, byStack')

Deliver(g) ==
    /\ at[g] = "stored"
    /\ at' = [at EXCEPT ![g] = "done"]
    /\ emitting' = [emitting EXCEPT ![g] = None]
    /\ Overtake(g, {"emitted", "stored"})
    /\ Publish(emitting[g])
    /\ Record(emitting[g])
    /\ UNCHANGED <<nextEventID, clock, history, historyFile, unsaved,
                   stream, lastSentID, lastEventID, seen>>

-----------------------------------------------------------------------------
(* SSEHandler, and the EventSource at the other end.                        *)

\* Both ends connect; the stream subscribes before it reads the history.
Subscribe ==
    /\ stream = "off" /\ Spend("connects")
    /\ stream' = "subscribed"
    /\ channel' = <<>>
    /\ UNCHANGED <<emitVars, historyVars, auditVars, lastSentID, lastEventID, seen, missed>>

\* Replay what the browser does not hold; it resumes from the last ID it got.
Replay ==
    /\ stream = "subscribed"
    /\ stream' = "live"
    /\ LET events == IF lastEventID = 0 THEN history ELSE EventsAfterID(history, lastEventID)
       IN  /\ lastSentID' = Max({lastEventID, MaxEventID(events)})
           /\ lastEventID' = IF events = <<>> THEN lastEventID ELSE Last(events).id
           /\ seen' = seen \cup {e.latest : e \in ToSet(events)}
    /\ UNCHANGED <<emitVars, historyVars, auditVars, channel, missed, budget>>

\* A live event is sent unless the connection has sent its ID or a higher one.
Send ==
    /\ stream = "live" /\ channel # <<>>
    /\ channel' = Tail(channel)
    /\ LET e == Head(channel) IN
       IF e.id <= lastSentID THEN UNCHANGED <<lastSentID, lastEventID, seen>>
       ELSE /\ lastSentID' = e.id /\ lastEventID' = e.id
            /\ seen' = seen \cup {e.latest}
    /\ UNCHANGED <<emitVars, historyVars, auditVars, stream, missed, budget>>

Disconnect ==
    /\ stream # "off"
    /\ stream' = "off"
    /\ channel' = <<>>
    /\ lastSentID' = 0
    /\ UNCHANGED <<emitVars, historyVars, auditVars, lastEventID, seen, missed, budget>>

-----------------------------------------------------------------------------
\* A new process reads what the last one left: history, audit log, next ID; it
\* rewrites the audit file, or fails to.
NewProcess(file) ==
    /\ history' = loadHistory(historyFile)
    /\ nextEventID' = MaxEventID(history')
    /\ byStack' = loadAudit(file)
    /\ Spend("faults")
    /\ \/ /\ auditFile' = compacted(byStack') /\ diskLines' = Len(auditFile')
          /\ unlogged' = FALSE
       \/ /\ "compact" \in Faults
          /\ auditFile' = file /\ diskLines' = 0
          /\ unlogged' = TRUE
    /\ emitting' = [g \in Goroutine |-> None]
    /\ at' = [g \in Goroutine |-> "done"]
    /\ stream' = "off" /\ channel' = <<>> /\ lastSentID' = 0
    /\ UNCHANGED <<clock, historyFile, unsaved, disordered, top, overtaken, lastEventID, seen, missed>>

Crash == "crash" \in Faults /\ NewProcess(auditFile)

\* A crash in the middle of an append leaves a torn line.
CrashInAppend(g) ==
    /\ at[g] = "stored" /\ emitting[g].status \in auditableStatuses
    /\ "crash" \in Faults
    /\ NewProcess(Append(auditFile, Torn))

Init ==
    /\ nextEventID = 0 /\ clock = 0
    /\ emitting = [g \in Goroutine |-> None]
    /\ at = [g \in Goroutine |-> "done"]
    /\ history = <<>> /\ historyFile = <<>>
    /\ byStack = [s \in Stack |-> <<>>]
    /\ auditFile = <<>> /\ diskLines = 0
    /\ stream = "off" /\ channel = <<>> /\ lastSentID = 0 /\ lastEventID = 0
    /\ budget \in Budgets
    /\ seen = {} /\ missed = {} /\ top = 0 /\ overtaken = {}
    /\ unsaved = FALSE /\ unlogged = FALSE /\ disordered = FALSE

EmitSome(g) ==
    \E s \in Stack, status \in (IF g = "run" THEN RunStatus ELSE PollStatus) : Emit(g, s, status)
Client == Subscribe \/ Replay \/ Send \/ Disconnect

Next ==
    \/ \E g \in Goroutine : EmitSome(g) \/ Store(g) \/ Deliver(g) \/ CrashInAppend(g)
    \/ Client \/ Crash

Spec == Init /\ [][Next]_vars

-----------------------------------------------------------------------------
(* Properties.                                                             *)

\* A standing failure takes one entry: two outcomes of a stack that follow each
\* other in the history are never repeats, whatever phases, evictions and
\* reloads lie between them.
OneEntryPerRun ==
    \A i, j \in DOMAIN history :
        (/\ i < j /\ history[i].stack = history[j].stack
         /\ Terminal(history[i]) /\ Terminal(history[j])
         /\ \A k \in i + 1 .. j - 1 : ~(Terminal(history[k]) /\ history[k].stack = history[i].stack))
            => ~RepeatsOf(history[j], history[i])

\* The audit trail survives a restart as it is: unless a write failed, the file
\* loads to the records in memory, collapsed and capped alike.  (Two goroutines
\* can record out of time order; the reload then sorts them.)
AuditDurable ==
    ~unlogged /\ ~disordered => loadAudit(auditFile) = byStack

\* A success that retries a rollback links the rollback's own event, though the
\* audit log and the history are trimmed, collapsed and reloaded independently
\* and IDs start over from the history after a restart.
LinkIsRollback ==
    [][\A g \in Goroutine :
            (emitting[g] = None /\ emitting'[g] # None /\ ~unsaved /\ emitting'[g].rollback # 0) =>
                \E i \in DOMAIN history :
                    /\ history[i].id = emitting'[g].rollback
                    /\ history[i].stack = emitting'[g].stack
                    /\ history[i].status \in {"rolled_back", "rolled_back_unhealthy"}]_vars

\* A browser that is connected and has read everything sent to it holds every event
\* of the history: connecting, reconnecting and restarts leave no gap, except for
\* events that a higher ID overtook and those that found the channel full, which a
\* later ID hides from the next replay.  (A save that failed can bring events back
\* that a collapse had replaced.)
CaughtUp ==
    /\ stream = "live" /\ channel = <<>> /\ ~unsaved
    /\ \A g \in Goroutine : at[g] # "stored"
ClientComplete ==
    CaughtUp => {e.latest : e \in ToSet(history)} \subseteq seen \cup overtaken \cup missed

=============================================================================
