------------------------------- MODULE LogRing --------------------------------
(***************************************************************************)
(* The log page (internal/logbuf, ui/logs.go, app-logs.js): a ring of the   *)
(* newest lines, a second small one for the lines that say how a deploy     *)
(* ended, and a stream that replays both before it goes live.  The page     *)
(* keeps two buffers of the same sizes, and outlives connections and        *)
(* processes.                                                               *)
(*                                                                         *)
(* A line is its ID and its kind.  A new process takes its first ID from    *)
(* the clock: larger than any before, at less than a line a millisecond.    *)
(***************************************************************************)
EXTENDS Naturals, Sequences, SequencesExt

CONSTANTS
    logCapacity,        \* the ring, and the page's maxLogBuffer
    pinnedCap,          \* the pinned set, and the page's maxPinnedLog
    subscriberBuffer,   \* lines waiting for a stream's goroutine
    LogBudgets          \* bounds: lines, breaks of the connection, restarts

ASSUME LogAssumption ==
    /\ {logCapacity, pinnedCap, subscriberBuffer} \subseteq Nat \ {0}
    /\ LogBudgets \subseteq [lines : Nat, breaks : Nat, restarts : Nat]

VARIABLES
    nextID, entries, pinned,    \* the Log
    logStream,          \* "off", "subscribed", "replaying" or "live"
    logChannel,         \* lines waiting for the stream's goroutine
    backlog,            \* what is left of its replay
    lastSent,           \* the ID it wrote last
    lastEventID,        \* what the page's EventSource will ask from; 0 for a new one
    logEntries, pinnedLogEntries,   \* the page's buffers
    logBudget,
    \* ghosts
    outcomes,           \* the newest pinnedCap outcomes of this process
    droppedLine         \* a line of this process missed this page on a full channel

logVars == <<nextID, entries, pinned>>
connectionVars == <<logStream, logChannel, backlog, lastSent>>
pageVars == <<lastEventID, logEntries, pinnedLogEntries>>
ringVars == <<logVars, connectionVars, pageVars, logBudget, outcomes, droppedLine>>

newestOf(n, lines) == SubSeq(lines, Len(lines) - n + 1, Len(lines))
bounded(n, lines) == IF Len(lines) > n THEN newestOf(n, lines) ELSE lines

\* Faulty variant: every run's summary is pinned, the no-op ones of reconcile too.
PinsEverySummary(line) == line.kind # "output"

\* "output" is any line, "outcome" one that ends a deploy, "routine" the summary of
\* a run that did nothing.  The page's isLogOutcome is the same predicate.
isPinnedOutcome(line) == line.kind = "outcome"

-----------------------------------------------------------------------------
(* The Log *)

\* Log.Append: a full subscriber misses the line.
AppendLine(kind) ==
    LET line == [id |-> nextID, kind |-> kind]
        full == Len(logChannel) >= subscriberBuffer
        listening == logStream # "off"
    IN  /\ logBudget.lines > 0 /\ logBudget' = [logBudget EXCEPT !.lines = @ - 1]
        /\ nextID' = nextID + 1
        /\ entries' = bounded(logCapacity, Append(entries, line))
        /\ pinned' = IF isPinnedOutcome(line) THEN bounded(pinnedCap, Append(pinned, line)) ELSE pinned
        /\ logChannel' = IF listening /\ ~full THEN Append(logChannel, line) ELSE logChannel
        /\ droppedLine' = (droppedLine \/ (listening /\ full))
        /\ outcomes' = IF kind = "outcome" THEN bounded(pinnedCap, Append(outcomes, line)) ELSE outcomes
        /\ UNCHANGED <<logStream, backlog, lastSent, pageVars>>

\* The lines of a list that are in a set, in their order.
kept(lines, S) ==
    LET upTo[k \in 0 .. Len(lines)] ==
            IF k = 0 THEN <<>>
            ELSE IF lines[k] \in S THEN Append(upTo[k - 1], lines[k]) ELSE upTo[k - 1]
    IN  upTo[Len(lines)]

\* The pinned lines the ring no longer holds, then the ring.
EntriesAfter(id) ==
    LET ringStart == IF entries = <<>> THEN nextID ELSE entries[1].id
        evicted == {line \in ToSet(pinned) : line.id < ringStart}
        newer == {line \in ToSet(pinned \o entries) : line.id > id}
    IN  kept(pinned, evicted \cap newer) \o kept(entries, newer)

-----------------------------------------------------------------------------
(* The stream, and the page behind it *)

\* Log.Subscribe, ahead of the backlog.
SubscribeLog ==
    /\ logStream = "off" /\ logStream' = "subscribed"
    /\ logChannel' = <<>> /\ backlog' = <<>> /\ lastSent' = 0
    /\ UNCHANGED <<logVars, pageVars, logBudget, outcomes, droppedLine>>

ReadBacklog ==
    /\ logStream = "subscribed" /\ logStream' = "replaying"
    /\ backlog' = EntriesAfter(lastEventID)
    /\ UNCHANGED <<logVars, logChannel, lastSent, pageVars, logBudget, outcomes, droppedLine>>

\* pushLog: the ID guard is on the pinned buffer only.
pushLog(line) ==
    LET newer == pinnedLogEntries = <<>> \/ Last(pinnedLogEntries).id < line.id IN
    /\ logEntries' = bounded(logCapacity, Append(logEntries, line))
    /\ pinnedLogEntries' = IF isPinnedOutcome(line) /\ newer
                           THEN bounded(pinnedCap, Append(pinnedLogEntries, line))
                           ELSE pinnedLogEntries

\* One line reaches the page; its ID becomes the page's Last-Event-ID.
writeLogSSE(line) == pushLog(line) /\ lastSent' = line.id /\ lastEventID' = line.id

Replay ==
    /\ logStream = "replaying"
    /\ IF backlog = <<>>
       THEN logStream' = "live" /\ UNCHANGED <<backlog, lastSent, pageVars>>
       ELSE writeLogSSE(Head(backlog)) /\ backlog' = Tail(backlog) /\ UNCHANGED logStream
    /\ UNCHANGED <<logVars, logChannel, logBudget, outcomes, droppedLine>>

\* A live line; one the replay covered is skipped.
SendLine ==
    /\ logStream = "live" /\ logChannel # <<>> /\ logChannel' = Tail(logChannel)
    /\ IF Head(logChannel).id <= lastSent THEN UNCHANGED <<lastSent, pageVars>>
       ELSE writeLogSSE(Head(logChannel))
    /\ UNCHANGED <<logVars, logStream, backlog, logBudget, outcomes, droppedLine>>

disconnected == logStream' = "off" /\ logChannel' = <<>> /\ backlog' = <<>> /\ lastSent' = 0

\* The connection breaks: EventSource comes back by itself from its Last-Event-ID,
\* or is closed for good and replaced by a new one that asks for everything.
BreakLog ==
    /\ logStream # "off" /\ disconnected
    /\ logBudget.breaks > 0 /\ logBudget' = [logBudget EXCEPT !.breaks = @ - 1]
    /\ lastEventID' \in {lastEventID, 0}
    /\ UNCHANGED <<logVars, logEntries, pinnedLogEntries, outcomes, droppedLine>>

\* The process starts anew with an empty Log; the page stays.
RestartLog ==
    /\ logBudget.restarts > 0 /\ logBudget' = [logBudget EXCEPT !.restarts = @ - 1]
    /\ nextID' = nextID + 1 /\ entries' = <<>> /\ pinned' = <<>>
    /\ disconnected
    /\ outcomes' = <<>> /\ droppedLine' = FALSE
    /\ UNCHANGED pageVars

LogInit ==
    /\ nextID = 1 /\ entries = <<>> /\ pinned = <<>>
    /\ logStream = "off" /\ logChannel = <<>> /\ backlog = <<>> /\ lastSent = 0
    /\ lastEventID = 0 /\ logEntries = <<>> /\ pinnedLogEntries = <<>>
    /\ logBudget \in LogBudgets
    /\ outcomes = <<>> /\ droppedLine = FALSE

LogNext ==
    \/ \E kind \in {"output", "outcome", "routine"} : AppendLine(kind)
    \/ SubscribeLog \/ ReadBacklog \/ Replay \/ SendLine
    \/ BreakLog \/ RestartLog

-----------------------------------------------------------------------------
\* logView: the pinned lines from before the page's ring, then the ring.
logView ==
    LET evicted == {line \in ToSet(pinnedLogEntries) :
                        logEntries = <<>> \/ line.id < logEntries[1].id}
    IN  kept(pinnedLogEntries, evicted) \o logEntries

\* However lines, replays, breaks and restarts interleave, a page that has caught
\* up shows every line the server holds and the newest outcomes however much was
\* logged since - unless a line missed it on its full channel - and never pins
\* an outcome twice.
LogIsShown ==
    /\ \A i, j \in 1..Len(pinnedLogEntries) :
            i < j => pinnedLogEntries[i].id < pinnedLogEntries[j].id
    /\ logStream = "live" /\ logChannel = <<>> /\ ~droppedLine =>
            ToSet(entries \o outcomes) \subseteq ToSet(logView)
=============================================================================
