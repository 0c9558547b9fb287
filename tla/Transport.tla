------------------------------ MODULE Transport ------------------------------
(***************************************************************************)
(* The delivery machinery the three alerters share (internal/notify): a     *)
(* bounded queue that never blocks its producer, drained by one goroutine   *)
(* that takes item after item and sends it to target after target.  On      *)
(* shutdown what is still queued is drained; the process does not wait for  *)
(* that and may exit at any moment, between two targets too.                *)
(***************************************************************************)
EXTENDS Naturals, Sequences

CONSTANTS
    None,
    targets,            \* how many targets are configured: 1 .. targets, in that order
    notifyBufferSize    \* capacity of the queue

ASSUME TransportAssumption == targets \in Nat /\ notifyBufferSize \in Nat

VARIABLES
    items,      \* the queue
    turn,       \* the target the item in hand is sent to next; 0: no item in hand
    stopping,   \* the shutdown signal has come; the goroutine drains the queue from here on
    \* ghosts
    pushed,     \* items ever pushed
    dropped,    \* of them, those a full queue dropped
    lost,       \* lost[t]: of them, those a process took with it before target t's turn
    sends       \* sends[t]: how many of them were sent to target t, with success or without

transportVars == <<items, turn, stopping, pushed, dropped, lost, sends>>

TransportInit ==
    /\ items = <<>> /\ turn = 0 /\ stopping = FALSE
    /\ pushed = 0 /\ dropped = 0
    /\ lost = [t \in 1 .. targets |-> 0] /\ sends = [t \in 1 .. targets |-> 0]

\* No target: the alerter is disabled and Fire does nothing.
push(item) ==
    IF targets = 0 THEN UNCHANGED transportVars
    ELSE
    /\ pushed' = pushed + 1
    /\ \/ Len(items) < notifyBufferSize /\ items' = Append(items, item) /\ UNCHANGED dropped
       \/ Len(items) >= notifyBufferSize /\ dropped' = dropped + 1 /\ UNCHANGED items
    /\ UNCHANGED <<turn, stopping, lost, sends>>

\* run, and after the signal drain: the goroutine takes the oldest item into its hand.
take ==
    /\ turn = 0 /\ items # <<>>
    /\ items' = Tail(items)
    /\ turn' = 1
    /\ UNCHANGED <<stopping, pushed, dropped, lost, sends>>

\* Faulty variant: a target that fails ends the item.
FailureEndsItem ==
    /\ turn # 0
    /\ turn' \in {IF turn = targets THEN 0 ELSE turn + 1, 0}
    /\ sends' = [sends EXCEPT ![turn] = @ + 1]
    /\ UNCHANGED <<items, stopping, pushed, dropped, lost>>

\* One turn of handle's loop.  A target that fails - refused, timed out, rejected,
\* its context cancelled - is counted and skipped, so success and failure look the
\* same here.
deliverOne ==
    /\ turn # 0
    /\ turn' = IF turn = targets THEN 0 ELSE turn + 1
    /\ sends' = [sends EXCEPT ![turn] = @ + 1]
    /\ UNCHANGED <<items, stopping, pushed, dropped, lost>>

handle == take \/ deliverOne

ShutdownSignal ==
    /\ ~stopping
    /\ stopping' = TRUE
    /\ UNCHANGED <<items, turn, pushed, dropped, lost, sends>>

\* How many items target t is still to get.
owed(t) == Len(items) + (IF turn \in 1 .. t THEN 1 ELSE 0)

\* The process is gone, its drain finished or not, and a new one runs.
TransportRestart ==
    /\ items' = <<>> /\ turn' = 0 /\ stopping' = FALSE
    /\ lost' = [t \in 1 .. targets |-> lost[t] + owed(t)]
    /\ UNCHANGED <<pushed, dropped, sends>>

-----------------------------------------------------------------------------
\* No alert vanishes: for every target, every one pushed was sent to it, or dropped
\* by a full queue, or went down with a process before that target's turn, or still
\* awaits its turn; a failing target never costs another target its alert.
EveryTargetGetsEach ==
    \A t \in 1 .. targets : pushed = sends[t] + dropped + lost[t] + owed(t)
=============================================================================
