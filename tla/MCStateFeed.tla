----------------------------- MODULE MCStateFeed -----------------------------
EXTENDS StateFeed
CONSTANTS app, db, p1, p2

Order == <<app, db>>
Global == {None}

\* One stack inherits, the other is configured off.
Settings == {[s \in Stack |-> IF s = db THEN FALSE ELSE None]}

\* Two toggles among concurrent publishers; a toggle, a push and a failed sync; a toggle around a cut
\* and a restart; a push around a cut and a restart.
AllBudgets ==
    {[toggles |-> 2, pushes |-> 0, cuts |-> 0, restarts |-> 0, syncErrors |-> 0],
     [toggles |-> 1, pushes |-> 1, cuts |-> 0, restarts |-> 0, syncErrors |-> 1],
     [toggles |-> 1, pushes |-> 0, cuts |-> 1, restarts |-> 1, syncErrors |-> 0],
     [toggles |-> 0, pushes |-> 1, cuts |-> 1, restarts |-> 1, syncErrors |-> 0]}

\* Down and up again on one host, a change on the other.
Changes == [p \in peer |-> IF p = p1 THEN 2 ELSE 1]

\* Bursts; a break with and without Last-Event-ID; a restart.
LogBounds == {[lines |-> 5, breaks |-> 2, restarts |-> 0], [lines |-> 4, breaks |-> 1, restarts |-> 1]}
=============================================================================
