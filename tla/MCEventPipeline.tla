--------------------------- MODULE MCEventPipeline ---------------------------
EXTENDS EventPipeline
CONSTANT app

\* Longer histories without a browser; shorter ones with one that connects twice.
AllBudgets == {[events |-> 5, connects |-> 0, faults |-> 0],
               [events |-> 4, connects |-> 0, faults |-> 1],
               [events |-> 3, connects |-> 2, faults |-> 1]}
BrowserOnly == {[events |-> 2, connects |-> 2, faults |-> 0]}
=============================================================================
