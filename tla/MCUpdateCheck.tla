---------------------------- MODULE MCUpdateCheck ----------------------------
EXTENDS UpdateCheck, TLC
CONSTANTS app, db

Sorted == [S \in SUBSET Stack |-> SelectSeq(<<app, db>>, LAMBDA s : s \in S)]
Version(n, s) == [prefix |-> "v", nums |-> n, suffix |-> s]
v9 == Version(<<3, 9>>, "")

\* A later minor version that sorts before it as a string, a variant, a moving tag.
Others == {Version(<<3, 10>>, ""), Version(<<4, 0>>, "-alpine"),
           [prefix |-> "", nums |-> <<>>, suffix |-> "latest"]}

\* A private registry with a token server of its own, one whose challenge points to
\* another site, and one whose pages link to another host.
Good == [up |-> TRUE, challenge |-> "bearer", realm |-> "site", token |-> TRUE, login |-> FALSE, link |-> "own"]
Answers == {Good, [Good EXCEPT !.realm = "elsewhere"], [Good EXCEPT !.link = "foreign"]}

\* Many events and no fault, or few events and two faults, an outage and its end.
AllBudgets == {[events |-> 3, faults |-> 0], [events |-> 1, faults |-> 2]}
=============================================================================
