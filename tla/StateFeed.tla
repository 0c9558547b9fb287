------------------------------ MODULE StateFeed ------------------------------
(***************************************************************************)
(* The feeds that keep the page current: the autosync switch (ControlPanel), *)
(* the merged view of the other hosts (Peers) and the log (LogRing).  They   *)
(* share no state, so a behaviour follows one of them; their product would   *)
(* add no behaviour of any.                                                  *)
(***************************************************************************)
EXTENDS ControlPanel, Peers, LogRing

VARIABLE feed       \* the feed this behaviour follows

vars == <<panelVars, peersVars, ringVars, feed>>

Init ==
    /\ PanelInit /\ PeersInit /\ LogInit
    /\ feed \in {"panel", "peers", "logs"}
    /\ feed # "panel" => reconciling /\ budget = CHOOSE b \in Budgets : TRUE
    /\ feed # "logs" => logBudget = CHOOSE b \in LogBudgets : TRUE

Panel(A) == feed = "panel" /\ A /\ UNCHANGED <<peersVars, ringVars, feed>>
Hosts(A) == feed = "peers" /\ A /\ UNCHANGED <<panelVars, ringVars, feed>>
Logs(A) == feed = "logs" /\ A /\ UNCHANGED <<panelVars, peersVars, feed>>

Next == Panel(PanelNext) \/ Hosts(PeersNext) \/ Logs(LogNext)

\* Goroutines that can go on do, ticks keep coming, a browser reconnects and reads,
\* and a timeout bounds every request to a peer.
Spec ==
    /\ Init /\ [][Next]_vars
    /\ \A g \in Publisher : WF_vars(Panel(Goroutine(g)))
    /\ WF_vars(Panel(StreamStep)) /\ WF_vars(Panel(Answer))
    /\ WF_vars(Hosts(StartPass \/ PublishPass))
    /\ \A p \in peer : WF_vars(Hosts(Fetch(p)))

\* PanelSettled and HostsSettled for good, each of the feed it speaks of: the page
\* ends up showing the switches and the queue as the controller has them, and the
\* other hosts as they are.
PanelSettles == <>[](feed = "panel" => PanelSettled)
HostsSettle == <>[](feed = "peers" => HostsSettled)
=============================================================================
