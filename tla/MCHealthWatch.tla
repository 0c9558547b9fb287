---------------------------- MODULE MCHealthWatch ----------------------------
EXTENDS HealthWatch, TLC
CONSTANTS web, app

Line(st, h, x) == [state |-> st, health |-> h, exit |-> x]

\* A service with a healthcheck; without its container it reads as stopped.
WebLines == web :> {Line("running", "healthy", 0), Line("running", "unhealthy", 0)}
=============================================================================
