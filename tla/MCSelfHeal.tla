----------------------------- MODULE MCSelfHeal -----------------------------
EXTENDS SelfHeal, TLC
CONSTANTS web, job, app

Line(st, h, x) == [state |-> st, health |-> h, exit |-> x]

\* web has a healthcheck; job is started on demand and stopped with SIGKILL.
WebJobLines ==
    (web :> {Line("running", "healthy", 0), Line("running", "unhealthy", 0),
             Line("running", "starting", 0)})
    @@ (job :> {Line("exited", "", 137)})
=============================================================================
