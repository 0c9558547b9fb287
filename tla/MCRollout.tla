----------------------------- MODULE MCRollout -----------------------------
EXTENDS Rollout
CONSTANTS web, api, db

\* Two services that roll, one after the other, and one that does not.
WebThenApi == <<web, api>>
JustWeb == <<web>>
=============================================================================
