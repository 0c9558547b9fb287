------------------------------ MODULE Autosync -------------------------------
(***************************************************************************)
(* The autosync controller and the registry of deferred deploys             *)
(* (internal/autosync).  A stack's setting comes from four layers: its UI   *)
(* override, its configured value, the global UI override, the global       *)
(* configured value.  The configured layers are fixed for a process; the    *)
(* overrides and the registry live in memory only.                          *)
(*                                                                         *)
(* A setting is TRUE, FALSE or None, the Go code's nil.  The files that     *)
(* changed and the time an item has waited are left out.                    *)
(***************************************************************************)
EXTENDS Naturals

CONSTANTS
    None,
    Stack,
    GlobalSettings,     \* the values the config may give globally
    StackSettings       \* the functions from stacks to values it may give per stack

\* What a snapshot of the controller tells: its version and the effective switches.
Snapshots == [version : Nat, global : BOOLEAN, stacks : [Stack -> BOOLEAN]]

ASSUME AutosyncAssumption ==
    /\ None \notin BOOLEAN /\ None \notin Nat /\ None \notin Snapshots
    /\ GlobalSettings \subseteq BOOLEAN \cup {None}
    /\ StackSettings \subseteq [Stack -> BOOLEAN \cup {None}]

VARIABLES
    globalConfig, stackConfig,      \* config-as-code
    globalOverride, stackOverride,  \* what the UI has set
    version,                        \* changes of the overrides so far, in this process
    pending                         \* pending[s]: why s is deferred, or None

controllerVars == <<globalConfig, stackConfig, globalOverride, stackOverride, version>>
autosyncVars == <<controllerVars, pending>>

globalGiven(override) ==
    IF override # None THEN override ELSE IF globalConfig # None THEN globalConfig ELSE TRUE

baselineGiven(override, s) ==
    IF stackConfig[s] # None THEN stackConfig[s] ELSE globalGiven(override)

GlobalEffective == globalGiven(globalOverride)
baseline(s) == baselineGiven(globalOverride, s)

Effective(s) == IF stackOverride[s] # None THEN stackOverride[s] ELSE baseline(s)

stackScopeSet(s) == stackOverride[s] # None \/ stackConfig[s] # None

Reason(s) ==
    IF Effective(s) THEN "" ELSE IF stackScopeSet(s) THEN "stack" ELSE "global"

\* What GET /api/autosync serves and every publish carries.
Snapshot ==
    [version |-> version, global |-> GlobalEffective, stacks |-> [s \in Stack |-> Effective(s)]]

\* Faulty variant: the overrides stay when the global setting catches up with them.
SetGlobalOnly(v) ==
    /\ version' = version + 1 /\ globalOverride' = v
    /\ UNCHANGED <<globalConfig, stackConfig, stackOverride>>

\* An override that comes to coincide with its new baseline collapses.
SetGlobal(v) ==
    /\ version' = version + 1 /\ globalOverride' = v
    /\ stackOverride' = [s \in Stack |->
            IF stackOverride[s] = baselineGiven(v, s) THEN None ELSE stackOverride[s]]
    /\ UNCHANGED <<globalConfig, stackConfig>>

SetStack(s, v) ==
    /\ version' = version + 1
    /\ stackOverride' = [stackOverride EXCEPT ![s] = IF v = baseline(s) THEN None ELSE v]
    /\ UNCHANGED <<globalConfig, stackConfig, globalOverride>>

Mark(s, reason) == pending' = [pending EXCEPT ![s] = reason]
Clear(s) == pending' = [pending EXCEPT ![s] = None]

\* A process starts with the config of the day and nothing else.
NewController ==
    /\ globalConfig' \in GlobalSettings /\ stackConfig' \in StackSettings
    /\ globalOverride' = None /\ stackOverride' = [s \in Stack |-> None]
    /\ version' = 0
    /\ pending' = [s \in Stack |-> None]

AutosyncInit ==
    /\ globalConfig \in GlobalSettings /\ stackConfig \in StackSettings
    /\ globalOverride = None /\ stackOverride = [s \in Stack |-> None]
    /\ version = 0
    /\ pending = [s \in Stack |-> None]

AutosyncTypeOK ==
    /\ globalConfig \in BOOLEAN \cup {None} /\ globalOverride \in BOOLEAN \cup {None}
    /\ stackConfig \in [Stack -> BOOLEAN \cup {None}]
    /\ stackOverride \in [Stack -> BOOLEAN \cup {None}]
    /\ version \in Nat
    /\ pending \in [Stack -> {None, "", "stack", "global"}]

\* An override is only ever an exception: it never says what the stack would do
\* without it, whatever the global switch has done since (ADR-0019).
OverrideIsException == \A s \in Stack : stackOverride[s] # None => stackOverride[s] # baseline(s)

=============================================================================
