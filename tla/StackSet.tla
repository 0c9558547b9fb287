------------------------------ MODULE StackSet ------------------------------
(***************************************************************************)
(* Which stacks a run has (internal/config).  With stack discovery every   *)
(* directory with a compose file is a stack; LoadRepoStacks leaves out the *)
(* disabled ones and those with an error of their own, and                 *)
(* dropDependencyCycles those that depends_on cannot order, reporting each.*)
(* Without discovery the host config lists the stacks, and Load refuses    *)
(* the whole config for the same errors.  cyclicStacks is modelled as the  *)
(* loop it is; i and progressed are its locals, and later orderStacks's.   *)
(***************************************************************************)
EXTENDS Naturals, Sequences, FiniteSets

CONSTANTS
    Stack,          \* the names a config may use
    InConfigOrder,  \* a set of stacks as the list that config order makes of it
    Configs         \* the configs a behaviour may start from

Elements(seq) == {seq[k] : k \in 1 .. Len(seq)}

ASSUME OrderAssumption ==
    /\ InConfigOrder \in [SUBSET Stack -> Seq(Stack)]
    /\ \A S \in SUBSET Stack :
        /\ Elements(InConfigOrder[S]) = S
        /\ \A j, k \in 1 .. Len(InConfigOrder[S]) :
                j # k => InConfigOrder[S][j] # InConfigOrder[S][k]

ASSUME ConfigsAssumption ==
    \A c \in Configs :
        /\ c.known \subseteq Stack /\ c.disabled \subseteq c.known
        /\ c.dependsOn \in [Stack -> SUBSET Stack]

VARIABLES
    config,      \* discovery, known: the directories or the listed stacks,
                 \* overridden: the stacks: entries, disabled, broken: the
                 \* stacks with an error of their own
    dependsOn,   \* depends_on of each stack
    phase,       \* load, peel (cyclicStacks), order (orderStacks), refused
    stacks,      \* the stacks of the run, in config order
    stackErrs,   \* the stacks reported as StackErrors
    resolved,    \* cyclicStacks's resolved
    i,           \* the inner loop's position
    progressed   \* this pass has resolved, or placed, something

setVars == <<config, dependsOn, phase, stacks, stackErrs, resolved, i, progressed>>

SetInit ==
    /\ \E c \in Configs :
        /\ dependsOn = c.dependsOn
        /\ config = [discovery |-> c.discovery, known |-> c.known, overridden |-> c.overridden,
                     disabled |-> c.disabled, broken |-> c.broken]
    /\ phase = "load"
    /\ stacks = <<>>
    /\ stackErrs = {} /\ resolved = {}
    /\ i = 1 /\ progressed = FALSE

invalidDependency(s) == s \in dependsOn[s] \/ ~(dependsOn[s] \subseteq config.known)

\* The stacks that have no error of their own and are not disabled.
Valid == {s \in config.known \ (config.disabled \cup config.broken) : ~invalidDependency(s)}

\* The host config is refused as a whole ...
ValidateConfig ==
    /\ phase = "load" /\ ~config.discovery
    /\ Valid # config.known
    /\ phase' = "refused"
    /\ UNCHANGED <<config, dependsOn, stacks, stackErrs, resolved, i, progressed>>

\* ... discovery goes on with the stacks that are fine.
LoadStacks ==
    /\ phase = "load"
    /\ config.discovery \/ Valid = config.known
    /\ phase' = "peel"
    /\ stacks' = InConfigOrder[Valid]
    /\ stackErrs' = (config.overridden \ config.known)
                        \cup (config.known \ (config.disabled \cup Valid))
    /\ UNCHANGED <<config, dependsOn, resolved, i, progressed>>

\* Faulty variant: one resolved dependency is enough.
AnyResolved(s) ==
    dependsOn[s] \cap Elements(stacks) = {} \/ dependsOn[s] \cap resolved # {}

\* A dependency outside the given set is ignored.
allResolved(s) == dependsOn[s] \cap Elements(stacks) \subseteq resolved

\* The body of cyclicStacks's inner loop peels the stack at its position ...
Peel ==
    /\ phase = "peel" /\ i <= Len(stacks)
    /\ stacks[i] \notin resolved /\ allResolved(stacks[i])
    /\ resolved' = resolved \cup {stacks[i]}
    /\ progressed' = TRUE
    /\ i' = i + 1
    /\ UNCHANGED <<config, dependsOn, phase, stacks, stackErrs>>

\* ... or goes on.
PassOver ==
    /\ phase = "peel" /\ i <= Len(stacks)
    /\ stacks[i] \in resolved \/ ~allResolved(stacks[i])
    /\ i' = i + 1
    /\ UNCHANGED <<config, dependsOn, phase, stacks, stackErrs, resolved, progressed>>

PeelAgain ==
    /\ phase = "peel" /\ i > Len(stacks) /\ progressed
    /\ resolved # Elements(stacks)
    /\ i' = 1
    /\ progressed' = FALSE
    /\ UNCHANGED <<config, dependsOn, phase, stacks, stackErrs, resolved>>

Peeled ==
    /\ phase = "peel" /\ i > Len(stacks)
    /\ ~progressed \/ resolved = Elements(stacks)

\* validateStackDependencies: a cycle in the host config is an error too ...
RefuseCycle ==
    /\ Peeled /\ ~config.discovery
    /\ resolved # Elements(stacks)
    /\ phase' = "refused"
    /\ UNCHANGED <<config, dependsOn, stacks, stackErrs, resolved, i, progressed>>

\* ... discovery reports what is left and goes on without it.
dropDependencyCycles ==
    /\ Peeled
    /\ config.discovery \/ resolved = Elements(stacks)
    /\ phase' = "order"
    /\ stacks' = InConfigOrder[resolved]
    /\ stackErrs' = stackErrs \cup (Elements(stacks) \ resolved)
    /\ i' = 1
    /\ progressed' = FALSE
    /\ UNCHANGED <<config, dependsOn, resolved>>

SetNext ==
    \/ ValidateConfig \/ LoadStacks
    \/ Peel \/ PassOver \/ PeelAgain
    \/ RefuseCycle \/ dropDependencyCycles

-----------------------------------------------------------------------------
(* Properties *)

\* A group of stacks none of which can ever go first: a cycle, with what waits
\* for it.
Waiting(C) == \A s \in C : dependsOn[s] \cap C # {}
Stuck == {s \in Valid : \E C \in SUBSET Valid : s \in C /\ Waiting(C)}

\* cyclicStacks peels to the end and no further: a run has every stack that is
\* fine, except for exactly those on a cycle or waiting for one, and each of
\* them is reported; the host config is refused for nothing less.
LeftOutIffStuck ==
    /\ phase = "order" =>
        /\ Elements(stacks) = Valid \ Stuck
        /\ config.known \ (config.disabled \cup Elements(stacks)) \subseteq stackErrs
        /\ stackErrs \cap (Elements(stacks) \cup config.disabled) = {}
    /\ phase = "refused" => ~config.discovery /\ (Valid # config.known \/ Stuck # {})
=============================================================================
