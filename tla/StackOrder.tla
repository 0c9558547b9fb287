----------------------------- MODULE StackOrder -----------------------------
(***************************************************************************)
(* orderStacks (internal/deploy/ordering.go): the deploy order of one run, *)
(* as the loop computes it.  The outer loop makes passes over the stacks   *)
(* in config order; a pass emits every stack whose dependencies have been  *)
(* emitted; a pass without progress appends the rest in config order.      *)
(*                                                                         *)
(* The stacks of a run are the ones StackSet lets through.  Their          *)
(* depends_on may also name a stack outside the run: one that is disabled  *)
(* or was excluded by an error of its own.                                 *)
(***************************************************************************)
EXTENDS StackSet

VARIABLES
    ordered,     \* the result so far; emitted is the set of its elements
    fellBack     \* history: the remainder was appended

vars == <<setVars, ordered, fellBack>>
unchangedSet == <<config, dependsOn, phase, stacks, stackErrs, resolved>>

emitted == Elements(ordered)

Done == phase = "order" /\ Len(ordered) = Len(stacks) /\ i > Len(stacks)

Init == SetInit /\ ordered = <<>> /\ fellBack = FALSE

\* Faulty variant: one emitted dependency is enough.
AnyDependencyEmitted(s) == dependsOn[s] = {} \/ dependsOn[s] \cap emitted # {}

dependenciesEmitted(s) == dependsOn[s] \subseteq emitted

\* Faulty variant: the pass runs through the list backwards.
TurnBackwards == stacks[Len(stacks) + 1 - i]

\* The stack the inner loop is at.
Turn == stacks[i]

\* The body of the inner loop appends the stack at its position ...
Emit ==
    /\ phase = "order" /\ i <= Len(stacks)
    /\ Turn \notin emitted /\ dependenciesEmitted(Turn)
    /\ ordered' = Append(ordered, Turn)
    /\ progressed' = TRUE
    /\ i' = i + 1
    /\ UNCHANGED <<unchangedSet, fellBack>>

\* ... or continues.
Skip ==
    /\ phase = "order" /\ i <= Len(stacks)
    /\ Turn \in emitted \/ ~dependenciesEmitted(Turn)
    /\ i' = i + 1
    /\ UNCHANGED <<unchangedSet, ordered, progressed, fellBack>>

\* The outer loop goes around again.
NextPass ==
    /\ phase = "order" /\ i > Len(stacks) /\ progressed
    /\ Len(ordered) < Len(stacks)
    /\ i' = 1
    /\ progressed' = FALSE
    /\ UNCHANGED <<unchangedSet, ordered, fellBack>>

\* Faulty variant: a pass without progress is just followed by another.
PassAgain ==
    /\ phase = "order" /\ i > Len(stacks) /\ ~progressed
    /\ Len(ordered) < Len(stacks)
    /\ i' = 1
    /\ UNCHANGED <<unchangedSet, ordered, progressed, fellBack>>

\* A pass without progress: the unresolvable remainder in config order.
AppendRemainder ==
    /\ phase = "order" /\ i > Len(stacks) /\ ~progressed
    /\ Len(ordered) < Len(stacks)
    /\ ordered' = ordered \o InConfigOrder[Elements(stacks) \ emitted]
    /\ fellBack' = TRUE
    /\ UNCHANGED <<unchangedSet, i, progressed>>

Return == (Done \/ phase = "refused") /\ UNCHANGED vars

Next ==
    \/ SetNext /\ UNCHANGED <<ordered, fellBack>>
    \/ Emit \/ Skip \/ NextPass \/ AppendRemainder \/ Return

Spec == Init /\ [][Next]_vars

\* A sequential loop keeps running.
FairSpec == Spec /\ WF_vars(Next)

-----------------------------------------------------------------------------
(* Properties *)

Before(seq, x, y) ==
    \E j, k \in 1 .. Len(seq) : j < k /\ seq[j] = x /\ seq[k] = y

\* No depends_on of the run leads out of it.
Closed == \A s \in Elements(stacks) : dependsOn[s] \subseteq Elements(stacks)

\* When no dependency lies outside the run, a stack is never placed before one
\* it depends on, at any point of the loop.
DependenciesFirst ==
    Closed => \A s \in emitted : \A d \in dependsOn[s] : Before(ordered, d, s)

\* The stacks a stack waits for, directly or through others: what every set of
\* stacks contains that holds its dependencies and the dependencies of its own.
Upstream(s) ==
    {t \in Stack : \A C \in SUBSET Stack :
        dependsOn[s] \subseteq C /\ (\A u \in C : dependsOn[u] \subseteq C) => t \in C}

\* Config order is kept among stacks not otherwise constrained: a stack drops
\* behind one listed after it only when it, or a stack it waits for, depends on
\* a stack that is listed later than itself or is not part of the run.
ConfigOrderKept ==
    Done => \A x, y \in emitted :
        Before(stacks, x, y) /\ Before(ordered, y, x) =>
            \E u \in {x} \cup Upstream(x) : \E d \in dependsOn[u] :
                Before(stacks, u, d) \/ d \notin emitted

\* Both loops end: the config was refused, or every stack that is fine and not
\* stuck is placed exactly once, whatever the depends_on edges are.
Terminates ==
    <>(phase = "refused" \/ (Done /\ Elements(ordered) = Valid \ Stuck))
=============================================================================
