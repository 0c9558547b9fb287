------------------------------ MODULE ImageTags ------------------------------
(***************************************************************************)
(* Which image tags are versions of each other, and which one is newest     *)
(* (internal/updatecheck/tags.go).  A tag is what parseTagShape makes of it: *)
(* an optional "v", the numbers between the dots, and the rest verbatim.    *)
(* Tags that are no version ("latest") have no numbers.                     *)
(***************************************************************************)
EXTENDS Integers, Sequences

\* The versions.
parseTagShape(t) == t.nums # <<>>

\* Faulty variant: variants compare with each other.
SameLength(s, o) == s.prefix = o.prefix /\ Len(s.nums) = Len(o.nums)

\* A wrong upgrade hint is worse than none: everything but the numbers must agree.
comparable(s, o) ==
    /\ s.prefix = o.prefix
    /\ s.suffix = o.suffix
    /\ Len(s.nums) = Len(o.nums)

\* Component by component, as numbers.
less(s, o) ==
    \E i \in DOMAIN s.nums :
        /\ s.nums[i] < o.nums[i]
        /\ \A j \in 1 .. i - 1 : s.nums[j] = o.nums[j]

\* The highest of the listed tags that is newer than the running one and of its
\* shape, or the running one if there is none ("" in the code).
NewerTag(running, tags) ==
    LET newer(best, t) == parseTagShape(t) /\ comparable(running, t) /\ less(best, t)
        best[i \in 0 .. Len(tags)] ==
            IF i = 0 THEN running
            ELSE IF newer(best[i - 1], tags[i]) THEN tags[i] ELSE best[i - 1]
    IN  IF parseTagShape(running) THEN best[Len(tags)] ELSE running
=============================================================================
