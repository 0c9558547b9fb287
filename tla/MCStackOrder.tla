---------------------------- MODULE MCStackOrder ----------------------------
(* Any depends_on graph over four directories, and three names with the errors *)
(* a config can have, listed or discovered.                                   *)
EXTENDS StackOrder, SequencesExt

CONSTANTS a, b, c, d

MCOrder == [S \in SUBSET Stack |-> SelectSeq(<<a, b, c, d>>, LAMBDA s : s \in S)]

Config(discovery, kind, g) ==
    [discovery  |-> discovery,
     known      |-> {s \in Stack : kind[s] # "missing"},
     overridden |-> {s \in Stack : kind[s] # "plain"},
     disabled   |-> {s \in Stack : kind[s] = "disabled"},
     broken     |-> {s \in Stack : kind[s] = "broken"},
     dependsOn  |-> [s \in Stack |-> g[s]]]

FourStacks ==
    {Config(TRUE, [s \in Stack |-> "plain"], (a :> w) @@ (b :> x) @@ (c :> y) @@ (d :> z)) :
        w \in SUBSET {b, c, d}, x \in SUBSET {a, c, d}, y \in SUBSET {a, b, d}, z \in SUBSET {a, b, c}}

\* The fourth name has no directory.
ThreeNames ==
    {Config(discovery, (a :> k) @@ (b :> l) @@ (c :> "plain") @@ (d :> "missing"),
                       (a :> w) @@ (b :> x) @@ (c :> y) @@ (d :> {})) :
        discovery \in BOOLEAN, k \in {"plain", "disabled"}, l \in {"plain", "broken"},
        w \in SUBSET {b, c}, x \in SUBSET {b, c}, y \in SUBSET {a, b, d}}

MCConfigs == FourStacks \cup {x \in ThreeNames : x.discovery \/ x.disabled = {}}
=============================================================================
