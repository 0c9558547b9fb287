----------------------------- MODULE MCDeployer -----------------------------
(***************************************************************************)
(* Deployer on small instances.  Two stacks, app depending on db, and one  *)
(* stack alone; deploy orders are the ones orderStacks computes.           *)
(***************************************************************************)
EXTENDS Deployer, TLC

CONSTANTS db, app

PairDependsOn == [s \in Stack |-> IF s = app THEN {db} \cap Stack ELSE {}]
PairOrder == [S \in SUBSET Stack |->
    SelectSeq(<<db, app>>, LAMBDA s : s \in S)]

\* Versions are interchangeable.
VersionSymmetry == Permutations(Version)
=============================================================================
