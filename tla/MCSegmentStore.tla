---------------------------- MODULE MCSegmentStore -----------------------------
(* Instances of SegmentStore for TLC. *)
EXTENDS SegmentStore, TLC

(* Model values of one kind are interchangeable. *)
Symmetry ==
    UNION {Permutations(S) : S \in {Threads, Attempts, Lists, Publishers, Boots}}

(* A body whose content refers to the dependencies in needs, and that      *)
(* demands or declares generation g of the dependencies in given.          *)
MCBody(needs, given, g, segs) ==
    [needs |-> needs, segs |-> segs,
     bind |-> [d \in Deps |-> IF d \in given THEN g ELSE 0]]

(* Content that needs the profile and binds the observed topology. *)
FabricBodies == {MCBody({"profile", "topology"}, {}, 0, 1)}

(* Content with an adjacency, whose segments pin its generation and which  *)
(* binds the observed topology too; content that demands a topology        *)
(* generation itself; and longer content that is bound to a path.          *)
MixedBodies ==
    {MCBody({"profile", "topology", "adjacency"}, {"adjacency"}, 1, 1),
     MCBody({"profile"}, {"topology"}, 1, 1),
     MCBody({"profile", "path"}, {"path"}, 1, 2)}

(* Content that needs the profile only. *)
PlainBodies == {MCBody({"profile"}, {}, 0, 1)}
================================================================================
