----------------------------- MODULE MCCoordinator -----------------------------
EXTENDS Coordinator, TLC

(* Nothing tells two connections, or two attempts, apart. *)
Symmetry == Permutations(Conns) \cup Permutations(Attempts)

(* One content, bound to whatever profile is registered. *)
PlainBodies ==
    {[needs |-> RegistryDeps, bind |-> [d \in Deps |-> 0], segs |-> 1]}
================================================================================
