-------------------------------- MODULE MCBatch --------------------------------
(* Instances of Batch for TLC. *)
EXTENDS Batch, MCSegmentStore

(* Content that demands a topology generation. *)
DemandingBodies == {MCBody({"profile"}, {"topology"}, 1, 1)}
================================================================================
