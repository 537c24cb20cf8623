------------------------------- MODULE MCOracle --------------------------------
(* An instance of Oracle for TLC. *)
EXTENDS Oracle, MCExplanation

(* The built-in profiles and some a scenario can describe besides: without *)
(* a payload, without a generation, with a narrow payload, and one that    *)
(* lets nothing be repeated but has place for more than the limit.         *)
ScenarioProfiles ==
    Profiles \cup {[abstract_governance_profile EXCEPT !.payload_width = 0],
                   [abstract_governance_profile EXCEPT !.gen = 0],
                   [abstract_governance_profile EXCEPT !.payload_width = 1],
                   [abstract_governance_profile EXCEPT !.empty = TRUE, !.max_depth = 9]}

(* Defects that show without evidence; the last two give a generation and  *)
(* no entity.                                                              *)
ScenarioSegments ==
    ValidSegments \cup DefectiveSegments
    \cup {Segment("Adjacency", "Invalid", 2, 2, {"topology"}, 1, <<>>),
          Segment("Policy", "Adjacency", 3, 1, {"policy_generation"}, 1, <<1, 0>>)}

(* Five different segments, two more than the limit, in every order. *)
Distinct ==
    SetToSeqs({node, other, policy, adjacency, Segment("Node", "Invalid", 1, 1, {"node"}, 1, <<1>>)})

Scenarios ==
    [topic : {"sequence"}, profile : ScenarioProfiles, reqcaps : {0, 2},
     segments : Sequences(ScenarioSegments, 2) \cup Sequences({node, spelled, other, adjacency}, 5)]
    \cup [topic : {"sequence"}, profile : ScenarioProfiles, reqcaps : {0},
          segments : [1 .. 4 -> DefectiveSegments \cup {node}] \cup Distinct]

MCScenarios == MCQuestions \cup Scenarios
================================================================================
