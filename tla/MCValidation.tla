----------------------------- MODULE MCValidation ------------------------------
(* An instance of Validation for TLC. *)
EXTENDS Validation

MCRecorded ==
    {[id |-> 1, kind |-> "Node", gen |-> 1], [id |-> 2, kind |-> "Adjacency", gen |-> 2],
     [id |-> 3, kind |-> "Policy", gen |-> 1]}

Segment(kind, encoding, id, gen, fields, ref, payload) ==
    [kind |-> kind, encoding |-> encoding, id |-> id, gen |-> gen,
     fields |-> fields, ref |-> ref, payload |-> payload]

(* A node segment, the same spelled out, and the same with another         *)
(* payload; an adjacency and a policy segment.                             *)
node == Segment("Node", "Invalid", 1, 1, {"node"}, 1, <<>>)
spelled == Segment("Node", "Node", 1, 1, {"node"}, 1, <<0>>)
other == Segment("Node", "Invalid", 1, 1, {"node"}, 1, <<0, 1>>)
adjacency == Segment("Adjacency", "Invalid", 2, 2, {"adjacency", "topology"}, 1, <<>>)
policy == Segment("Policy", "Policy", 3, 1, {"policy", "policy_generation"}, 2, <<1>>)
ValidSegments == {node, spelled, other, adjacency, policy}

(* Nothing given, a kind that does not exist, an encoding of another kind  *)
(* with a reserved field and a stale generation, an entity and a segment   *)
(* that are not known, a binding that lacks half and another kind of       *)
(* segment, and payloads at the limits.                                    *)
DefectiveSegments ==
    {Segment("Node", "Invalid", 0, 0, {}, 0, <<>>),
     Segment("Invalid", "Invalid", 1, 1, {"node"}, 1, <<>>),
     Segment("Node", "Policy", 1, 2, {"node", "topology"}, 1, <<>>),
     Segment("Endpoint", "Invalid", 9, 1, {"endpoint"}, 9, <<>>),
     Segment("Adjacency", "Invalid", 1, 1, {"adjacency"}, 1, <<>>),
     Segment("Node", "Invalid", 1, 1, {"node"}, 1, <<1, 1, 1>>)}

Policy(id, scope, profiles, kinds, depth, required, forbidden, replacement, derivation, strict) ==
    [id |-> id, gen |-> 2, owner_scope |-> scope, profiles |-> profiles, kinds |-> kinds,
     max_depth |-> depth, required |-> required, forbidden |-> forbidden,
     replacement |-> replacement, derivation |-> derivation, strict |-> strict]

(* A policy that restricts nothing but derivation, and one that restricts  *)
(* everything.                                                             *)
MCPolicies ==
    {Policy(1, 0, {}, {}, 0, {}, {}, TRUE, FALSE, FALSE),
     Policy(2, 1, {1, 3}, {"Node", "Policy"}, 1, {3}, {2}, FALSE, TRUE, TRUE)}

(* A creation under the profile with no policy. *)
Draft(profile, segments) ==
    [before |-> <<>>, between |-> <<>>, id |-> 1, call |-> "batch",
     existing |-> 0, state |-> "Active", expected |-> 0, superseded |-> "none",
     supersedes_generation |-> 1, superseded_generation |-> 1, profile |-> profile,
     profile_generation |-> 0, policy |-> 0, policy_generation |-> 0, scope |-> 1, strictness |-> "Strict",
     derived |-> FALSE, segments |-> segments]

Sequences(S, n) == UNION {[1 .. k -> S] : k \in 0 .. n}

(* All sequences of up to two segments, and of up to four valid ones, one  *)
(* more than the limit, under every profile and under none.                *)
ContentDrafts ==
    {Draft(p, s) : p \in 0 .. 4,
                   s \in Sequences(ValidSegments \cup DefectiveSegments, 2)
                         \cup Sequences({node, spelled, other, adjacency}, 4)}

(* What else a draft can ask for. *)
GovernedDrafts ==
    {[Draft(p, s) EXCEPT !.profile_generation = g[1], !.policy = q, !.policy_generation = g[2],
                         !.scope = x[1], !.existing = x[2], !.expected = x[3],
                         !.strictness = l, !.derived = x[4]] :
       p \in 1 .. 3, s \in Sequences({spelled, adjacency, policy}, 2),
       g \in {<<0, 0>>, <<1, 2>>, <<2, 1>>}, q \in 0 .. 3, l \in {"Strict", "Loose"},
       x \in {<<1, 0, 0, FALSE>>, <<2, 0, 0, TRUE>>, <<1, 1, 1, FALSE>>, <<1, 2, 1, TRUE>>}}

(* Every call with every list it can find, at every generation up to the   *)
(* last.  (What is revalidated was there when its content was read.)       *)
LifecycleDrafts ==
    {[Draft(1, <<node>>) EXCEPT !.id = i, !.call = c, !.expected = x] :
       i \in 0 .. 1, c \in {"create", "replace", "batch"}, x \in 0 .. 1}
    \cup {[Draft(1, s) EXCEPT !.call = c, !.existing = g, !.expected = x, !.state = l] :
            s \in {<<>>, <<node>>}, c \in DOMAIN Intent, g \in 1 .. MaxGeneration,
            x \in 0 .. MaxGeneration, l \in LifecycleState}

(* What the checks on shared state find, and the list that is superseded. *)
SharedDrafts ==
    {[Draft(1, s) EXCEPT !.before = b, !.between = c, !.superseded = u[1],
                         !.superseded_generation = u[2]] :
       s \in {<<>>, <<node>>, <<node, spelled>>, <<adjacency, node, node>>},
       b \in {<<>>, <<Reason("EpochStale", 0, 1)>>},
       c \in {<<>>, <<Reason("TopologyAdjacencyStale", 0, 1)>>},
       u \in {<<"none", 1>>, <<"unknown", 1>>, <<"Active", 1>>, <<"Withdrawn", 2>>,
              <<"Superseded", 1>>, <<"Revoked", 2>>, <<"Retired", 1>>}}

PairedDrafts ==
    SharedDrafts \cup {Draft(p, s) : p \in {1, 4}, s \in Sequences({node, policy}, 1)}

MCBatches ==
    {<<d>> : d \in ContentDrafts \cup GovernedDrafts \cup LifecycleDrafts \cup SharedDrafts}
    \cup {<<d, e>> : d, e \in PairedDrafts}
================================================================================
