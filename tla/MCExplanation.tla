----------------------------- MODULE MCExplanation -----------------------------
(* An instance of Explanation for TLC. *)
EXTENDS Explanation, MCValidation

(* Stored segments: the encoding is filled in.  A node segment with        *)
(* payloads of several widths, one that the evidence has at another        *)
(* generation, an endpoint that is not known any more, and adjacencies.    *)
Node(payload) == Segment("Node", "Node", 1, 1, {"node"}, 1, payload)
Adjacency(ref) == Segment("Adjacency", "Adjacency", 2, 2, {"adjacency", "topology"}, ref, <<>>)

Nodes == {Node(<<>>), Node(<<0>>), Node(<<1>>), Node(<<0, 1>>)}
ExplainedSegments ==
    Nodes \cup {Adjacency(1), Adjacency(2), Segment("Node", "Node", 1, 2, {"node"}, 1, <<>>),
                Segment("Endpoint", "Endpoint", 9, 1, {"endpoint"}, 9, <<>>)}

List(profile, topology, segments) ==
    [id |-> 1, gen |-> 1, state |-> "Active", cur |-> "Current", profile |-> <<profile, 1>>,
     policy |-> <<0, 0>>, strictness |-> "Strict", topology |-> topology, capability |-> 0,
     path |-> 0, route |-> 0, constraint |-> 0, authority |-> <<1, 1, 1>>, segments |-> segments]

Fabric(c, u, capability, a, topology) ==
    [capabilities |-> c, unsupported |-> u, capability |-> capability,
     adjacencies |-> a, topology |-> topology]

Calm == Fabric(<<1, 1>>, {}, 1, <<1, 2>>, 1)

CapabilityFabrics ==
    {Fabric(c, u, 1, <<1, 2>>, 1) : c \in [1 .. 2 -> 0 .. 2], u \in SUBSET {1, 2}}

TopologyFabrics ==
    {Fabric(<<1, 1>>, {}, 1, a, t) : a \in [1 .. 2 -> 0 .. 2], t \in 1 .. 2}

Limits == {1, 2, 9}

(* Another revision of a list: one field is different, or several are. *)
Revisions(l) ==
    {l, [l EXCEPT !.gen = 2], [l EXCEPT !.gen = 2, !.state = "Withdrawn", !.cur = "Unknown"],
     [l EXCEPT !.profile = <<1, 2>>], [l EXCEPT !.profile = <<2, 1>>],
     [l EXCEPT !.policy = <<1, 1>>], [l EXCEPT !.policy = <<1, 2>>],
     [l EXCEPT !.strictness = "Loose"], [l EXCEPT !.topology = 2, !.capability = 1],
     [l EXCEPT !.path = 1, !.route = 1, !.constraint = 1],
     [l EXCEPT !.authority = <<2, 1, 1>>], [l EXCEPT !.authority = <<1, 2, 1>>],
     [l EXCEPT !.id = 2], None}

Plain == List(1, 1, <<Node(<<>>)>>)

DiffQuestions ==
    [topic : {"diff"}, from : {List(1, 1, s) : s \in Sequences(Nodes, 3)},
     to : {[List(1, 1, s) EXCEPT !.gen = 2] : s \in Sequences(Nodes, 3)}, limit : {3}]
    \cup [topic : {"diff"}, from : Revisions(Plain), to : Revisions(Plain), limit : Limits]

SegmentQuestions ==
    [topic : {"segment"}, list : {List(p, 0, s) : p \in 1 .. 4, s \in Sequences(ExplainedSegments, 3)},
     index : 0 .. 2, limit : {9}, fabric : {Calm, Fabric(<<1, 0>>, {}, 2, <<2, 2>>, 2)}]
    \cup [topic : {"segment"}, list : {None, Plain}, index : 0 .. 1, limit : Limits,
          fabric : CapabilityFabrics]

CapabilityQuestions ==
    [topic : {"capability"}, list : {List(p, 0, <<>>) : p \in 1 .. 4} \cup {None}, limit : Limits,
     fabric : CapabilityFabrics]

TopologyQuestions ==
    [topic : {"topology"},
     list : {List(1, t, s) : t \in 0 .. 2, s \in Sequences({Node(<<>>), Adjacency(1), Adjacency(2)}, 3)}
            \cup {None},
     limit : Limits, fabric : TopologyFabrics]

MCQuestions == DiffQuestions \cup SegmentQuestions \cup CapabilityQuestions \cup TopologyQuestions
================================================================================
