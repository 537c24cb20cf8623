------------------------------ MODULE MCMessages -------------------------------
(* An instance of Messages for TLC.  The values of the fields of a message *)
(* are all different, so that none can be taken for another.               *)
EXTENDS Messages, MCOracle

Mutation(strictness, derived, segments) ==
    [type |-> "Mutation", attempt |-> 11, id |-> 12, scope |-> 13, profile |-> 14,
     profile_generation |-> 15, policy |-> 16, policy_generation |-> 17,
     strictness |-> strictness, topology |-> 18, capability |-> 19, path |-> 20,
     path_authority |-> 21, route |-> 22, route_generation |-> 23, constraint |-> 24,
     constraint_generation |-> 25, expected_generation |-> 26, supersedes |-> 27,
     supersedes_generation |-> 28, derived |-> derived, segments |-> segments]

Summary(list, state, currentness) ==
    [list |-> list, generation |-> 12, state |-> state, currentness |-> currentness,
     profile |-> 13, profile_generation |-> 14, digest_hi |-> 15, digest_lo |-> 16,
     segment_count |-> 17, epoch |-> 18]

Response(code, reasons, summaries) ==
    [type |-> "Response", request_id |-> 11, status |-> code, reasons |-> reasons,
     truncated |-> 1, list |-> 12, generation |-> 13, digest_hi |-> 14, digest_lo |-> 15,
     idempotent_replay |-> 0, epoch |-> 16, session |-> 17, summaries |-> summaries]

Reasons(n) == [i \in 1 .. n |-> [code |-> 20 + i, index |-> 30 + i, detail |-> 40 + i]]

Summaries(n) == [i \in 1 .. n |-> Summary(20 + i, 3, i)]

Mutations ==
    {Mutation(x, d, s) : x \in 1 .. 2, d \in 0 .. 1, s \in Sequences(ScenarioSegments, 2)}
    \cup {Mutation(1, 0, s) : s \in Sequences({node, policy, adjacency}, 4)}

Responses ==
    {Response(0, Reasons(n), Summaries(k)) : n \in 0 .. MaxReasons + 1, k \in 0 .. MaxSummaries + 1}
    \cup {Response(x, <<>>, <<Summary(20, t, c)>>) : x \in 0 .. 7, t \in 1 .. 9, c \in 0 .. 11}

Others ==
    {[type |-> "Hello", boot |-> 11, publisher |-> 12, scope |-> 13, epoch |-> 14],
     [type |-> "HelloAck", epoch |-> 11, session |-> 12],
     [type |-> "Heartbeat", publisher |-> 11, boot |-> 12, epoch |-> 13],
     [type |-> "Get", list |-> 11]}
    \cup {[type |-> "Lifecycle", attempt |-> 11, op |-> o, list |-> 12, expected |-> 13] : o \in 1 .. 5}

Few ==
    Others \cup {Mutation(1, 0, s) : s \in Sequences({node, policy, adjacency}, 2)}
    \cup {Response(1, Reasons(n), Summaries(k)) : n \in {0, 2}, k \in {0, 2}}

Transmissions ==
    [topic : {"message"}, message : Mutations \cup Responses \cup Others, cut : {0}, extra : {FALSE}]
    \cup [topic : {"message"}, message : Few, cut : 1 .. 50, extra : {FALSE}]
    \cup [topic : {"message"}, message : Few, cut : {0}, extra : {TRUE}]

MCMessageQuestions == MCScenarios \cup Transmissions
================================================================================
