-------------------------------- MODULE Messages -------------------------------
(***************************************************************************)
(* What a frame carries: the payloads of the requests and of the response  *)
(* (src/wire.cpp).  Encoder and decoder are written apart from each other  *)
(* and have to agree on the order and width of every field, on the limits  *)
(* and on which values exist.                                              *)
(*                                                                         *)
(* Abstraction.  A payload is the sequence of the values that are written, *)
(* each with its width in bytes: reading one of another width fails, as    *)
(* reading past the end does.  Enumerators and flags are numbers.  Of the  *)
(* reasons a decoder reports for one failure the first is kept; when       *)
(* decode_response misses idempotent_replay it reports none, which is      *)
(* a malformed frame here.                                                 *)
(***************************************************************************)
EXTENDS Oracle

CONSTANT MaxSummaries   \* max_lists

(* What is sent: identifiers, generations, digests and codes are numbers,  *)
(* enumerators and flags those there are.                                  *)
HelloType == [type : {"Hello"}, boot : Nat, publisher : Nat, scope : Nat, epoch : Nat]
HelloAckType == [type : {"HelloAck"}, epoch : Nat, session : Nat]
HeartbeatType == [type : {"Heartbeat"}, publisher : Nat, boot : Nat, epoch : Nat]
LifecycleType == [type : {"Lifecycle"}, attempt : Nat, op : 1 .. 5, list : Nat, expected : Nat]
GetType == [type : {"Get"}, list : Nat]

(* The length of a payload is written with 16 bits, unchecked: a segment   *)
(* with a longer payload is not sent here.                                 *)
SentSegment ==
    {s \in SegmentType : (s.fields = {} <=> s.ref = 0) /\ Len(s.payload) < 65536}

MutationType ==
    [type : {"Mutation"}, attempt : Nat, id : Nat, scope : Nat, profile : Nat,
     profile_generation : Nat, policy : Nat, policy_generation : Nat, strictness : 1 .. 2,
     topology : Nat, capability : Nat, path : Nat, path_authority : Nat, route : Nat,
     route_generation : Nat, constraint : Nat, constraint_generation : Nat,
     expected_generation : Nat, supersedes : Nat, supersedes_generation : Nat,
     derived : 0 .. 1, segments : Seq(SentSegment)]

SentReason == [code : Nat, index : Nat, detail : Nat]

SentSummary ==
    [list : Nat, generation : Nat, state : 1 .. 9, currentness : 0 .. 11, profile : Nat,
     profile_generation : Nat, digest_hi : Nat, digest_lo : Nat, segment_count : Nat, epoch : Nat]

ResponseType ==
    [type : {"Response"}, request_id : Nat, status : 0 .. 7, reasons : Seq(SentReason),
     truncated : 0 .. 1, list : Nat, generation : Nat, digest_hi : Nat, digest_lo : Nat,
     idempotent_replay : 0 .. 1, epoch : Nat, session : Nat, summaries : Seq(SentSummary)]

MessageType ==
    HelloType \cup HelloAckType \cup HeartbeatType \cup LifecycleType \cup GetType
    \cup MutationType \cup ResponseType

Item == [width : Nat, value : Nat]

ASSUME MessageAssumption ==
    /\ MaxSummaries \in Nat
    /\ None \notin Seq(Item)
    /\ \A q \in Questions :
          q.topic = "message" =>
              q.message \in MessageType /\ q.cut \in Nat /\ q.extra \in BOOLEAN

(* Layouts: sequences of pairs of a field and its width. *)
Fields(width, names) == [i \in DOMAIN names |-> <<names[i], width>>]
U64(names) == Fields(8, names)

Written(layout, m) ==
    [i \in DOMAIN layout |-> [width |-> layout[i][2], value |-> m[layout[i][1]]]]
--------------------------------------------------------------------------------
(* Encoders. *)

encode_hello(m) == Written(U64(<<"boot", "publisher", "scope", "epoch">>), m)

encode_hello_ack(m) == Written(U64(<<"epoch", "session">>), m)

encode_heartbeat(m) == Written(U64(<<"publisher", "boot", "epoch">>), m)

encode_lifecycle(m) ==
    Written(U64(<<"attempt">>) \o Fields(1, <<"op">>) \o U64(<<"list", "expected">>), m)

encode_get(m) == Written(U64(<<"list">>), m)

References ==
    <<"node", "adjacency", "endpoint", "binding", "policy", "policy_generation", "topology">>

write_segment(s) ==
    Written(Fields(2, <<"kind", "encoding">>),
            [kind |-> KindCode[s.kind], encoding |-> KindCode[s.encoding]])
    \o Written(U64(<<"id", "gen">>), s)
    \o Written(U64(References), [f \in ToSet(References) |-> IF f \in s.fields THEN s.ref ELSE 0])
    \o Written(Fields(2, <<"length">>), [length |-> Len(s.payload)])
    \o Written(Fields(1, [i \in DOMAIN s.payload |-> i]), s.payload)

(* None: the draft is not encoded. *)
encode_mutation(m) ==
    IF Len(m.segments) > MaxSegments THEN None
    ELSE Written(U64(<<"attempt", "id", "scope", "profile", "profile_generation", "policy",
                       "policy_generation">>)
                 \o Fields(1, <<"strictness">>)
                 \o U64(<<"topology", "capability", "path", "path_authority", "route",
                          "route_generation", "constraint", "constraint_generation",
                          "expected_generation", "supersedes", "supersedes_generation">>)
                 \o Fields(1, <<"derived">>), m)
         \o Written(Fields(4, <<"count">>), [count |-> Len(m.segments)])
         \o FlattenSeq([i \in DOMAIN m.segments |-> write_segment(m.segments[i])])

encode_reason(r) == Written(<< <<"code", 2>>, <<"index", 4>>, <<"detail", 8>> >>, r)

encode_summary(s) ==
    Written(U64(<<"list", "generation">>) \o Fields(1, <<"state", "currentness">>)
            \o U64(<<"profile", "profile_generation", "digest_hi", "digest_lo">>)
            \o Fields(4, <<"segment_count">>) \o U64(<<"epoch">>), s)

encode_response(m) ==
    IF Len(m.summaries) > MaxSummaries THEN None
    ELSE Written(U64(<<"request_id">>) \o Fields(1, <<"status">>), m)
         \o Written(Fields(4, <<"count">>), [count |-> Len(m.reasons)])
         \o FlattenSeq([i \in DOMAIN m.reasons |-> encode_reason(m.reasons[i])])
         \o Written(Fields(1, <<"truncated">>)
                    \o U64(<<"list", "generation", "digest_hi", "digest_lo">>)
                    \o Fields(1, <<"idempotent_replay">>) \o U64(<<"epoch", "session">>), m)
         \o Written(Fields(4, <<"count">>), [count |-> Len(m.summaries)])
         \o FlattenSeq([i \in DOMAIN m.summaries |-> encode_summary(m.summaries[i])])
--------------------------------------------------------------------------------
(* Reading: what is left, what was read, and why it stopped. *)

Reader(items) == [rest |-> items, read |-> [f \in {} |-> 0], why |-> "Ok"]

Fits(items, layout) ==
    Len(items) >= Len(layout) /\ \A i \in DOMAIN layout : items[i].width = layout[i][2]

FieldNames(layout) == {layout[i][1] : i \in DOMAIN layout}

ReadFields(r, layout) ==
    LET place(f) == CHOOSE i \in DOMAIN layout : layout[i][1] = f
    IN  [f \in FieldNames(layout) \cup DOMAIN r.read |->
            IF f \in FieldNames(layout) THEN r.rest[place(f)].value ELSE r.read[f]]

(* Checks are triples of a field, the values it may have and the reason if *)
(* it has another.                                                         *)
Failed(read, checks) == {c \in DOMAIN checks : read[checks[c][1]] \notin checks[c][2]}

(* Read the fields of a layout, then make checks on them. *)
Take(r, layout, checks) ==
    LET bad == Failed(ReadFields(r, layout), checks)
    IN  IF r.why # "Ok" THEN r
        ELSE IF ~ Fits(r.rest, layout) THEN [r EXCEPT !.why = "WireMalformedFrame"]
        ELSE [rest |-> SubSeq(r.rest, Len(layout) + 1, Len(r.rest)), read |-> ReadFields(r, layout),
              why |-> IF bad = {} THEN "Ok" ELSE checks[Min(bad)][3]]

AtEnd(r) ==
    IF r.why = "Ok" /\ r.rest # <<>> THEN [r EXCEPT !.why = "WireTrailingBytes"] ELSE r

Flag(f) == <<f, {0, 1}, "WireFieldOutOfRange">>
Enumerator(f, values) == <<f, values, "WireUnknownEnumValue">>
--------------------------------------------------------------------------------
(* Decoders. *)

decode_hello(items) ==
    AtEnd(Take(Reader(items), U64(<<"boot", "publisher", "scope", "epoch">>), <<>>))

decode_hello_ack(items) == AtEnd(Take(Reader(items), U64(<<"epoch", "session">>), <<>>))

decode_heartbeat(items) ==
    AtEnd(Take(Reader(items), U64(<<"publisher", "boot", "epoch">>), <<>>))

decode_lifecycle(items) ==
    LET r == Take(Reader(items), U64(<<"attempt">>) \o Fields(1, <<"op">>),
                  <<Enumerator("op", 1 .. 5)>>)
    IN  AtEnd(Take(r, U64(<<"list", "expected">>), <<>>))

decode_get(items) == AtEnd(Take(Reader(items), U64(<<"list">>), <<>>))

KindNamed(code) == CHOOSE k \in DOMAIN KindCode : KindCode[k] = code

(* The references that are given have the same value here. *)
SegmentRead(v, payload) ==
    LET given == {f \in ToSet(References) : v[f] # 0}
    IN  [kind |-> KindNamed(v["kind"]), encoding |-> KindNamed(v["encoding"]),
         id |-> v["id"], gen |-> v["gen"], fields |-> given,
         ref |-> (IF given = {} THEN 0 ELSE v[CHOOSE f \in given : TRUE]),
         payload |-> payload]

read_segment(r) ==
    LET head == Take(r, Fields(2, <<"kind", "encoding">>),
                     <<Enumerator("kind", 1 .. 5), Enumerator("encoding", 0 .. 5)>>)
        refs == Take(head, U64(<<"id", "gen", "node", "adjacency", "endpoint", "binding", "policy",
                                 "policy_generation", "topology">>), <<>>)
        size == Take(refs, Fields(2, <<"length">>),
                     << <<"length", 0 .. MaxPayload, "WireFieldOutOfRange">> >>)
        rest == IF size.why # "Ok" THEN size
                ELSE Take(Reader(size.rest), Fields(1, [i \in 1 .. size.read["length"] |-> i]), <<>>)
    IN  IF rest.why # "Ok" THEN rest
        ELSE [rest EXCEPT !.read = SegmentRead(size.read, @)]

decode_reason(r) == Take(r, << <<"code", 2>>, <<"index", 4>>, <<"detail", 8>> >>, <<>>)

decode_summary(r) ==
    Take(r, U64(<<"list", "generation">>) \o Fields(1, <<"state", "currentness">>)
            \o U64(<<"profile", "profile_generation", "digest_hi", "digest_lo">>)
            \o Fields(4, <<"segment_count">>) \o U64(<<"epoch">>),
         <<Enumerator("state", 1 .. 9), Enumerator("currentness", 0 .. 11)>>)

(* An element of a repeated field. *)
ReadElement(name, r) ==
    CASE name = "segments"  -> read_segment(r)
      [] name = "reasons"   -> decode_reason(r)
      [] name = "summaries" -> decode_summary(r)

With(read, name, value) ==
    [f \in DOMAIN read \cup {name} |-> IF f = name THEN value ELSE read[f]]

ReadNext(q, name) ==
    LET e == ReadElement(name, Reader(q.rest))
    IN  IF q.why # "Ok" THEN q
        ELSE [rest |-> e.rest, why |-> e.why,
              read |-> With(q.read, name, Append(q.read[name], e.read))]

(* Read count elements into the field name; after is what is known after   *)
(* each of them.                                                           *)
Repeat(r, name) ==
    LET after[i \in 0 .. r.read["count"]] ==
            IF i = 0 THEN [r EXCEPT !.read = With(@, name, <<>>)] ELSE ReadNext(after[i - 1], name)
    IN  IF r.why # "Ok" THEN r ELSE after[r.read["count"]]

(* Mutant: a generation is read where its route is written. *)
bindings_read_Swapped ==
    <<"topology", "capability", "path", "path_authority", "route_generation", "route",
      "constraint", "constraint_generation", "expected_generation", "supersedes",
      "supersedes_generation">>

(* values[0] to values[10] of decode_mutation *)
bindings_read ==
    <<"topology", "capability", "path", "path_authority", "route", "route_generation",
      "constraint", "constraint_generation", "expected_generation", "supersedes",
      "supersedes_generation">>

decode_mutation(items) ==
    LET ids  == Take(Reader(items), U64(<<"attempt", "id", "scope", "profile", "profile_generation",
                                          "policy", "policy_generation">>), <<>>)
        mode == Take(ids, Fields(1, <<"strictness">>), <<Enumerator("strictness", 1 .. 2)>>)
        deps == Take(mode, U64(bindings_read), <<>>)
        more == Take(deps, << <<"derived", 1>>, <<"count", 4>> >>,
                     <<Flag("derived"), <<"count", 0 .. MaxSegments, "LimitMaxSegmentsPerList">> >>)
    IN  AtEnd(Repeat(more, "segments"))

decode_response(items) ==
    LET head    == Take(Reader(items), U64(<<"request_id">>) \o Fields(1, <<"status">>),
                        <<Enumerator("status", 0 .. 7)>>)
        counted == Take(head, Fields(4, <<"count">>),
                        << <<"count", 0 .. MaxReasons, "LimitMaxReasons">> >>)
        reasons == Repeat(counted, "reasons")
        flagged == Take(reasons, Fields(1, <<"truncated">>), <<Flag("truncated")>>)
        body    == Take(flagged,
                        U64(<<"list", "generation", "digest_hi", "digest_lo">>)
                        \o Fields(1, <<"idempotent_replay">>) \o U64(<<"epoch", "session">>),
                        <<Flag("idempotent_replay")>>)
        again   == Take(body, Fields(4, <<"count">>),
                        << <<"count", 0 .. MaxSummaries, "LimitMaxLists">> >>)
    IN  AtEnd(Repeat(again, "summaries"))
--------------------------------------------------------------------------------
(* A message is encoded and decoded at the other end, as it is or with its *)
(* last values missing or a value too many, as a peer that was built from  *)
(* other sources may send it.                                              *)

encode(m) ==
    CASE m.type = "Hello"     -> encode_hello(m)
      [] m.type = "HelloAck"  -> encode_hello_ack(m)
      [] m.type = "Heartbeat" -> encode_heartbeat(m)
      [] m.type = "Mutation"  -> encode_mutation(m)
      [] m.type = "Lifecycle" -> encode_lifecycle(m)
      [] m.type = "Get"       -> encode_get(m)
      [] m.type = "Response"  -> encode_response(m)

decode(type, items) ==
    CASE type = "Hello"     -> decode_hello(items)
      [] type = "HelloAck"  -> decode_hello_ack(items)
      [] type = "Heartbeat" -> decode_heartbeat(items)
      [] type = "Mutation"  -> decode_mutation(items)
      [] type = "Lifecycle" -> decode_lifecycle(items)
      [] type = "Get"       -> decode_get(items)
      [] type = "Response"  -> decode_response(items)

Damaged(items, q) ==
    IF q.extra THEN Append(items, [width |-> 8, value |-> 1])
    ELSE SubSeq(items, 1, Max({0, Len(items) - q.cut}))

Transmit ==
    /\ Asked("message")
    /\ LET items == encode(question.message)
       IN  answer' = IF items = None THEN [why |-> "NotEncoded"]
                     ELSE decode(question.message.type, Damaged(items, question))
    /\ UNCHANGED <<vars, question>>

MessageNext == OracleNext \/ Transmit

MessageSpec == ExplainInit /\ [][MessageNext]_explainVars
--------------------------------------------------------------------------------
(* Properties. *)

(* What the two ends agree to refuse. *)
Refusable(m) ==
    \/ /\ m.type = "Mutation"
       /\ \/ Len(m.segments) > MaxSegments
          \/ \E s \in ToSet(m.segments) : s.kind = "Invalid" \/ Len(s.payload) > MaxPayload
    \/ m.type = "Response" /\ (Len(m.reasons) > MaxReasons \/ Len(m.summaries) > MaxSummaries)

(* A message arrives as it was sent or is refused: every field that was    *)
(* encoded is decoded into the field it came from, nothing that is cut or  *)
(* too long is accepted, and what is refused is what validation refuses    *)
(* too, or a response that outgrew the limits.                             *)
MessagesSurvive ==
    Answered("message") =>
        LET m     == question.message
            whole == question.cut = 0 /\ ~ question.extra
        IN  /\ answer.why = "Ok" =>
                  whole /\ \A f \in DOMAIN m \ {"type"} : answer.read[f] = m[f]
            /\ whole /\ ~ Refusable(m) => answer.why = "Ok"
================================================================================
