--------------------------------- MODULE Oracle --------------------------------
(***************************************************************************)
(* The sequence oracle (oracle/oracle_main.cpp): a second implementation   *)
(* of the checks that need no evidence, which shares nothing with the      *)
(* library and is compared with validate_segment_sequence by a randomized  *)
(* test.  Here the two are compared on every scenario of a bounded set,    *)
(* also outside the corpus the test draws from.                            *)
(*                                                                         *)
(* Abstraction.  A scenario is a profile, the number of capabilities it    *)
(* requires and the segments; its limits are MaxSegments and MaxPayload.   *)
(* Segments, profiles and reasons are those of Validation.  Reading a      *)
(* scenario and printing the answer are left out; what is digested is      *)
(* modelled by the fields that are written.                                *)
(***************************************************************************)
EXTENDS Explanation

(* A scenario describes a profile, which can lack a generation. *)
Scenario(q) ==
    /\ q.profile # None /\ q.profile.gen \in Nat /\ [q.profile EXCEPT !.gen = 1] \in ProfileType
    /\ q.reqcaps \in Nat /\ q.segments \in Seq(SegmentType)

ASSUME OracleAssumption == \A q \in Questions : q.topic = "sequence" => Scenario(q)

(* The library: validate_segment_sequence without evidence. *)

capability_without_evidence(q) == If(q.reqcaps > 0, "CapabilityEvidenceUnavailable", 0, 0)

topology_without_evidence(q) ==
    If(\E s \in ToSet(q.segments) : s.kind = "Adjacency", "TopologyEvidenceUnavailable", 0, 0)

SequenceRequest(q) ==
    [profile |-> q.profile.id, profile_generation |-> 0, strictness |-> "Strict",
     segments |-> q.segments]

validate_segment_sequence(q) ==
    LET d == SequenceRequest(q)
    IN  AddAll(Success,
               check_list_content_lifecycle(d, q.profile) \o check_profile(d, q.profile)
               \o structural(d, q.profile, structural_shape)
               \o capability_without_evidence(q) \o topology_without_evidence(q)
               \o check_resource_limits(d))

(* canonicalize_segments and canonical_sequence_bytes *)
canonical_sequence(q) ==
    [i \in DOMAIN q.segments |-> Canonical(q.segments[i], q.profile.payload_width)]
--------------------------------------------------------------------------------
(* The oracle. *)

(* kRequiredEncoding; the encoding of a kind is named after it. *)
kRequiredEncoding(kind) == kind

(* kUsesNode ... kUsesPolgen *)
kUses ==
    [Invalid |-> {}, Node |-> {"node"}, Adjacency |-> {"adjacency", "topology"},
     Endpoint |-> {"endpoint"}, Binding |-> {"binding"}, Policy |-> {"policy", "policy_generation"}]

(* The payload is cut to the width and loses its trailing zeros. *)
Stripped(payload, width) ==
    LET kept == SubSeq(payload, 1, Min({Len(payload), width}))
    IN  SubSeq(kept, 1, Max({0} \cup {i \in DOMAIN kept : kept[i] # 0}))

canonicalize(q) ==
    [i \in DOMAIN q.segments |->
        LET s == q.segments[i]
        IN  [s EXCEPT !.encoding = IF @ = "Invalid" THEN kRequiredEncoding(s.kind) ELSE @,
                      !.payload = Stripped(@, q.profile.payload_width)]]

scannedCount(q) == Min({Len(q.segments), MaxSegments + 1})

(* The earlier segments equal to the one at i. *)
Prior(canon, i) == {j \in 1 .. i - 1 : canon[j] = canon[i]}

(* Mutant: one equal segment right before hides those further back. *)
duplicateFacts_First(prior, i) ==
    [consecutive |-> prior # {} /\ Max(prior) = i - 1,
     nonConsecutive |-> prior # {} /\ Max(prior) # i - 1]

duplicateFacts(prior, i) ==
    [consecutive |-> prior # {} /\ Max(prior) = i - 1,
     nonConsecutive |-> prior # {} /\ (Cardinality(prior) >= 2 \/ Min(prior) # i - 1)]

Facts(q) ==
    [i \in 1 .. scannedCount(q) |-> duplicateFacts(Prior(canonicalize(q), i), i)]

(* The cases of check, each the set of the reasons it emits. *)
Emit(condition, name, index, detail) == ToSet(If(condition, name, index, detail))

profilePhase(q) ==
    LET p == q.profile
        facts == Facts(q)
        one(i) ==
            LET s == q.segments[i]
            IN  Emit(\/ facts[i].consecutive /\ ~ p.consecutive
                     \/ facts[i].nonConsecutive /\ ~ p.nonconsecutive,
                     "ProfileRepeatNotPermitted", i - 1, 0)
                \cup Emit(s.kind \notin p.kinds, "ProfileKindNotAllowed", i - 1, KindCode[s.kind])
                \cup Emit(Len(s.payload) > p.payload_width,
                          "ProfilePayloadWidthExceeded", i - 1, p.payload_width)
                \cup Emit(kRequiredEncoding(s.kind) = "Invalid", "ProfileKindMismatch", i - 1, 0)
    IN  IF p.payload_width = 0
        THEN {Reason("ProfileIdInvalid", 0, 0)}
        ELSE Emit(Len(q.segments) > p.max_depth, "ProfileMaxDepthExceeded", 0, p.max_depth)
             \cup Emit(q.segments = <<>> /\ ~ p.empty, "ProfileEmptyNotPermitted", 0, 0)
             \cup UNION {one(i) : i \in DOMAIN facts}

segmentPhase(s, can, index) ==
    IF s.kind = "Invalid"
    THEN {Reason("SegmentKindInvalid", index, 0)}
    ELSE Emit(s.id = 0, "SegmentIdInvalid", index, 0)
         \cup Emit(s.gen = 0, "SegmentGenerationInvalid", index, 0)
         \cup Emit(can.encoding # kRequiredEncoding(s.kind),
                   "SegmentEncodingMismatch", index, KindCode[can.encoding])
         \cup Emit(s.fields = {}, "SegmentMissingBinding", index, 0)
         \cup Emit(s.fields # {} /\ kUses[s.kind] \ s.fields # {},
                   "SegmentBindingIncomplete", index, 0)
         \cup Emit(s.fields \ kUses[s.kind] # {}, "SegmentReservedFieldSet", index, 0)

structuralPhase(q) ==
    LET facts == Facts(q)
        canon == canonicalize(q)
    IN  UNION {segmentPhase(q.segments[i], canon[i], i - 1)
               \cup Emit(facts[i].consecutive, "SegmentDuplicateConsecutive", i - 1, q.segments[i].id)
               \cup Emit(facts[i].nonConsecutive,
                         "SegmentDuplicateNonConsecutive", i - 1, q.segments[i].id) :
                  i \in DOMAIN facts}

evidencePhases(q) ==
    Emit(q.reqcaps > 0, "CapabilityEvidenceUnavailable", 0, 0)
    \cup Emit(\E i \in 1 .. scannedCount(q) : q.segments[i].kind = "Adjacency",
              "TopologyEvidenceUnavailable", 0, 0)

limitsPhase(q) ==
    Emit(Len(q.segments) > MaxSegments, "LimitMaxSegmentsPerList", 0, MaxSegments)
    \cup UNION {Emit(Len(q.segments[i].payload) > MaxPayload,
                     "LimitMaxSegmentPayloadBytes", i - 1, MaxPayload) : i \in DOMAIN q.segments}

check(q) == profilePhase(q) \cup structuralPhase(q) \cup evidencePhases(q) \cup limitsPhase(q)

encodeSequence(q) ==
    LET canon == canonicalize(q)
    IN  [i \in DOMAIN canon |-> [canon[i] EXCEPT !.payload = Padded(@, q.profile.payload_width)]]
--------------------------------------------------------------------------------
(* The comparison the test makes of one scenario. *)
CrossCheck ==
    /\ Asked("sequence")
    /\ answer' = [library |-> validate_segment_sequence(question),
                  librarySequence |-> canonical_sequence(question),
                  oracle |-> check(question),
                  oracleSequence |-> encodeSequence(question)]
    /\ UNCHANGED <<vars, question>>

OracleNext == ExplainNext \/ CrossCheck

OracleSpec == ExplainInit /\ [][OracleNext]_explainVars
--------------------------------------------------------------------------------
(* Properties. *)

(* Pairs of scanned segments that are the same when they are digested. *)
Repeats(q) ==
    LET c == canonical_sequence(q)
    IN  {r \in (1 .. Min({Len(c), MaxSegments + 1})) \X (1 .. Min({Len(c), MaxSegments + 1})) :
            r[1] < r[2] /\ c[r[1]] = c[r[2]]}

Permitted(q, r) == IF r[2] = r[1] + 1 THEN q.profile.consecutive ELSE q.profile.nonconsecutive

(* What the two implementations are known to judge differently. *)
JointScope(q) ==
    /\ q.profile.payload_width # 0 /\ q.profile.gen # 0
    /\ \A r \in Repeats(q) : ~ Permitted(q, r)

(* What they are known to explain differently, although both refuse it: an *)
(* empty sequence, a segment without an entity reference, repeats of a     *)
(* payload that is too wide, and adjacencies after the scanned segments.   *)
JointReasons(q) ==
    /\ q.segments = <<>> => q.profile.empty
    /\ \A s \in ToSet(q.segments) : s.kind # "Invalid" => s.fields \cap EntityFields # {}
    /\ \A r \in Repeats(q) : \A i \in {r[1], r[2]} :
          Len(q.segments[i].payload) <= q.profile.payload_width
    /\ \A i \in MaxSegments + 2 .. Len(q.segments) :
          q.segments[i].kind = "Adjacency" =>
              \E j \in 1 .. MaxSegments + 1 : q.segments[j].kind = "Adjacency"

(* The two implementations digest the same of every scenario, accept the   *)
(* same ones in their joint scope, and there give the same reasons at the  *)
(* same places, up to the number the library has place for.  At that       *)
(* number a reason the library has given already counts as one too many.   *)
OracleAgrees ==
    Answered("sequence") =>
        LET places(reasons) == {<<r.code, r.index>> : r \in reasons}
            told == places(answer.library.reasons \ {LimitMaxReasons})
        IN  /\ answer.librarySequence = answer.oracleSequence
            /\ JointScope(question) =>
                  /\ answer.library.reasons = {} <=> answer.oracle = {}
                  /\ JointReasons(question) =>
                        /\ told \subseteq places(answer.oracle)
                        /\ Cardinality(answer.oracle) > MaxReasons => answer.library.truncated
                        /\ answer.library.truncated => Cardinality(answer.oracle) >= MaxReasons
                        /\ ~ answer.library.truncated => told = places(answer.oracle)
================================================================================
