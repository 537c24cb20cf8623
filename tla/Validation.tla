------------------------------ MODULE Validation -------------------------------
(***************************************************************************)
(* Phase C of a mutation: the content checks of src/validation.cpp, the    *)
(* result they report into (src/reason.cpp), and the loop of run_batch in  *)
(* src/store.cpp that validates the drafts of a batch and combines what is *)
(* found.  SegmentStore takes the drafts that pass for granted; this       *)
(* module is about which ones do, and about what is said of the others.    *)
(*                                                                         *)
(* Abstraction.  An identifier or generation is a number, 0 if it is not   *)
(* given.  The references of a segment are the set of the fields that are  *)
(* given and one value for them.  A list of reasons is the set of them:    *)
(* the code sorts it and removes duplicates after every change.  A draft   *)
(* is a record of what run_batch resolved for it: what the checks on       *)
(* caller and epoch find (before) and those on capability, topology, path, *)
(* route and constraint (between), which depend on shared state and are in *)
(* SegmentStore; the call it came with; the generation of the existing     *)
(* list (0: there is none) with its state, and the expected generation;    *)
(* the state the list it supersedes was found in, with the expected and    *)
(* the actual generation of that; and the profile, policy and segments it  *)
(* asks for.                                                               *)
(***************************************************************************)
EXTENDS Naturals, Sequences, SequencesExt, FiniteSets, Lifecycle

CONSTANTS
    Batches,        \* the batches that are submitted: sequences of drafts
    Profiles,       \* the registered profiles
    Policies,       \* the registered policies
    Recorded,       \* the segments in the evidence: records of id, kind, gen
    Entities,       \* the nodes, endpoints and bindings in the evidence
    MaxReasons,     \* max_reasons
    MaxSegments,    \* max_segments_per_list
    MaxPayload,     \* max_segment_payload_bytes
    MaxGeneration,  \* the last generation a list can have
    None            \* no such profile or policy

VARIABLES
    batch,      \* the drafts
    next,       \* the draft to validate next
    result,     \* what validate_request returned last
    combined,   \* what was found so far
    status      \* "validating", then the status of the outcome, Ok if none failed

vars == <<batch, next, result, combined, status>>
--------------------------------------------------------------------------------
(* Segments and profiles. *)

SegmentKind == {"Node", "Adjacency", "Endpoint", "Binding", "Policy"}

(* The values of the enumeration, which are reported. *)
KindCode ==
    [Invalid |-> 0, Node |-> 1, Adjacency |-> 2, Endpoint |-> 3, Binding |-> 4, Policy |-> 5]

(* The references a kind requires; all others are reserved. *)
Required ==
    [Node |-> {"node"}, Adjacency |-> {"adjacency", "topology"},
     Endpoint |-> {"endpoint"}, Binding |-> {"binding"},
     Policy |-> {"policy", "policy_generation"}, Invalid |-> {}]

EntityFields == {"node", "adjacency", "endpoint", "binding", "policy"}

(* expected_encoding_for: the encoding of a kind is named after it. *)
EffectiveEncoding(s) == IF s.encoding = "Invalid" THEN s.kind ELSE s.encoding

(* The built-in profiles, with depths and widths scaled down. *)
abstract_governance_profile ==
    [id |-> 1, gen |-> 1, kinds |-> SegmentKind, max_depth |-> 3, payload_width |-> 2,
     empty |-> FALSE, consecutive |-> FALSE, nonconsecutive |-> FALSE, loose |-> FALSE,
     capabilities |-> <<1, 2>>]

abstract_ordered_profile ==
    [id |-> 2, gen |-> 1, kinds |-> {"Node", "Adjacency", "Endpoint"}, max_depth |-> 4,
     payload_width |-> 3, empty |-> FALSE, consecutive |-> FALSE,
     nonconsecutive |-> TRUE, loose |-> TRUE, capabilities |-> <<1>>]

abstract_nullable_profile ==
    [id |-> 3, gen |-> 1, kinds |-> {"Node", "Policy"}, max_depth |-> 2, payload_width |-> 1,
     empty |-> TRUE, consecutive |-> TRUE, nonconsecutive |-> TRUE, loose |-> FALSE,
     capabilities |-> <<>>]

BuiltinProfiles ==
    {abstract_governance_profile, abstract_ordered_profile, abstract_nullable_profile}

(* Registry::find_profile and find_policy *)
Find(table, id) ==
    IF \E x \in table : x.id = id THEN CHOOSE x \in table : x.id = id ELSE None

(* canonicalize_segments and write_segment: what is digested of a segment, *)
(* its payload cut or padded with zeros to the width.                      *)
Padded(payload, width) ==
    [i \in 1 .. width |-> IF i <= Len(payload) THEN payload[i] ELSE 0]

Canonical(s, width) ==
    [s EXCEPT !.encoding = EffectiveEncoding(s), !.payload = Padded(s.payload, width)]

(* Mutant: the encoding is compared as it was given. *)
SameScalarContent_RawEncoding(s, t) ==
    [s EXCEPT !.payload = <<>>] = [t EXCEPT !.payload = <<>>]

(* same_scalar_content: everything but the payload. *)
SameScalarContent(s, t) ==
    [s EXCEPT !.payload = <<>>, !.encoding = EffectiveEncoding(s)]
        = [t EXCEPT !.payload = <<>>, !.encoding = EffectiveEncoding(t)]

(* segment_semantic_equal; a payload that is too wide equals none. *)
SegmentSemanticEqual(s, t, width) ==
    /\ SameScalarContent(s, t)
    /\ Len(s.payload) <= width /\ Len(t.payload) <= width
    /\ Padded(s.payload, width) = Padded(t.payload, width)
--------------------------------------------------------------------------------
(* Reasons and results. *)

(* The codes that are used here with their phases, in the order of the enum. *)
kCodes == <<
    <<"EpochStale", 3>>,
    <<"ListIdInvalid", 4>>, <<"ListNotFound", 4>>, <<"ListAlreadyExists", 4>>,
    <<"ListGenerationInvalid", 4>>, <<"ListGenerationConflict", 4>>,
    <<"ListGenerationExhausted", 4>>, <<"LifecycleTransitionDenied", 4>>,
    <<"ListRetired", 4>>, <<"ListRevoked", 4>>, <<"ListWithdrawn", 4>>, <<"ListSuperseded", 4>>,
    <<"ListEmptyNotPermitted", 4>>, <<"ListSupersedesUnknown", 4>>,
    <<"ProfileUnknown", 5>>, <<"ProfileIdInvalid", 5>>,
    <<"ProfileGenerationInvalid", 5>>, <<"ProfileGenerationMismatch", 5>>,
    <<"ProfileKindNotAllowed", 5>>, <<"ProfilePayloadWidthExceeded", 5>>,
    <<"ProfileMaxDepthExceeded", 5>>, <<"ProfileRepeatNotPermitted", 5>>,
    <<"ProfileEmptyNotPermitted", 5>>, <<"ProfileKindMismatch", 5>>,
    <<"ProfileStrictnessUnsupported", 5>>,
    <<"PolicyUnknown", 6>>, <<"PolicyGenerationMismatch", 6>>, <<"PolicyDeniedProfile", 6>>,
    <<"PolicyDeniedSegmentKind", 6>>, <<"PolicyMaxDepthExceeded", 6>>,
    <<"PolicyRequiredEntityMissing", 6>>, <<"PolicyForbiddenEntityPresent", 6>>,
    <<"PolicyOwnershipMismatch", 6>>, <<"PolicyReplacementDenied", 6>>,
    <<"PolicyDerivationDenied", 6>>, <<"PolicyStrictnessRequired", 6>>,
    <<"SegmentKindInvalid", 7>>, <<"SegmentIdInvalid", 7>>,
    <<"SegmentGenerationInvalid", 7>>, <<"SegmentReservedFieldSet", 7>>,
    <<"SegmentMissingBinding", 7>>, <<"SegmentBindingIncomplete", 7>>,
    <<"SegmentEncodingMismatch", 7>>, <<"SegmentEntityUnknown", 7>>,
    <<"SegmentEntityGenerationMismatch", 7>>, <<"SegmentEntityKindMismatch", 7>>,
    <<"SegmentDuplicateConsecutive", 7>>, <<"SegmentDuplicateNonConsecutive", 7>>,
    <<"CapabilityMissing", 8>>, <<"CapabilityUnsupported", 8>>,
    <<"CapabilityGenerationMismatch", 8>>, <<"CapabilityEvidenceUnavailable", 8>>,
    <<"TopologyGenerationMismatch", 9>>, <<"TopologyAdjacencyUnknown", 9>>,
    <<"TopologyAdjacencyStale", 9>>, <<"TopologyEvidenceUnavailable", 9>>,
    <<"LimitMaxSegmentsPerList", 13>>, <<"LimitMaxSegmentPayloadBytes", 13>>,
    <<"LimitMaxReasons", 13>> >>

Code(name) == CHOOSE c \in 1 .. Len(kCodes) : kCodes[c][1] = name
phase_of(r) == kCodes[r.code][2]

Reason(name, index, detail) == [code |-> Code(name), index |-> index, detail |-> detail]

(* The order of sort_and_dedup; the codes are in the order of the phases.  *)
Before(r, s) ==
    \/ r.code < s.code
    \/ r.code = s.code /\ r.index < s.index
    \/ r.code = s.code /\ r.index = s.index /\ r.detail < s.detail

(* The reasons, each at the place the number of those before it says. *)
InOrder(reasons) ==
    [i \in 1 .. Cardinality(reasons) |->
        CHOOSE r \in reasons : Cardinality({q \in reasons : Before(q, r)}) = i - 1]

Primary(res) == CHOOSE r \in res.reasons : \A q \in res.reasons \ {r} : Before(r, q)
Latest(res) == CHOOSE r \in res.reasons : \A q \in res.reasons \ {r} : Before(q, r)

Success == [reasons |-> {}, truncated |-> FALSE]
LimitMaxReasons == Reason("LimitMaxReasons", 0, 0)

(* Mutant: a reason for which there is no place is dropped without a note. *)
Add_Silent(res, r) ==
    IF Cardinality(res.reasons) < MaxReasons
    THEN [res EXCEPT !.reasons = @ \cup {r}]
    ELSE res

(* ValidationResult::add: when there is no place left, a note that there   *)
(* were more takes the place of the last reason, once.                     *)
Add(res, r) ==
    IF Cardinality(res.reasons) < MaxReasons
    THEN [res EXCEPT !.reasons = @ \cup {r}]
    ELSE IF LimitMaxReasons \in res.reasons
    THEN res
    ELSE [reasons |-> (res.reasons \ {Latest(res)}) \cup {LimitMaxReasons},
          truncated |-> TRUE]

AddAll(res, reasons) == FoldLeft(Add, res, reasons)

(* ValidationResult::absorb *)
Absorb(res, other) ==
    AddAll([res EXCEPT !.truncated = @ \/ other.truncated], InOrder(other.reasons))
--------------------------------------------------------------------------------
(* What the checks are given. *)

KindType == SegmentKind \cup {"Invalid"}

SegmentType ==
    [kind : KindType, encoding : KindType, id : Nat, gen : Nat,
     fields : SUBSET UNION {Required[k] : k \in SegmentKind}, ref : Nat, payload : Seq(Nat)]

ProfileType ==
    [id : Nat \ {0}, gen : Nat \ {0}, kinds : SUBSET SegmentKind, max_depth : Nat,
     payload_width : Nat, empty : BOOLEAN, consecutive : BOOLEAN, nonconsecutive : BOOLEAN,
     loose : BOOLEAN, capabilities : Seq(Nat)]

PolicyType ==
    [id : Nat \ {0}, gen : Nat \ {0}, owner_scope : Nat, profiles : SUBSET Nat,
     kinds : SUBSET SegmentKind, max_depth : Nat, required : SUBSET Nat, forbidden : SUBSET Nat,
     replacement : BOOLEAN, derivation : BOOLEAN, strict : BOOLEAN]

ReasonType == [code : 1 .. Len(kCodes), index : Nat, detail : Nat]

InPhaseOrder(reasons) ==
    \A i, j \in DOMAIN reasons : i < j => phase_of(reasons[i]) <= phase_of(reasons[j])

(* The checks on shared state find reasons of the phases before the        *)
(* lifecycle and of those between structure and limits, phase by phase.    *)
DraftType ==
    [before : Seq({r \in ReasonType : phase_of(r) < 4}),
     between : Seq({r \in ReasonType : phase_of(r) \in 8 .. 12}),
     id : Nat, call : {"create", "replace", "revalidate", "batch"},
     existing : 0 .. MaxGeneration, state : LifecycleState, expected : Nat,
     superseded : {"none", "unknown"} \cup LifecycleState,
     supersedes_generation : Nat, superseded_generation : Nat,
     profile : Nat, profile_generation : Nat, policy : Nat, policy_generation : Nat,
     scope : Nat, strictness : {"Strict", "Loose"}, derived : BOOLEAN,
     segments : Seq(SegmentType)]

(* With one place for reasons the first would be overwritten by the note   *)
(* that there were more, and with none nothing would be refused.           *)
ASSUME ValidationAssumption ==
    /\ {MaxReasons, MaxSegments, MaxPayload, MaxGeneration} \subseteq Nat
    /\ MaxReasons >= 2
    /\ Profiles \subseteq ProfileType
    /\ Policies \subseteq PolicyType
    /\ \A p \in Policies : IsFiniteSet(p.required) /\ IsFiniteSet(p.forbidden)
    /\ Recorded \subseteq [id : Nat \ {0}, kind : SegmentKind, gen : Nat \ {0}]
    /\ \A table \in {Profiles, Policies, Recorded} :
           /\ None \notin table
           /\ \A x, y \in table : x.id = y.id => x = y
    /\ \A b \in Batches :
           /\ b \in Seq(DraftType)
           /\ \A i \in DOMAIN b : InPhaseOrder(b[i].before) /\ InPhaseOrder(b[i].between)
--------------------------------------------------------------------------------
(* The checks: what each reports, in the order in which it does.  p is the *)
(* profile of the request, or None.                                        *)

If(condition, name, index, detail) ==
    IF condition THEN <<Reason(name, index, detail)>> ELSE <<>>

(* The scan of the segments is bounded, so that its work is. *)
Scan(d) ==
    SubSeq(d.segments, 1, IF Len(d.segments) <= MaxSegments THEN Len(d.segments) ELSE MaxSegments + 1)

(* The event a call announces to a list that exists, and the values of the *)
(* enumerations, which are reported.                                       *)
Intent ==
    [create |-> "ValidateBegin", replace |-> "ReplaceBegin",
     revalidate |-> "RevalidateBegin", batch |-> "ReplaceBegin"]

EventCode == [ValidateBegin |-> 1, RevalidateBegin |-> 4, ReplaceBegin |-> 16]

StateCode ==
    [Declared |-> 1, Validating |-> 2, Active |-> 3, RevalidationRequired |-> 4,
     Withdrawing |-> 5, Withdrawn |-> 6, Superseded |-> 7, Revoked |-> 8, Retired |-> 9]

(* Of a transition that is denied: the terminal state that blocks it, if   *)
(* one does, and the pair.                                                 *)
transition_denied(d) ==
    LET blocked(state, name) == If(d.state = state, name, 0, d.existing)
    IN  IF Permits(d.state, Intent[d.call]) THEN <<>>
        ELSE blocked("Retired", "ListRetired") \o blocked("Revoked", "ListRevoked")
             \o blocked("Superseded", "ListSuperseded") \o blocked("Withdrawn", "ListWithdrawn")
             \o <<Reason("LifecycleTransitionDenied", 0,
                         256 * StateCode[d.state] + EventCode[Intent[d.call]])>>

generation_conflict(d) ==
    If(d.existing # 0 /\ d.expected # d.existing, "ListGenerationConflict", 0, d.existing)

existing_list(d) ==
    generation_conflict(d)
    \o If(d.expected = 0, "ListGenerationInvalid", 0, 0)
    \o If(d.existing = MaxGeneration, "ListGenerationExhausted", 0, d.existing)
    \o transition_denied(d)

check_list_lifecycle(d) ==
    If(d.id = 0, "ListIdInvalid", 0, 0)
    \o If(d.call \in {"replace", "revalidate"} /\ d.existing = 0, "ListNotFound", 0, d.id)
    \o If(d.call = "create" /\ d.existing # 0, "ListAlreadyExists", 0, d.id)
    \o (IF d.existing = 0
        THEN If(d.expected # 0, "ListNotFound", 0, d.id)
        ELSE existing_list(d))

check_list_content_lifecycle(d, p) ==
    If(/\ d.segments = <<>>
       /\ p # None => ~ p.empty, "ListEmptyNotPermitted", 0, 0)

(* The pairs of equal segments the profile forbids, as the index of the    *)
(* second and whether the first is right before it.                        *)
ForbiddenRepeats(d, p) ==
    LET s == Scan(d)
        forbidden(j, i) ==
            /\ SegmentSemanticEqual(s[j], s[i], IF p = None THEN 0 ELSE p.payload_width)
            /\ p # None => ~ IF j + 1 = i THEN p.consecutive ELSE p.nonconsecutive
        pair(j, i) == IF forbidden(j, i) THEN <<[at |-> i, consecutive |-> j + 1 = i]>> ELSE <<>>
    IN  FlattenSeq([i \in DOMAIN s |-> FlattenSeq([j \in 1 .. i - 1 |-> pair(j, i)])])

profile_segment(p, s, index) ==
    If(s.kind \notin p.kinds, "ProfileKindNotAllowed", index, KindCode[s.kind])
    \o If(s.kind = "Invalid", "ProfileKindMismatch", index, KindCode[s.kind])
    \o If(Len(s.payload) > p.payload_width, "ProfilePayloadWidthExceeded", index, p.payload_width)

check_profile(d, p) ==
    LET s == Scan(d)
        repeats == ForbiddenRepeats(d, p)
    IN  IF p = None
        THEN <<Reason(IF d.profile = 0 THEN "ProfileIdInvalid" ELSE "ProfileUnknown", 0, d.profile)>>
        ELSE If(p.gen = 0, "ProfileGenerationInvalid", 0, 0)
             \o If(d.profile_generation \notin {0, p.gen}, "ProfileGenerationMismatch", 0, p.gen)
             \o If(~ p.empty /\ d.segments = <<>>, "ProfileEmptyNotPermitted", 0, 0)
             \o If(d.strictness = "Loose" /\ ~ p.loose, "ProfileStrictnessUnsupported", 0, 0)
             \o If(Len(d.segments) > p.max_depth, "ProfileMaxDepthExceeded", 0, p.max_depth)
             \o FlattenSeq([i \in DOMAIN s |-> profile_segment(p, s[i], i - 1)])
             \o [k \in DOMAIN repeats |->
                    Reason("ProfileRepeatNotPermitted", repeats[k].at - 1, s[repeats[k].at].id)]

(* Required and forbidden segments are sets here; a forbidden one is       *)
(* reported where it first occurs.                                         *)
policy_segments(p, s) ==
    LET at(x) == {i \in DOMAIN s : s[i].id = x}
        missing == SetToSeq({x \in p.required : at(x) = {}})
        present == SetToSeq({x \in p.forbidden : at(x) # {}})
    IN  [k \in DOMAIN missing |-> Reason("PolicyRequiredEntityMissing", 0, missing[k])]
        \o [k \in DOMAIN present |->
               Reason("PolicyForbiddenEntityPresent", Min(at(present[k])) - 1, present[k])]
        \o FlattenSeq([i \in DOMAIN s |->
               If(p.kinds # {} /\ s[i].kind \notin p.kinds \cup {"Invalid"},
                  "PolicyDeniedSegmentKind", i - 1, KindCode[s[i].kind])])

check_policy(d) ==
    LET p == Find(Policies, d.policy)
    IN  IF p = None
        THEN If(d.policy # 0, "PolicyUnknown", 0, d.policy)
        ELSE If(d.policy_generation \notin {0, p.gen}, "PolicyGenerationMismatch", 0, p.gen)
             \o If(p.owner_scope \notin {0, d.scope}, "PolicyOwnershipMismatch", 0, p.owner_scope)
             \o If(p.profiles # {} /\ d.profile \notin p.profiles, "PolicyDeniedProfile", 0, d.profile)
             \o If(p.max_depth # 0 /\ Len(d.segments) > p.max_depth,
                   "PolicyMaxDepthExceeded", 0, p.max_depth)
             \o If(d.existing # 0 /\ ~ p.replacement, "PolicyReplacementDenied", 0, 0)
             \o If(d.derived /\ ~ p.derivation, "PolicyDerivationDenied", 0, 0)
             \o If(p.strict /\ d.strictness # "Strict", "PolicyStrictnessRequired", 0, 0)
             \o policy_segments(p, d.segments)

(* What the evidence says of a segment and of the entity it refers to.     *)
structural_evidence(s, index) ==
    LET r == Find(Recorded, s.id)
    IN  (IF r = None
         THEN <<Reason("SegmentEntityUnknown", index, s.id)>>
         ELSE If(r.kind # s.kind, "SegmentEntityKindMismatch", index, KindCode[r.kind])
              \o If(r.gen # s.gen, "SegmentEntityGenerationMismatch", index, r.gen))
        \o If(/\ s.kind \in {"Node", "Endpoint", "Binding"}
              /\ Required[s.kind] \subseteq s.fields
              /\ s.ref \notin Entities, "SegmentEntityUnknown", index, s.ref)

structural_shape(s, index) ==
    IF s.kind = "Invalid"
    THEN <<Reason("SegmentKindInvalid", index, 0)>>
    ELSE If(s.id = 0, "SegmentIdInvalid", index, 0)
         \o If(s.gen = 0, "SegmentGenerationInvalid", index, 0)
         \o If(s.encoding \notin {"Invalid", s.kind},
               "SegmentEncodingMismatch", index, KindCode[s.encoding])
         \o If(~ Required[s.kind] \subseteq s.fields, "SegmentBindingIncomplete", index, 0)
         \o If(~ s.fields \subseteq Required[s.kind], "SegmentReservedFieldSet", index, 0)
         \o If(s.fields \cap EntityFields = {}, "SegmentMissingBinding", index, 0)

structural_segment(s, index) ==
    structural_shape(s, index)
    \o (IF s.kind = "Invalid" THEN <<>> ELSE structural_evidence(s, index))

(* With evidence Check is structural_segment, without it structural_shape. *)
structural(d, p, Check(_, _)) ==
    LET s == Scan(d)
        repeats == ForbiddenRepeats(d, p)
        name(r) == IF r.consecutive THEN "SegmentDuplicateConsecutive"
                                    ELSE "SegmentDuplicateNonConsecutive"
    IN  FlattenSeq([i \in DOMAIN s |-> Check(s[i], i - 1)])
        \o [k \in DOMAIN repeats |->
               Reason(name(repeats[k]), repeats[k].at - 1, s[repeats[k].at].id)]

check_structural(d, p) == structural(d, p, structural_segment)

check_resource_limits(d) ==
    If(Len(d.segments) > MaxSegments, "LimitMaxSegmentsPerList", 0, MaxSegments)
    \o FlattenSeq([i \in DOMAIN d.segments |->
           If(Len(d.segments[i].payload) > MaxPayload,
              "LimitMaxSegmentPayloadBytes", i - 1, MaxPayload)])

(* Mutant: the structure is looked at before profile and policy. *)
validate_request_StructuralFirst(d) ==
    LET p == Find(Profiles, d.profile)
    IN  AddAll(Success,
               d.before \o check_list_lifecycle(d) \o check_list_content_lifecycle(d, p)
               \o check_structural(d, p) \o check_profile(d, p) \o check_policy(d)
               \o d.between \o check_resource_limits(d))

validate_request(d) ==
    LET p == Find(Profiles, d.profile)
    IN  AddAll(Success,
               d.before \o check_list_lifecycle(d) \o check_list_content_lifecycle(d, p)
               \o check_profile(d, p) \o check_policy(d) \o check_structural(d, p)
               \o d.between \o check_resource_limits(d))

(* What run_batch adds to the result of validate_request, the list that is *)
(* superseded among it.                                                    *)
supersedes_known(d) ==
    If(d.supersedes_generation # d.superseded_generation,
       "ListGenerationConflict", 0, d.superseded_generation)
    \o If(d.superseded = "Retired", "ListRetired", 0, d.superseded_generation)
    \o If(d.superseded = "Revoked", "ListRevoked", 0, d.superseded_generation)
    \o If(~ Permits(d.superseded, "SupersedeBegin"),
          "LifecycleTransitionDenied", 0, d.superseded_generation)

LateChecks(d) ==
    generation_conflict(d)
    \o (IF d.superseded = "none" THEN <<>>
        ELSE IF d.superseded = "unknown" THEN <<Reason("ListSupersedesUnknown", 0, 1)>>
        ELSE supersedes_known(d))
--------------------------------------------------------------------------------
(* Phase C. *)

(* status_for: a status for some primary reasons, then one for its phase. *)
status_for(res) ==
    IF res.reasons = {} THEN "Ok"
    ELSE LET r == Primary(res)
             name == kCodes[r.code][1]
         IN  CASE name = "ListGenerationExhausted" -> "Exhausted"
               [] name = "ListGenerationConflict" -> "Conflict"
               [] name \in {"ListNotFound", "ListSupersedesUnknown", "ProfileUnknown",
                            "PolicyUnknown", "TopologyAdjacencyUnknown",
                            "SegmentEntityUnknown"} -> "NotFound"
               [] phase_of(r) = 13 -> "LimitExceeded"
               [] OTHER -> "Rejected"

Init ==
    /\ batch \in Batches
    /\ next = 1
    /\ result = Success
    /\ combined = Success
    /\ status = "validating"

ValidateDraft ==
    /\ status = "validating"
    /\ next <= Len(batch)
    /\ result' = validate_request(batch[next])
    /\ combined' = Absorb(combined, AddAll(result', LateChecks(batch[next])))
    /\ next' = next + 1
    /\ UNCHANGED <<batch, status>>

(* With no failure the batch goes on to phase E. *)
Finish ==
    /\ status = "validating"
    /\ next > Len(batch)
    /\ status' = status_for(Absorb(Success, combined))
    /\ UNCHANGED <<batch, next, result, combined>>

Next == ValidateDraft \/ Finish

Spec == Init /\ [][Next]_vars
--------------------------------------------------------------------------------
(* Properties. *)

(* What the documentation of segments, profiles and policies asks of a     *)
(* draft, without reference to the checks.  Repetition is judged by what   *)
(* is digested: the canonical forms.                                       *)
WellFormed(s) ==
    /\ s.kind \in SegmentKind
    /\ s.encoding \in {"Invalid", s.kind}
    /\ s.fields = Required[s.kind]
    /\ [id |-> s.id, kind |-> s.kind, gen |-> s.gen] \in Recorded
    /\ s.kind \in {"Node", "Endpoint", "Binding"} => s.ref \in Entities
    /\ Len(s.payload) <= MaxPayload

FitsProfile(d, p) ==
    /\ d.profile_generation \in {0, p.gen}
    /\ Len(d.segments) \in (IF p.empty THEN 0 ELSE 1) .. Min({p.max_depth, MaxSegments})
    /\ d.strictness = "Strict" \/ p.loose
    /\ \A i \in DOMAIN d.segments :
          /\ d.segments[i].kind \in p.kinds
          /\ Len(d.segments[i].payload) <= p.payload_width
    /\ \A i, j \in DOMAIN d.segments :
          /\ i < j
          /\ Canonical(d.segments[i], p.payload_width) = Canonical(d.segments[j], p.payload_width)
          => IF j = i + 1 THEN p.consecutive ELSE p.nonconsecutive

FitsPolicy(d, p) ==
    LET ids == {s.id : s \in ToSet(d.segments)}
    IN  /\ d.policy_generation \in {0, p.gen}
        /\ p.owner_scope \in {0, d.scope}
        /\ p.profiles = {} \/ d.profile \in p.profiles
        /\ p.max_depth = 0 \/ Len(d.segments) <= p.max_depth
        /\ d.existing # 0 => p.replacement
        /\ d.derived => p.derivation
        /\ p.strict => d.strictness = "Strict"
        /\ p.required \subseteq ids /\ p.forbidden \cap ids = {}
        /\ p.kinds = {} \/ {s.kind : s \in ToSet(d.segments)} \subseteq p.kinds

(* A creation needs a list that is not there, a replacement one that is; a *)
(* batch takes both.  What is there must be what was expected, have a      *)
(* generation left, and be in a state a new revision can start from.       *)
MayFollow(d) ==
    /\ d.id # 0
    /\ d.call = "create" => d.existing = 0
    /\ d.call \in {"replace", "revalidate"} => d.existing # 0
    /\ d.expected = d.existing
    /\ d.existing # 0 =>
          /\ d.existing < MaxGeneration
          /\ d.state \in IF d.call = "revalidate" THEN {"Active", "RevalidationRequired"}
                         ELSE {"Declared", "Validating", "Active", "RevalidationRequired"}

MaySupersede(d) ==
    \/ d.superseded = "none"
    \/ /\ d.superseded \in LifecycleState \ {"Superseded", "Revoked", "Retired"}
       /\ d.supersedes_generation = d.superseded_generation

Governed(d) ==
    /\ d.before = <<>> /\ d.between = <<>>
    /\ MayFollow(d)
    /\ MaySupersede(d)
    /\ \E p \in Profiles : p.id = d.profile /\ FitsProfile(d, p)
    /\ d.policy # 0 => \E p \in Policies : p.id = d.policy /\ FitsPolicy(d, p)
    /\ \A s \in ToSet(d.segments) : WellFormed(s)

(* A batch goes on to be committed exactly if every draft of it is         *)
(* governed: the bounded scan, the kinds a check skips, the two ways to    *)
(* spell a segment and the limit on reasons let nothing through and refuse *)
(* nothing.                                                                *)
AcceptsExactlyTheGoverned ==
    status # "validating" => (status = "Ok" <=> \A i \in DOMAIN batch : Governed(batch[i]))

(* The defects of a draft that validate_request looks for. *)
Defects(d) ==
    LET p == Find(Profiles, d.profile)
    IN  ToSet(d.before \o check_list_lifecycle(d) \o check_list_content_lifecycle(d, p)
          \o check_profile(d, p) \o check_policy(d) \o check_structural(d, p)
          \o d.between \o check_resource_limits(d))

(* A batch reports everything that was found of its drafts, or says that   *)
(* there is more: a result that is not marked as truncated is complete,    *)
(* and one that is has the note, is full and holds nothing that was not    *)
(* found.                                                                  *)
ReasonsAreComplete ==
    LET found == UNION {Defects(batch[i]) \cup ToSet(LateChecks(batch[i])) : i \in 1 .. next - 1}
    IN  IF combined.truncated
        THEN /\ LimitMaxReasons \in combined.reasons
             /\ Cardinality(combined.reasons) = MaxReasons
             /\ combined.reasons \subseteq found \cup {LimitMaxReasons}
        ELSE combined.reasons = found

(* An earlier phase dominates: the primary reason of validate_request is a *)
(* defect of the draft and none of its defects has an earlier phase, also  *)
(* when there were more than could be reported.  (The status of the        *)
(* outcome follows the primary reason after the late checks of run_batch,  *)
(* which come after the phases and are not bound by their order.)          *)
RequestPrimaryDominates ==
    next > 1 /\ Defects(batch[next - 1]) # {} =>
        /\ Primary(result) \in Defects(batch[next - 1])
        /\ \A r \in Defects(batch[next - 1]) : phase_of(Primary(result)) <= phase_of(r)
================================================================================
