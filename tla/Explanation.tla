------------------------------ MODULE Explanation ------------------------------
(***************************************************************************)
(* The questions a caller can ask about a stored list (src/explain.cpp):   *)
(* what changed between two snapshots of it, what is wrong with one of its *)
(* segments, which capability it lacks and which topology it is behind.    *)
(* The answers are bounded presentations; this module is about whether     *)
(* they can be relied upon.                                                *)
(*                                                                         *)
(* Abstraction.  A stored list is the record of the fields diff compares.  *)
(* Its content was accepted once, under other evidence or another          *)
(* generation of its profile, so each question comes with the fabric as it *)
(* is now: the generation of each capability (0: absent) with the current  *)
(* one, the unsupported capabilities, and the topology generation of each  *)
(* adjacency (0: absent) with the current one.  The segments and entities  *)
(* in the evidence and the profiles are those of Validation.  An adjacency *)
(* segment has one number for its adjacency and its topology generation.   *)
(* A digest in an entry is modelled by the segment it digests.             *)
(***************************************************************************)
EXTENDS Validation

CONSTANT Questions

VARIABLES
    question,   \* what is asked, or None
    answer      \* what was answered, or None

explainVars == <<vars, question, answer>>

(* A list that is stored was once within the limits, and they are those of *)
(* the store.  A reference that is given is not 0.                         *)
StoredList(l) ==
    /\ l.id \in Nat \ {0} /\ l.gen \in Nat /\ l.profile \in Nat \X Nat /\ l.topology \in Nat
    /\ l.segments \in Seq(SegmentType) /\ Len(l.segments) <= MaxSegments
    /\ \A s \in ToSet(l.segments) : s.fields # {} => s.ref # 0

(* The generation of everything a list can refer to is known or 0.  The    *)
(* evidence has a topology generation and the keys of the profiles are     *)
(* valid: the reasons for an evidence without the one, or a key that is 0, *)
(* are not among those of this model.                                      *)
Describes(fabric, l) ==
    /\ fabric.capability \in Nat /\ fabric.topology \in Nat \ {0}
    /\ \A p \in Profiles : \A k \in ToSet(p.capabilities) :
           k # 0 /\ fabric.capabilities[k] \in Nat
    /\ \A s \in ToSet(l.segments) : s.kind = "Adjacency" => fabric.adjacencies[s.ref] \in Nat

(* With no place for an entry nothing would be answered. *)
ASSUME ExplanationAssumption ==
    /\ None \notin Questions
    /\ \A q \in Questions :
          /\ q.topic \in {"diff", "segment", "capability", "topology"} => q.limit \in Nat \ {0}
          /\ q.topic = "diff" => \A l \in {q.from, q.to} \ {None} : StoredList(l)
          /\ q.topic \in {"segment", "capability", "topology"} /\ q.list # None =>
                StoredList(q.list) /\ Describes(q.fabric, q.list)
          /\ q.topic = "segment" => q.index \in Nat
--------------------------------------------------------------------------------
(* Bounded presentations. *)

Empty == [entries |-> <<>>, total |-> 0, truncated |-> FALSE]

(* push_entry, and add in diff *)
Push(limit, presentation, entry) ==
    IF Len(presentation.entries) >= limit
    THEN [presentation EXCEPT !.total = @ + 1, !.truncated = TRUE]
    ELSE [presentation EXCEPT !.total = @ + 1, !.entries = Append(@, entry)]

Present(limit, entries) ==
    FoldLeft(LAMBDA p, e : Push(limit, p, e), Empty, entries)
--------------------------------------------------------------------------------
(* diff.  The index of a segment counts from 1 here; 0 is that of a field. *)

Change(kind, index, detail) == [kind |-> kind, index |-> index, detail |-> detail]

(* The fields that are compared, in order.  profile and policy are pairs   *)
(* of identifier and generation; authority is epoch, publisher and boot.   *)
Dependencies == {"topology", "capability", "path", "route", "constraint"}

Compared ==
    << <<"gen", "GenerationAdvance">>, <<"state", "LifecycleChange">>,
       <<"cur", "CurrentnessChange">>, <<"profile", "ProfileChange">>,
       <<"policy", "PolicyChange">>, <<"strictness", "StrictnessChange">>,
       <<"topology", "DependencyChange">>, <<"capability", "DependencyChange">>,
       <<"path", "DependencyChange">>, <<"route", "DependencyChange">>,
       <<"constraint", "DependencyChange">>, <<"authority", "AuthorityChange">> >>

(* What an entry tells of the new value of a field: of a field in several  *)
(* parts only the first, the identifier or the epoch.                      *)
Detail(list, field) ==
    IF field \in {"profile", "policy", "authority"} THEN list[field][1] ELSE list[field]

field_changes(from, to) ==
    FlattenSeq([i \in DOMAIN Compared |->
        LET field == Compared[i][1]
        IN  IF from[field] # to[field]
            THEN <<Change(Compared[i][2], 0, Detail(to, field))>> ELSE <<>>])

(* Mutant: only the payloads of the earlier revision are looked at. *)
compare_width_From(from, to) == Max({1} \cup {Len(s.payload) : s \in ToSet(from.segments)})

(* The widest payload in either revision. *)
compare_width(from, to) ==
    Max({1} \cup {Len(s.payload) : s \in ToSet(from.segments) \cup ToSet(to.segments)})

segment_digests(list, width) ==
    [i \in DOMAIN list.segments |-> Canonical(list.segments[i], width)]

Occurrences(x, s) == Cardinality({i \in DOMAIN s : s[i] = x})

(* Sorting both gives the same. *)
SameMultiset(s, t) ==
    \A x \in ToSet(s) \cup ToSet(t) : Occurrences(x, s) = Occurrences(x, t)

order_changed(from, to) ==
    LET width  == compare_width(from, to)
        before == segment_digests(from, width)
        after  == segment_digests(to, width)
    IN  before # after /\ SameMultiset(before, after)

(* Mutant: what the longer revision has more is left out. *)
segment_changes_Common(from, to) ==
    LET width  == compare_width(from, to)
        before == segment_digests(from, width)
        after  == segment_digests(to, width)
    IN  FlattenSeq([i \in DOMAIN before \cap DOMAIN after |->
            IF before[i] # after[i] THEN <<Change("Replace", i, after[i])>> ELSE <<>>])

segment_changes(from, to) ==
    LET width  == compare_width(from, to)
        before == segment_digests(from, width)
        after  == segment_digests(to, width)
        common == DOMAIN before \cap DOMAIN after
        kind   == IF order_changed(from, to) THEN "Reorder" ELSE "Replace"
        tail(s, k) == [i \in 1 .. Len(s) - Cardinality(common) |->
                          Change(k, Cardinality(common) + i, s[Cardinality(common) + i])]
    IN  FlattenSeq([i \in common |->
            IF before[i] # after[i] THEN <<Change(kind, i, after[i])>> ELSE <<>>])
        \o tail(after, "Insert") \o tail(before, "Remove")

Changes(from, to) ==
    IF from = None /\ to = None THEN <<>>
    ELSE IF from = None THEN <<Change("Created", 0, to.gen)>>
    ELSE IF to = None THEN <<Change("Destroyed", 0, from.gen)>>
    ELSE IF from.id # to.id
    THEN <<Change("Destroyed", 0, from.id), Change("Created", 0, to.id)>>
    ELSE field_changes(from, to) \o segment_changes(from, to)

diff(q) == Present(q.limit, Changes(q.from, q.to))
--------------------------------------------------------------------------------
(* The checks on capability and topology. *)

capability_key(k, fabric) ==
    IF fabric.capabilities[k] = 0
    THEN <<Reason("CapabilityMissing", 0, k)>>
    ELSE If(k \in fabric.unsupported, "CapabilityUnsupported", 0, k)
         \o If(fabric.capabilities[k] # fabric.capability,
               "CapabilityGenerationMismatch", 0, fabric.capabilities[k])

check_capability(p, given, fabric) ==
    LET keys == p.capabilities
    IN  If(given \notin {0, fabric.capability}, "CapabilityGenerationMismatch", 0, fabric.capability)
        \o FlattenSeq([i \in DOMAIN keys |-> capability_key(keys[i], fabric)])

topology_segment(s, index, fabric) ==
    IF s.kind # "Adjacency" THEN <<>>
    ELSE IF fabric.adjacencies[s.ref] = 0
    THEN <<Reason("TopologyAdjacencyUnknown", index, s.ref)>>
    ELSE If(fabric.adjacencies[s.ref] # s.ref,
            "TopologyAdjacencyStale", index, fabric.adjacencies[s.ref])

check_topology(segments, given, fabric) ==
    If(given \notin {0, fabric.topology}, "TopologyGenerationMismatch", 0, fabric.topology)
    \o FlattenSeq([i \in DOMAIN segments |-> topology_segment(segments[i], i - 1, fabric)])
--------------------------------------------------------------------------------
(* The explanations. *)

Entry(code, index, detail) == [code |-> code, index |-> index, detail |-> detail]

ProfileOf(l) == Find(Profiles, l.profile[1])

(* The request explain_segment validates: the content alone, without       *)
(* caller, policy, generations or the strictness of the list.              *)
SegmentRequest(q) ==
    LET l == q.list
        p == ProfileOf(l)
    IN  [before |-> <<>>,
         between |-> (IF p = None THEN <<>> ELSE check_capability(p, 0, q.fabric))
                     \o check_topology(l.segments, l.topology, q.fabric),
         id |-> l.id, call |-> "batch", existing |-> 0, state |-> "Active", expected |-> 0,
         superseded |-> "none", supersedes_generation |-> 0, superseded_generation |-> 0,
         profile |-> l.profile[1], profile_generation |-> 0, policy |-> 0,
         policy_generation |-> 0, scope |-> 0, strictness |-> "Strict",
         derived |-> FALSE, segments |-> l.segments]

(* The reasons that carry the index; those about the whole list carry 0. *)
SegmentReasons(q) ==
    InOrder({r \in validate_request(SegmentRequest(q)).reasons : r.index = q.index})

explain_segment(q) ==
    LET reasons == SegmentReasons(q)
    IN  Present(q.limit,
            IF q.list = None THEN <<Entry("ListNotFound", 0, 0)>>
            ELSE IF q.index >= Len(q.list.segments)
            THEN <<Entry("InvalidArgument", q.index, Len(q.list.segments))>>
            ELSE IF reasons = <<>> THEN <<Entry("Ok", q.index, 0)>>
            ELSE [i \in DOMAIN reasons |->
                    Entry(kCodes[reasons[i].code][1], reasons[i].index, reasons[i].detail)])

(* Mutant: a capability that is there but not supported is passed over. *)
CapabilityEntry_Present(k, fabric) ==
    IF fabric.capabilities[k] = 0 THEN <<Entry("CapabilityMissing", 0, k)>>
    ELSE IF fabric.capabilities[k] # fabric.capability
    THEN <<Entry("CapabilityGenerationMismatch", 0, fabric.capabilities[k])>>
    ELSE <<>>

(* Of a capability the first cause is named. *)
CapabilityEntry(k, fabric) ==
    IF fabric.capabilities[k] = 0 THEN <<Entry("CapabilityMissing", 0, k)>>
    ELSE IF k \in fabric.unsupported THEN <<Entry("CapabilityUnsupported", 0, k)>>
    ELSE IF fabric.capabilities[k] # fabric.capability
    THEN <<Entry("CapabilityGenerationMismatch", 0, fabric.capabilities[k])>>
    ELSE <<>>

(* Ok is added when no entry was retained. *)
explain_missing_capability(q) ==
    LET p       == ProfileOf(q.list)
        keys    == p.capabilities
        defects == Present(q.limit,
                       FlattenSeq([i \in DOMAIN keys |-> CapabilityEntry(keys[i], q.fabric)]))
    IN  IF q.list = None THEN Present(q.limit, <<Entry("ListNotFound", 0, 0)>>)
        ELSE IF p = None THEN Present(q.limit, <<Entry("ProfileUnknown", 0, q.list.profile[1])>>)
        ELSE IF defects.entries = <<>> THEN Push(q.limit, defects, Entry("Ok", 0, p.id))
        ELSE defects

(* Every adjacency has an entry, Ok if it is current. *)
AdjacencyEntry(s, index, fabric) ==
    IF s.kind # "Adjacency" THEN <<>>
    ELSE IF fabric.adjacencies[s.ref] = 0 THEN <<Entry("TopologyAdjacencyUnknown", index, s.ref)>>
    ELSE IF fabric.adjacencies[s.ref] # s.ref
    THEN <<Entry("TopologyAdjacencyStale", index, fabric.adjacencies[s.ref])>>
    ELSE <<Entry("Ok", index, fabric.adjacencies[s.ref])>>

explain_stale_topology(q) ==
    LET l  == q.list
        at == FlattenSeq([i \in DOMAIN l.segments |->
                             AdjacencyEntry(l.segments[i], i - 1, q.fabric)])
    IN  Present(q.limit,
            IF l = None THEN <<Entry("ListNotFound", 0, 0)>>
            ELSE at
                 \o (IF l.topology \notin {0, q.fabric.topology}
                     THEN <<Entry("TopologyGenerationMismatch", 0, q.fabric.topology)>> ELSE <<>>)
                 \o (IF at = <<>> /\ l.topology = 0 THEN <<Entry("Ok", 0, 0)>> ELSE <<>>))
--------------------------------------------------------------------------------
(* Either a batch is validated or a question is asked. *)
ExplainInit ==
    \/ /\ Init
       /\ question = None /\ answer = None
    \/ /\ batch = <<>> /\ next = 1
       /\ result = Success /\ combined = Success
       /\ status = "validating"
       /\ question \in Questions /\ answer = None

Asked(topic) == question # None /\ answer = None /\ question.topic = topic

Diff == Asked("diff") /\ answer' = diff(question)
ExplainSegment == Asked("segment") /\ answer' = explain_segment(question)
ExplainMissingCapability == Asked("capability") /\ answer' = explain_missing_capability(question)
ExplainStaleTopology == Asked("topology") /\ answer' = explain_stale_topology(question)

ExplainNext ==
    \/ question = None /\ Next /\ UNCHANGED <<question, answer>>
    \/ /\ Diff \/ ExplainSegment \/ ExplainMissingCapability \/ ExplainStaleTopology
       /\ UNCHANGED <<vars, question>>

ExplainSpec == ExplainInit /\ [][ExplainNext]_explainVars
--------------------------------------------------------------------------------
(* Properties. *)

Answered(topic) == question # None /\ answer # None /\ question.topic = topic

(* The segments that result when the changes are made to those of a list. *)
Patched(segments, changes) ==
    LET of(kind) == {c \in changes : c.kind = kind}
        length == Len(segments) + Cardinality(of("Insert")) - Cardinality(of("Remove"))
        changed(i) == {c \in changes : c.index = i /\ c.kind # "Remove"}
    IN  [i \in 1 .. length |->
            IF changed(i) # {} THEN (CHOOSE c \in changed(i) : TRUE).detail ELSE segments[i]]

SameLineage(q) == q.from # None /\ q.to # None /\ q.from.id = q.to.id

(* A comparison that is marked as complete accounts for every compared     *)
(* change.  The segments of the later snapshot can be rebuilt from those   *)
(* of the earlier one and the entries, in the compared form.  A field      *)
(* other than a dependency changed, in any of its parts, exactly if it has *)
(* an entry, and the entry tells the identifier or epoch it changed to (a  *)
(* new generation of the profile or policy, or a new publisher or boot, is *)
(* noticed but not told).  Of the dependencies the entries only say how    *)
(* many changed.                                                           *)
DiffIsPatch ==
    Answered("diff") /\ ~ answer.truncated /\ SameLineage(question) =>
        LET q     == question
            width == compare_width(q.from, q.to)
            e     == answer.entries
            segs  == {k \in DOMAIN e : e[k].index > 0}
        IN  /\ Patched(segment_digests(q.from, width), {e[k] : k \in segs})
                  = segment_digests(q.to, width)
            /\ \A i \in DOMAIN Compared :
                  Compared[i][2] # "DependencyChange" =>
                      LET of == {k \in DOMAIN e \ segs : e[k].kind = Compared[i][2]}
                      IN  /\ q.from[Compared[i][1]] # q.to[Compared[i][1]] <=> of # {}
                          /\ \A k \in of : e[k].detail = Detail(q.to, Compared[i][1])
            /\ Cardinality({k \in DOMAIN e \ segs : e[k].kind = "DependencyChange"})
                  = Cardinality({d \in Dependencies : q.from[d] # q.to[d]})

(* The comparison sees what the content digest sees: it has an entry for a *)
(* segment exactly if the two revisions differ in the canonical form their *)
(* profile defines, which pads the payloads to another width.              *)
DiffSeesWhatIsDigested ==
    Answered("diff") /\ ~ answer.truncated /\ SameLineage(question) =>
        LET q     == question
            width == ProfileOf(q.to).payload_width
        IN  /\ q.from.profile = q.to.profile /\ ProfileOf(q.to) # None
            /\ \A s \in ToSet(q.from.segments) \cup ToSet(q.to.segments) : Len(s.payload) <= width
            => ((\E k \in DOMAIN answer.entries : answer.entries[k].index > 0) <=>
                   segment_digests(q.from, width) # segment_digests(q.to, width))

(* A segment that is found in order is well-formed under the evidence and  *)
(* the profile as they are now, repeats no earlier one that fits into the  *)
(* profile and, if it is an adjacency, is current; and a segment other     *)
(* than the first, which also takes the blame for the whole list, is not   *)
(* blamed without a cause.  This needs a validation that reported          *)
(* everything: the explanation does not say whether it did.                *)
SegmentExplanationIsSound ==
    LET q == question
        d == SegmentRequest(q)
    IN  /\ Answered("segment") /\ q.list # None
        /\ q.index < Len(q.list.segments)
        /\ ~ validate_request(d).truncated
        => LET s  == q.list.segments[q.index + 1]
               p  == ProfileOf(q.list)
               ok == /\ WellFormed(s)
                     /\ p # None =>
                           /\ s.kind \in p.kinds /\ Len(s.payload) <= p.payload_width
                           /\ \A j \in 1 .. q.index :
                                 /\ Len(q.list.segments[j].payload) <= p.payload_width
                                 /\ Canonical(q.list.segments[j], p.payload_width)
                                        = Canonical(s, p.payload_width)
                                 => IF j = q.index THEN p.consecutive ELSE p.nonconsecutive
                     /\ s.kind = "Adjacency" => q.fabric.adjacencies[s.ref] = s.ref
               says == answer.entries # <<>> /\ answer.entries[1].code = "Ok"
           IN  /\ says => ok
               /\ ok /\ q.index > 0 /\ p # None => says

(* The explanations of capability and topology name a defect exactly if a  *)
(* draft with this profile and these segments would be refused for it now. *)
FabricExplanationsAreExact ==
    LET q == question
        defect == \E k \in DOMAIN answer.entries : answer.entries[k].code # "Ok"
    IN  /\ Answered("capability") /\ q.list # None /\ ProfileOf(q.list) # None =>
              (defect <=> check_capability(ProfileOf(q.list), 0, q.fabric) # <<>>)
        /\ Answered("topology") /\ q.list # None /\ ~ answer.truncated =>
              (defect <=> check_topology(q.list.segments, q.list.topology, q.fabric) # <<>>)

(* The explanations agree with validation: what they find in order would   *)
(* be accepted now, and what they blame would be refused.                  *)
ExplanationsAgree == SegmentExplanationIsSound /\ FabricExplanationsAreExact
================================================================================
