---------------------------- MODULE StateFileProofs -----------------------------
(***************************************************************************)
(* The state file, for any tables and limits: encoding loses nothing, a    *)
(* save is atomic for whoever loads the file next, and a file that was     *)
(* damaged is never loaded as another image.  Under the conditions that    *)
(* the code relies on without enforcing them, what was saved loads.        *)
(***************************************************************************)
EXTENDS StateFile, FiniteSetTheorems, TLAPS

(* An image whose lists are under a profile: the others cannot be written. *)
Proper(m) ==
    /\ m \in Image
    /\ \A l \in Lists : m.lists[l] # NoList => m.lists[l].profile \in Profiles

ImagesInv == \A m \in {memory, saving, after, acked} \cup candidates : Proper(m)

(* What a start would make of the file. *)
Holds(m) == file = Encode(m) \/ (file = NoFile /\ m = EmptyImage)

(* Of a save in progress the file holds the image before it, until it is   *)
(* replaced as a whole.                                                    *)
SaveInv ==
    /\ phase \in {"down", "up", "refused"}
    /\ pc \in {"idle", "encode", "open", "write", "rename", "renamed"}
    /\ pc # "idle" => phase = "up"
    /\ pc = "rename" => temp = Encode(saving)
    /\ phase = "up" =>
           /\ candidates = IF pc = "idle" THEN {acked} ELSE {acked, saving}
           /\ IF pc = "renamed" THEN file = Encode(saving) ELSE Holds(acked)

(* Whoever starts from an undamaged file finds a candidate. *)
FileInv ==
    /\ damaged \in BOOLEAN
    /\ ~ damaged => \E m \in candidates : Holds(m)
    /\ ~ damaged /\ file = NoFile => acked = EmptyImage

(* A file that lost its end, and one with a record that is not the one its *)
(* trailer was computed from.                                              *)
Torn(f) == Len(f) < 2 \/ Len(f) # f[1].length + 2

Zeroed(f, recs) ==
    /\ Len(f) = Len(recs) + 2
    /\ f[Len(f)] = Trailer(recs)
    /\ \E i \in 1 .. Len(recs) :
          f[i + 1].val = 0 /\ f[i + 1].digest = 0 /\ ~ (recs[i].val = 0 /\ recs[i].digest = 0)

DamageInv ==
    damaged => /\ phase # "up"
               /\ file \in Seq(Unit)
               /\ Torn(file) \/ \E m \in candidates : Zeroed(file, Records(m))

StateInv == ImagesInv /\ SaveInv /\ FileInv /\ DamageInv
--------------------------------------------------------------------------------
(* Sequences. *)

(* SetToSeq lists a finite set. *)
LEMMA SetToSeqIs ==
    ASSUME NEW S, IsFiniteSet(S)
    PROVE  /\ SetToSeq(S) \in Seq(S) /\ Len(SetToSeq(S)) = Cardinality(S)
           /\ Range(SetToSeq(S)) = S
           /\ IsInjective(SetToSeq(S))
  <1>1. Cardinality(S) \in Nat /\ ExistsBijection(1 .. Cardinality(S), S)
    BY FS_CardinalityType
  <1>2. \E f \in [1 .. Cardinality(S) -> S] : IsInjective(f)
    BY <1>1 DEF ExistsBijection, Bijection, Injection
  <1> DEFINE s == SetToSeq(S)
  <1>3. s \in [1 .. Cardinality(S) -> S] /\ IsInjective(s)
    BY <1>2 DEF SetToSeq
  <1>4. s \in Injection(1 .. Cardinality(S), S)
    BY <1>3 DEF Injection
  <1>5. Cardinality(1 .. Cardinality(S)) = Cardinality(S)
    BY <1>1, FS_Interval
  <1>6. s \in Surjection(1 .. Cardinality(S), S)
    BY <1>4, <1>5, FS_Injection
  <1> HIDE DEF s
  <1>7. s \in Seq(S) /\ Len(s) = Cardinality(S) /\ DOMAIN s = 1 .. Cardinality(S)
    BY <1>1, <1>3
  <1>8. Range(s) = S
    BY <1>3, <1>6, <1>7 DEF Range, Surjection
  <1> QED
    BY <1>3, <1>7, <1>8 DEF s

(* A sequence over a set is one over a larger set. *)
LEMMA SeqSubset ==
    ASSUME NEW T, NEW S \in SUBSET T, NEW s \in Seq(S)
    PROVE  s \in Seq(T)
  OBVIOUS

(* What a concatenation is. *)
LEMMA ConcatIs ==
    ASSUME NEW T, NEW s \in Seq(T), NEW t \in Seq(T)
    PROVE  /\ s \o t \in Seq(T) /\ Len(s \o t) = Len(s) + Len(t)
           /\ \A k \in 1 .. Len(s) : (s \o t)[k] = s[k]
           /\ \A k \in 1 .. Len(t) : (s \o t)[Len(s) + k] = t[k]
  OBVIOUS

(* A place in a concatenation is one in the first part or in the second. *)
LEMMA ConcatPlaces ==
    ASSUME NEW T, NEW s \in Seq(T), NEW t \in Seq(T), NEW k \in 1 .. Len(s \o t)
    PROVE  k \in 1 .. Len(s) \/ \E j \in 1 .. Len(t) : k = Len(s) + j
  <1>1. Len(s) \in Nat /\ Len(t) \in Nat /\ Len(s \o t) = Len(s) + Len(t)
    BY ConcatIs
  <1>2. k \notin 1 .. Len(s) => k - Len(s) \in 1 .. Len(t) /\ k = Len(s) + (k - Len(s))
    BY <1>1
  <1> QED
    BY <1>2

(* The elements of a concatenation. *)
LEMMA ConcatRange ==
    ASSUME NEW T, NEW s \in Seq(T), NEW t \in Seq(T)
    PROVE  s \o t \in Seq(T) /\ Range(s \o t) = Range(s) \cup Range(t)
  <1>1. /\ s \o t \in Seq(T) /\ Len(s \o t) = Len(s) + Len(t)
        /\ \A k \in 1 .. Len(s) : (s \o t)[k] = s[k]
        /\ \A k \in 1 .. Len(t) : (s \o t)[Len(s) + k] = t[k]
    BY ConcatIs
  <1>2. /\ DOMAIN s = 1 .. Len(s) /\ DOMAIN t = 1 .. Len(t)
        /\ DOMAIN (s \o t) = 1 .. Len(s \o t) /\ Len(s) \in Nat /\ Len(t) \in Nat
    BY <1>1
  <1>3. ASSUME NEW k \in 1 .. Len(s \o t) PROVE (s \o t)[k] \in Range(s) \cup Range(t)
    <2>1. CASE k \in 1 .. Len(s)
      BY <1>1, <1>2, <2>1 DEF Range
    <2>2. CASE \E j \in 1 .. Len(t) : k = Len(s) + j
      BY <1>1, <1>2, <2>2 DEF Range
    <2> QED
      BY <2>1, <2>2, ConcatPlaces
  <1>4. ASSUME NEW k \in 1 .. Len(s) PROVE s[k] \in Range(s \o t)
    <2>1. k \in 1 .. Len(s \o t)
      BY <1>1, <1>2
    <2> QED
      BY <1>1, <1>2, <2>1 DEF Range
  <1>5. ASSUME NEW k \in 1 .. Len(t) PROVE t[k] \in Range(s \o t)
    <2>1. Len(s) + k \in 1 .. Len(s \o t)
      BY <1>1, <1>2
    <2> QED
      BY <1>1, <1>2, <2>1 DEF Range
  <1>6. Range(s \o t) \subseteq Range(s) \cup Range(t)
    BY <1>2, <1>3 DEF Range
  <1>7. Range(s) \subseteq Range(s \o t)
    BY <1>2, <1>4 DEF Range
  <1>8. Range(t) \subseteq Range(s \o t)
    BY <1>2, <1>5 DEF Range
  <1> QED
    BY <1>1, <1>6, <1>7, <1>8

(* The records of one type in a sequence of records can be counted. *)
Places(recs, type) == {i \in 1 .. Len(recs) : recs[i].type = type}

(* The count of a concatenation. *)
LEMMA ConcatCount ==
    ASSUME NEW s \in Seq(RecordUnit), NEW t \in Seq(RecordUnit), NEW type
    PROVE  /\ Count(s, type) \in Nat /\ Count(t, type) \in Nat
           /\ Count(s \o t, type) = Count(s, type) + Count(t, type)
  <1>1. /\ s \o t \in Seq(RecordUnit) /\ Len(s \o t) = Len(s) + Len(t)
        /\ \A k \in 1 .. Len(s) : (s \o t)[k] = s[k]
        /\ \A k \in 1 .. Len(t) : (s \o t)[Len(s) + k] = t[k]
        /\ Len(s) \in Nat /\ Len(t) \in Nat
    BY ConcatIs
  <1> DEFINE A == Places(s, type)
             B == Places(t, type)
             C == {Len(s) + k : k \in B}
             f == [k \in B |-> Len(s) + k]
  <1>2. IsFiniteSet(A) /\ IsFiniteSet(B)
    <2>1. IsFiniteSet(1 .. Len(s)) /\ IsFiniteSet(1 .. Len(t))
      BY <1>1, FS_Interval
    <2> QED
      BY <2>1, FS_Subset DEF Places
  <1>3. B \subseteq Nat
    BY DEF Places
  <1>4. f \in Bijection(B, C)
    BY <1>1, <1>3 DEF Bijection, Injection, Surjection, IsInjective
  <1>5. IsFiniteSet(C) /\ Cardinality(C) = Cardinality(B)
    BY <1>2, <1>4, FS_Bijection DEF ExistsBijection
  <1>6. A \cap C = {}
    BY <1>1 DEF Places
  <1>7. Places(s \o t, type) = A \cup C
    <2>1. A \cup C \subseteq Places(s \o t, type)
      BY <1>1 DEF Places
    <2>2. ASSUME NEW k \in Places(s \o t, type) PROVE k \in A \cup C
      <3>1. k \in 1 .. Len(s \o t) /\ (s \o t)[k].type = type
        BY DEF Places
      <3>2. CASE k \in 1 .. Len(s)
        BY <1>1, <3>1, <3>2 DEF Places
      <3>3. CASE \E j \in 1 .. Len(t) : k = Len(s) + j
        BY <1>1, <3>1, <3>3 DEF Places
      <3> QED
        BY <3>1, <3>2, <3>3, ConcatPlaces
    <2> QED
      BY <2>1, <2>2
  <1>8. Cardinality(A \cup C) = Cardinality(A) + Cardinality(C) - Cardinality({})
    <2> HIDE DEF A, C
    <2> QED
      BY <1>2, <1>5, <1>6, FS_Union
  <1>9. Cardinality(A) \in Nat /\ Cardinality(B) \in Nat /\ Cardinality({}) = 0
    BY <1>2, FS_CardinalityType, FS_EmptySet
  <1> HIDE DEF A, B, C
  <1>10. Cardinality(Places(s \o t, type)) = Cardinality(A) + Cardinality(B)
    BY <1>5, <1>7, <1>8, <1>9
  <1> QED
    BY <1>9, <1>10 DEF A, B, Count, Places
--------------------------------------------------------------------------------
(* The records of an image. *)

(* The size of a range that starts at 1. *)
LEMMA IntervalSize ==
    ASSUME NEW n \in Nat
    PROVE  IsFiniteSet(1 .. n) /\ Cardinality(1 .. n) = n
  <1>1. IsFiniteSet(1 .. n) /\ Cardinality(1 .. n) = IF 1 > n THEN 0 ELSE n - 1 + 1
    BY FS_Interval
  <1> QED
    BY <1>1

ProfileRecords(m) ==
    {Record("Profile", p, 0, m.profiles[p], 0) : p \in {q \in Profiles : m.profiles[q] # 0}}
PolicyRecords(m) ==
    {Record("Policy", p, 0, m.policies[p], 0) : p \in {q \in Policies : m.policies[q] # 0}}
ListRecords(m) ==
    {Record("List", l, m.lists[l].profile, m.profiles[m.lists[l].profile], m.lists[l].digest) :
        l \in {k \in Lists : m.lists[k] # NoList}}
HistoryRecords(m)   == {Record("History", h, 0, 0, 0) : h \in 1 .. m.history}
AttemptRecords(m)   == {Record("Attempt", a, 0, 1, 0) : a \in m.attempts}
PublisherRecords(m) == {Record("Publisher", b, 0, 0, 0) : b \in m.publishers}
FencedRecords(m)    == {Record("FencedBoot", b, 0, 0, 0) : b \in m.fenced}

(* encode_durable_state writes the tables one after the other. *)
LEMMA RecordsAre ==
    ASSUME NEW m
    PROVE  Records(m) =
               <<Record("Meta", 0, 0, m.revision, 0)>>
               \o SetToSeq(ProfileRecords(m)) \o SetToSeq(PolicyRecords(m))
               \o SetToSeq(ListRecords(m)) \o SetToSeq(HistoryRecords(m))
               \o SetToSeq(AttemptRecords(m)) \o SetToSeq(PublisherRecords(m))
               \o SetToSeq(FencedRecords(m))
  BY DEF Records, ProfileRecords, PolicyRecords, ListRecords, HistoryRecords, AttemptRecords,
         PublisherRecords, FencedRecords

(* The tables are finite, their records can be written, and each has a     *)
(* type of its own.                                                        *)
LEMMA TablesAre ==
    ASSUME NEW m, Proper(m)
    PROVE  /\ Record("Meta", 0, 0, m.revision, 0) \in RecordUnit
           /\ ProfileRecords(m) \in SUBSET RecordUnit /\ IsFiniteSet(ProfileRecords(m))
           /\ Cardinality(ProfileRecords(m)) <= Cardinality({q \in Profiles : m.profiles[q] # 0})
           /\ PolicyRecords(m) \in SUBSET RecordUnit /\ IsFiniteSet(PolicyRecords(m))
           /\ Cardinality(PolicyRecords(m)) <= Cardinality({q \in Policies : m.policies[q] # 0})
           /\ ListRecords(m) \in SUBSET RecordUnit /\ IsFiniteSet(ListRecords(m))
           /\ Cardinality(ListRecords(m)) <= Cardinality({k \in Lists : m.lists[k] # NoList})
           /\ HistoryRecords(m) \in SUBSET RecordUnit /\ IsFiniteSet(HistoryRecords(m))
           /\ Cardinality(HistoryRecords(m)) = m.history
           /\ AttemptRecords(m) \in SUBSET RecordUnit /\ IsFiniteSet(AttemptRecords(m))
           /\ Cardinality(AttemptRecords(m)) <= Cardinality(m.attempts)
           /\ PublisherRecords(m) \in SUBSET RecordUnit /\ IsFiniteSet(PublisherRecords(m))
           /\ Cardinality(PublisherRecords(m)) <= Cardinality(m.publishers)
           /\ FencedRecords(m) \in SUBSET RecordUnit /\ IsFiniteSet(FencedRecords(m))
           /\ Cardinality(FencedRecords(m)) <= Cardinality(m.fenced)
  <1>1. /\ m.revision \in Nat /\ m.history \in Nat
        /\ \A p \in Profiles : m.profiles[p] \in Nat
        /\ \A p \in Policies : m.policies[p] \in Nat
        /\ \A l \in Lists : m.lists[l].profile \in Profiles \cup {0} /\ m.lists[l].digest \in Nat
        /\ m.attempts \in SUBSET Attempts
        /\ m.publishers \in SUBSET Boots /\ m.fenced \in SUBSET Boots
    BY StateFileAssumption DEF Proper, Image
  <1>2. /\ IsFiniteSet(Profiles) /\ IsFiniteSet(Policies) /\ IsFiniteSet(Lists)
        /\ IsFiniteSet(Attempts) /\ IsFiniteSet(Boots)
    BY StateFileAssumption
  <1>3. Record("Meta", 0, 0, m.revision, 0) \in RecordUnit
    BY <1>1 DEF Record, RecordUnit
  <1>4. /\ ProfileRecords(m) \in SUBSET RecordUnit /\ IsFiniteSet(ProfileRecords(m))
        /\ Cardinality(ProfileRecords(m)) <= Cardinality({q \in Profiles : m.profiles[q] # 0})
    <2> DEFINE S == {q \in Profiles : m.profiles[q] # 0}
               f == [p \in S |-> Record("Profile", p, 0, m.profiles[p], 0)]
    <2>1. IsFiniteSet(S)
      BY <1>2, FS_Subset
    <2>2. f \in Surjection(S, ProfileRecords(m))
      BY DEF Surjection, ProfileRecords
    <2>3. ProfileRecords(m) \in SUBSET RecordUnit
      BY <1>1 DEF ProfileRecords, Record, RecordUnit
    <2> QED
      BY <2>1, <2>2, <2>3, FS_Surjection
  <1>5. /\ PolicyRecords(m) \in SUBSET RecordUnit /\ IsFiniteSet(PolicyRecords(m))
        /\ Cardinality(PolicyRecords(m)) <= Cardinality({q \in Policies : m.policies[q] # 0})
    <2> DEFINE S == {q \in Policies : m.policies[q] # 0}
               f == [p \in S |-> Record("Policy", p, 0, m.policies[p], 0)]
    <2>1. IsFiniteSet(S)
      BY <1>2, FS_Subset
    <2>2. f \in Surjection(S, PolicyRecords(m))
      BY DEF Surjection, PolicyRecords
    <2>3. PolicyRecords(m) \in SUBSET RecordUnit
      BY <1>1 DEF PolicyRecords, Record, RecordUnit
    <2> QED
      BY <2>1, <2>2, <2>3, FS_Surjection
  <1>6. /\ ListRecords(m) \in SUBSET RecordUnit /\ IsFiniteSet(ListRecords(m))
        /\ Cardinality(ListRecords(m)) <= Cardinality({k \in Lists : m.lists[k] # NoList})
    <2> DEFINE S == {k \in Lists : m.lists[k] # NoList}
               f == [l \in S |-> Record("List", l, m.lists[l].profile,
                                        m.profiles[m.lists[l].profile], m.lists[l].digest)]
    <2>1. IsFiniteSet(S)
      BY <1>2, FS_Subset
    <2>2. f \in Surjection(S, ListRecords(m))
      BY DEF Surjection, ListRecords
    <2>3. \A l \in S : m.lists[l].profile \in Profiles /\ m.profiles[m.lists[l].profile] \in Nat
      BY <1>1 DEF Proper
    <2>4. ListRecords(m) \in SUBSET RecordUnit
      BY <1>1, <2>3 DEF ListRecords, Record, RecordUnit
    <2> QED
      BY <2>1, <2>2, <2>4, FS_Surjection
  <1>7. /\ HistoryRecords(m) \in SUBSET RecordUnit /\ IsFiniteSet(HistoryRecords(m))
        /\ Cardinality(HistoryRecords(m)) = m.history
    <2> DEFINE S == 1 .. m.history
               f == [h \in S |-> Record("History", h, 0, 0, 0)]
    <2>1. IsFiniteSet(S) /\ Cardinality(S) = m.history
      BY <1>1, IntervalSize
    <2>2. f \in Surjection(S, HistoryRecords(m))
      BY DEF Surjection, HistoryRecords
    <2>3. \A g, h \in S : f[g] = f[h] => g = h
      BY DEF Record
    <2>4. f \in Injection(S, HistoryRecords(m))
      BY <2>2, <2>3 DEF Injection, Surjection, IsInjective
    <2>5. HistoryRecords(m) \in SUBSET RecordUnit
      BY <1>1 DEF HistoryRecords, Record, RecordUnit
    <2> HIDE DEF S, f
    <2> QED
      BY <2>1, <2>2, <2>4, <2>5, FS_Surjection
  <1>8. /\ AttemptRecords(m) \in SUBSET RecordUnit /\ IsFiniteSet(AttemptRecords(m))
        /\ Cardinality(AttemptRecords(m)) <= Cardinality(m.attempts)
    <2> DEFINE f == [a \in m.attempts |-> Record("Attempt", a, 0, 1, 0)]
    <2>1. IsFiniteSet(m.attempts)
      BY <1>1, <1>2, FS_Subset
    <2>2. f \in Surjection(m.attempts, AttemptRecords(m))
      BY DEF Surjection, AttemptRecords
    <2>3. AttemptRecords(m) \in SUBSET RecordUnit
      BY <1>1 DEF AttemptRecords, Record, RecordUnit
    <2> QED
      BY <2>1, <2>2, <2>3, FS_Surjection
  <1>9. /\ PublisherRecords(m) \in SUBSET RecordUnit /\ IsFiniteSet(PublisherRecords(m))
        /\ Cardinality(PublisherRecords(m)) <= Cardinality(m.publishers)
    <2> DEFINE f == [b \in m.publishers |-> Record("Publisher", b, 0, 0, 0)]
    <2>1. IsFiniteSet(m.publishers)
      BY <1>1, <1>2, FS_Subset
    <2>2. f \in Surjection(m.publishers, PublisherRecords(m))
      BY DEF Surjection, PublisherRecords
    <2>3. PublisherRecords(m) \in SUBSET RecordUnit
      BY <1>1 DEF PublisherRecords, Record, RecordUnit
    <2> QED
      BY <2>1, <2>2, <2>3, FS_Surjection
  <1>10. /\ FencedRecords(m) \in SUBSET RecordUnit /\ IsFiniteSet(FencedRecords(m))
        /\ Cardinality(FencedRecords(m)) <= Cardinality(m.fenced)
    <2> DEFINE f == [b \in m.fenced |-> Record("FencedBoot", b, 0, 0, 0)]
    <2>1. IsFiniteSet(m.fenced)
      BY <1>1, <1>2, FS_Subset
    <2>2. f \in Surjection(m.fenced, FencedRecords(m))
      BY DEF Surjection, FencedRecords
    <2>3. FencedRecords(m) \in SUBSET RecordUnit
      BY <1>1 DEF FencedRecords, Record, RecordUnit
    <2> QED
      BY <2>1, <2>2, <2>3, FS_Surjection
  <1> QED
    BY <1>3, <1>4, <1>5, <1>6, <1>7, <1>8, <1>9, <1>10

(* The fields of a record. *)
LEMMA RecordIs ==
    ASSUME NEW type, NEW id, NEW ref, NEW val, NEW digest
    PROVE  /\ Record(type, id, ref, val, digest).type = type
           /\ Record(type, id, ref, val, digest).id = id
           /\ Record(type, id, ref, val, digest).ref = ref
           /\ Record(type, id, ref, val, digest).val = val
           /\ Record(type, id, ref, val, digest).digest = digest
  BY DEF Record

(* A table as it is written: its records, each once, all of one type. *)
IsTable(s, S, type) ==
    /\ s \in Seq(RecordUnit) /\ Len(s) = Cardinality(S) /\ Len(s) \in Nat
    /\ Range(s) = S /\ IsInjective(s)
    /\ \A r \in S : r.type = type

(* SetToSeq writes a table. *)
LEMMA TableIs ==
    ASSUME NEW S \in SUBSET RecordUnit, IsFiniteSet(S), NEW type, \A r \in S : r.type = type
    PROVE  IsTable(SetToSeq(S), S, type)
  <1>1. /\ SetToSeq(S) \in Seq(S) /\ Len(SetToSeq(S)) = Cardinality(S)
        /\ Range(SetToSeq(S)) = S /\ IsInjective(SetToSeq(S)) /\ Cardinality(S) \in Nat
    BY SetToSeqIs, FS_CardinalityType
  <1>2. SetToSeq(S) \in Seq(RecordUnit)
    BY <1>1, SeqSubset
  <1> QED
    BY <1>1, <1>2 DEF IsTable

(* The count of a table that was written. *)
LEMMA IsTableCount ==
    ASSUME NEW s, NEW S, NEW type, IsTable(s, S, type), NEW other
    PROVE  Count(s, other) = IF other = type THEN Len(s) ELSE 0
  <1>1. Len(s) \in Nat /\ \A i \in 1 .. Len(s) : s[i].type = type
    BY DEF IsTable, Range
  <1>2. other = type => Places(s, other) = 1 .. Len(s)
    BY <1>1 DEF Places
  <1>3. other # type => Places(s, other) = {}
    BY <1>1 DEF Places
  <1>4. Count(s, other) = Cardinality(Places(s, other))
    BY DEF Count, Places
  <1> QED
    BY <1>1, <1>2, <1>3, <1>4, IntervalSize, FS_EmptySet

(* A concatenation of what has no record in common has none twice. *)
LEMMA ConcatInjective ==
    ASSUME NEW T, NEW s \in Seq(T), NEW t \in Seq(T), IsInjective(s), IsInjective(t),
           Range(s) \cap Range(t) = {}
    PROVE  IsInjective(s \o t)
  <1>1. /\ s \o t \in Seq(T) /\ Len(s \o t) = Len(s) + Len(t)
        /\ \A k \in 1 .. Len(s) : (s \o t)[k] = s[k]
        /\ \A k \in 1 .. Len(t) : (s \o t)[Len(s) + k] = t[k]
        /\ Len(s) \in Nat /\ Len(t) \in Nat
    BY ConcatIs
  <1>2. DOMAIN s = 1 .. Len(s) /\ DOMAIN t = 1 .. Len(t) /\ DOMAIN (s \o t) = 1 .. Len(s \o t)
    BY <1>1
  <1>3. ASSUME NEW i \in 1 .. Len(s), NEW j \in 1 .. Len(t) PROVE s[i] # t[j]
    BY <1>2 DEF Range
  <1> SUFFICES ASSUME NEW i \in 1 .. Len(s \o t), NEW j \in 1 .. Len(s \o t),
                      (s \o t)[i] = (s \o t)[j]
               PROVE  i = j
    BY <1>2 DEF IsInjective
  <1>4. CASE i \in 1 .. Len(s) /\ j \in 1 .. Len(s)
    BY <1>1, <1>2, <1>4 DEF IsInjective
  <1>5. CASE i \in 1 .. Len(s) /\ \E k \in 1 .. Len(t) : j = Len(s) + k
    BY <1>1, <1>3, <1>5
  <1>6. CASE j \in 1 .. Len(s) /\ \E k \in 1 .. Len(t) : i = Len(s) + k
    BY <1>1, <1>3, <1>6
  <1>7. CASE (\E k \in 1 .. Len(t) : i = Len(s) + k) /\ \E k \in 1 .. Len(t) : j = Len(s) + k
    <2>1. PICK k \in 1 .. Len(t) : i = Len(s) + k
      BY <1>7
    <2>2. PICK n \in 1 .. Len(t) : j = Len(s) + n
      BY <1>7
    <2>3. t[k] = t[n]
      BY <1>1, <2>1, <2>2
    <2> QED
      BY <1>2, <2>1, <2>2, <2>3 DEF IsInjective
  <1> QED
    BY <1>4, <1>5, <1>6, <1>7, ConcatPlaces

(* One more table after records of other types. *)
LEMMA AppendTable ==
    ASSUME NEW s \in Seq(RecordUnit), IsInjective(s), NEW t, NEW S, NEW type, IsTable(t, S, type),
           \A r \in Range(s) : r.type # type
    PROVE  /\ s \o t \in Seq(RecordUnit) /\ IsInjective(s \o t)
           /\ Len(s \o t) = Len(s) + Len(t)
           /\ Range(s \o t) = Range(s) \cup S
           /\ \A other : Count(s \o t, other)
                            = Count(s, other) + (IF other = type THEN Len(t) ELSE 0)
           /\ \A other : Count(s, other) \in Nat
  <1>1. t \in Seq(RecordUnit) /\ IsInjective(t) /\ Range(t) = S /\ \A r \in S : r.type = type
    BY DEF IsTable
  <1>2. Range(s) \cap Range(t) = {}
    BY <1>1
  <1>3. s \o t \in Seq(RecordUnit) /\ Range(s \o t) = Range(s) \cup S
    BY <1>1, ConcatRange
  <1>4. Len(s \o t) = Len(s) + Len(t)
    BY <1>1, ConcatIs
  <1>5. IsInjective(s \o t)
    BY <1>1, <1>2, ConcatInjective
  <1>6. ASSUME NEW other
        PROVE  /\ Count(s, other) \in Nat
               /\ Count(s \o t, other) = Count(s, other) + (IF other = type THEN Len(t) ELSE 0)
    BY <1>1, ConcatCount, IsTableCount
  <1> QED
    BY <1>3, <1>4, <1>5, <1>6

(* A sequence starts with another. *)
StartsWith(t, s) ==
    /\ Len(s) \in Nat /\ Len(t) \in Nat /\ Len(s) <= Len(t)
    /\ \A k \in 1 .. Len(s) : t[k] = s[k]

(* A concatenation starts with its first part. *)
LEMMA FirstPart ==
    ASSUME NEW s \in Seq(RecordUnit), NEW t \in Seq(RecordUnit)
    PROVE  StartsWith(s \o t, s)
  <1>1. Len(s) \in Nat /\ Len(t) \in Nat /\ Len(s \o t) = Len(s) + Len(t)
    BY ConcatIs
  <1> QED
    BY <1>1, ConcatIs DEF StartsWith

(* To start with is transitive. *)
LEMMA FirstPartOfFirstPart ==
    ASSUME NEW s, NEW t, NEW u, StartsWith(t, s), StartsWith(u, t)
    PROVE  StartsWith(u, s)
  BY DEF StartsWith

(* The records of an image are those of its tables, each once; the         *)
(* profiles come before the lists.                                         *)
LEMMA RecordsRange ==
    ASSUME NEW m, Proper(m)
    PROVE  /\ Records(m) \in Seq(RecordUnit) /\ IsInjective(Records(m))
           /\ Range(Records(m)) = {Record("Meta", 0, 0, m.revision, 0)}
                  \cup ProfileRecords(m) \cup PolicyRecords(m) \cup ListRecords(m)
                  \cup HistoryRecords(m) \cup AttemptRecords(m) \cup PublisherRecords(m)
                  \cup FencedRecords(m)
           /\ Len(Records(m)) = 1 + Cardinality(ProfileRecords(m)) + Cardinality(PolicyRecords(m))
                  + Cardinality(ListRecords(m)) + Cardinality(HistoryRecords(m))
                  + Cardinality(AttemptRecords(m)) + Cardinality(PublisherRecords(m))
                  + Cardinality(FencedRecords(m))
           /\ Count(Records(m), "List") = Cardinality(ListRecords(m))
           /\ Count(Records(m), "History") = Cardinality(HistoryRecords(m))
           /\ Count(Records(m), "Attempt") = Cardinality(AttemptRecords(m))
           /\ Count(Records(m), "Publisher") = Cardinality(PublisherRecords(m))
           /\ \E n \in Nat :
                 /\ \A p \in ProfileRecords(m) : \E j \in 1 .. n : j <= Len(Records(m)) /\ Records(m)[j] = p
                 /\ \A i \in 1 .. Len(Records(m)) : Records(m)[i] \in ListRecords(m) => i > n
  <1> DEFINE r == Record("Meta", 0, 0, m.revision, 0)
             s0 == <<r>>
             t1 == SetToSeq(ProfileRecords(m))
             S1 == ProfileRecords(m)
             t2 == SetToSeq(PolicyRecords(m))
             S2 == PolicyRecords(m)
             t3 == SetToSeq(ListRecords(m))
             S3 == ListRecords(m)
             t4 == SetToSeq(HistoryRecords(m))
             S4 == HistoryRecords(m)
             t5 == SetToSeq(AttemptRecords(m))
             S5 == AttemptRecords(m)
             t6 == SetToSeq(PublisherRecords(m))
             S6 == PublisherRecords(m)
             t7 == SetToSeq(FencedRecords(m))
             S7 == FencedRecords(m)
  <1>1. IsTable(s0, {r}, "Meta")
    <2>1. r \in RecordUnit /\ r.type = "Meta"
      <3>1. Record("Meta", 0, 0, m.revision, 0) \in RecordUnit
        BY TablesAre
      <3> QED
        BY <3>1, RecordIs
    <2> HIDE DEF r
    <2>2. s0 \in Seq(RecordUnit) /\ Len(s0) = 1 /\ s0[1] = r /\ DOMAIN s0 = 1 .. 1
      BY <2>1
    <2> HIDE DEF s0
    <2>3. Cardinality({r}) = 1
      BY FS_Singleton
    <2> QED
      BY <2>1, <2>2, <2>3 DEF IsTable, Range, IsInjective
  <1>2. IsTable(t1, S1, "Profile")
    <2>1. \A x \in S1 : x.type = "Profile"
      BY RecordIs DEF ProfileRecords
    <2> QED
      BY <2>1, TablesAre, TableIs
  <1>3. IsTable(t2, S2, "Policy")
    <2>1. \A x \in S2 : x.type = "Policy"
      BY RecordIs DEF PolicyRecords
    <2> QED
      BY <2>1, TablesAre, TableIs
  <1>4. IsTable(t3, S3, "List")
    <2>1. \A x \in S3 : x.type = "List"
      BY RecordIs DEF ListRecords
    <2> QED
      BY <2>1, TablesAre, TableIs
  <1>5. IsTable(t4, S4, "History")
    <2>1. \A x \in S4 : x.type = "History"
      BY RecordIs DEF HistoryRecords
    <2> QED
      BY <2>1, TablesAre, TableIs
  <1>6. IsTable(t5, S5, "Attempt")
    <2>1. \A x \in S5 : x.type = "Attempt"
      BY RecordIs DEF AttemptRecords
    <2> QED
      BY <2>1, TablesAre, TableIs
  <1>7. IsTable(t6, S6, "Publisher")
    <2>1. \A x \in S6 : x.type = "Publisher"
      BY RecordIs DEF PublisherRecords
    <2> QED
      BY <2>1, TablesAre, TableIs
  <1>8. IsTable(t7, S7, "FencedBoot")
    <2>1. \A x \in S7 : x.type = "FencedBoot"
      BY RecordIs DEF FencedRecords
    <2> QED
      BY <2>1, TablesAre, TableIs
  <1>9. Records(m) = s0 \o t1 \o t2 \o t3 \o t4 \o t5 \o t6 \o t7
    BY RecordsAre
  <1> HIDE DEF s0, t1, t2, t3, t4, t5, t6, t7, r, S1, S2, S3, S4, S5, S6, S7
  <1> DEFINE s1 == s0 \o t1
             s2 == s1 \o t2
             s3 == s2 \o t3
             s4 == s3 \o t4
             s5 == s4 \o t5
             s6 == s5 \o t6
             s7 == s6 \o t7
  <1>10. /\ s0 \in Seq(RecordUnit) /\ IsInjective(s0) /\ Range(s0) = {r} /\ Len(s0) = 1
         /\ Count(s0, "List") = 0 /\ Count(s0, "History") = 0
         /\ Count(s0, "Attempt") = 0 /\ Count(s0, "Publisher") = 0
         /\ r.type = "Meta"
    BY <1>1, IsTableCount, FS_Singleton DEF IsTable
  <1>11. /\ s1 \in Seq(RecordUnit) /\ IsInjective(s1) /\ Len(s1) = Len(s0) + Len(t1)
         /\ Range(s1) = Range(s0) \cup S1
         /\ Count(s1, "List") = 0 /\ Count(s1, "History") = 0
         /\ Count(s1, "Attempt") = 0 /\ Count(s1, "Publisher") = 0
    <2>1. \A x \in Range(s0) : x.type # "Profile"
      BY <1>1, <1>10 DEF IsTable
    <2>2. /\ s1 \in Seq(RecordUnit) /\ IsInjective(s1)
          /\ Len(s1) = Len(s0) + Len(t1) /\ Range(s1) = Range(s0) \cup S1
          /\ \A other : Count(s1, other)
                           = Count(s0, other) + (IF other = "Profile" THEN Len(t1) ELSE 0)
      <3>1. s0 \in Seq(RecordUnit) /\ IsInjective(s0)
        BY <1>10
      <3> QED
        BY <1>2, <2>1, <3>1, AppendTable
    <2> HIDE DEF s1
    <2>3. /\ Count(s1, "List") = Count(s0, "List") + 0
          /\ Count(s1, "History") = Count(s0, "History") + 0
          /\ Count(s1, "Attempt") = Count(s0, "Attempt") + 0
          /\ Count(s1, "Publisher") = Count(s0, "Publisher") + 0
      BY <2>2
    <2>4. Len(t1) \in Nat
      BY <1>2 DEF IsTable
    <2> QED
      BY <1>10, <2>2, <2>3, <2>4
  <1> HIDE DEF s1
  <1>12. /\ s2 \in Seq(RecordUnit) /\ IsInjective(s2) /\ Len(s2) = Len(s1) + Len(t2)
         /\ Range(s2) = Range(s1) \cup S2
         /\ Count(s2, "List") = 0 /\ Count(s2, "History") = 0
         /\ Count(s2, "Attempt") = 0 /\ Count(s2, "Publisher") = 0
    <2>1. \A x \in Range(s1) : x.type # "Policy"
      BY <1>1, <1>2, <1>10, <1>11 DEF IsTable
    <2>2. /\ s2 \in Seq(RecordUnit) /\ IsInjective(s2)
          /\ Len(s2) = Len(s1) + Len(t2) /\ Range(s2) = Range(s1) \cup S2
          /\ \A other : Count(s2, other)
                           = Count(s1, other) + (IF other = "Policy" THEN Len(t2) ELSE 0)
      BY <1>11, <1>3, <2>1, AppendTable
    <2> HIDE DEF s2
    <2>3. /\ Count(s2, "List") = Count(s1, "List") + 0
          /\ Count(s2, "History") = Count(s1, "History") + 0
          /\ Count(s2, "Attempt") = Count(s1, "Attempt") + 0
          /\ Count(s2, "Publisher") = Count(s1, "Publisher") + 0
      BY <2>2
    <2>4. Len(t1) \in Nat /\ Len(t2) \in Nat
      BY <1>2, <1>3 DEF IsTable
    <2> QED
      BY <1>11, <2>2, <2>3, <2>4
  <1> HIDE DEF s2
  <1>13. /\ s3 \in Seq(RecordUnit) /\ IsInjective(s3) /\ Len(s3) = Len(s2) + Len(t3)
         /\ Range(s3) = Range(s2) \cup S3
         /\ Count(s3, "List") = Len(t3) /\ Count(s3, "History") = 0
         /\ Count(s3, "Attempt") = 0 /\ Count(s3, "Publisher") = 0
    <2>1. \A x \in Range(s2) : x.type # "List"
      BY <1>1, <1>2, <1>3, <1>10, <1>11, <1>12 DEF IsTable
    <2>2. /\ s3 \in Seq(RecordUnit) /\ IsInjective(s3)
          /\ Len(s3) = Len(s2) + Len(t3) /\ Range(s3) = Range(s2) \cup S3
          /\ \A other : Count(s3, other)
                           = Count(s2, other) + (IF other = "List" THEN Len(t3) ELSE 0)
      BY <1>12, <1>4, <2>1, AppendTable
    <2> HIDE DEF s3
    <2>3. /\ Count(s3, "List") = Count(s2, "List") + Len(t3)
          /\ Count(s3, "History") = Count(s2, "History") + 0
          /\ Count(s3, "Attempt") = Count(s2, "Attempt") + 0
          /\ Count(s3, "Publisher") = Count(s2, "Publisher") + 0
      BY <2>2
    <2>4. Len(t1) \in Nat /\ Len(t2) \in Nat /\ Len(t3) \in Nat
      BY <1>2, <1>3, <1>4 DEF IsTable
    <2> QED
      BY <1>12, <2>2, <2>3, <2>4
  <1> HIDE DEF s3
  <1>14. /\ s4 \in Seq(RecordUnit) /\ IsInjective(s4) /\ Len(s4) = Len(s3) + Len(t4)
         /\ Range(s4) = Range(s3) \cup S4
         /\ Count(s4, "List") = Len(t3) /\ Count(s4, "History") = Len(t4)
         /\ Count(s4, "Attempt") = 0 /\ Count(s4, "Publisher") = 0
    <2>1. \A x \in Range(s3) : x.type # "History"
      BY <1>1, <1>2, <1>3, <1>4, <1>10, <1>11, <1>12, <1>13 DEF IsTable
    <2>2. /\ s4 \in Seq(RecordUnit) /\ IsInjective(s4)
          /\ Len(s4) = Len(s3) + Len(t4) /\ Range(s4) = Range(s3) \cup S4
          /\ \A other : Count(s4, other)
                           = Count(s3, other) + (IF other = "History" THEN Len(t4) ELSE 0)
      BY <1>13, <1>5, <2>1, AppendTable
    <2> HIDE DEF s4
    <2>3. /\ Count(s4, "List") = Count(s3, "List") + 0
          /\ Count(s4, "History") = Count(s3, "History") + Len(t4)
          /\ Count(s4, "Attempt") = Count(s3, "Attempt") + 0
          /\ Count(s4, "Publisher") = Count(s3, "Publisher") + 0
      BY <2>2
    <2>4. Len(t1) \in Nat /\ Len(t2) \in Nat /\ Len(t3) \in Nat /\ Len(t4) \in Nat
      BY <1>2, <1>3, <1>4, <1>5 DEF IsTable
    <2> QED
      BY <1>13, <2>2, <2>3, <2>4
  <1> HIDE DEF s4
  <1>15. /\ s5 \in Seq(RecordUnit) /\ IsInjective(s5) /\ Len(s5) = Len(s4) + Len(t5)
         /\ Range(s5) = Range(s4) \cup S5
         /\ Count(s5, "List") = Len(t3) /\ Count(s5, "History") = Len(t4)
         /\ Count(s5, "Attempt") = Len(t5) /\ Count(s5, "Publisher") = 0
    <2>1. \A x \in Range(s4) : x.type # "Attempt"
      BY <1>1, <1>2, <1>3, <1>4, <1>5, <1>10, <1>11, <1>12, <1>13, <1>14 DEF IsTable
    <2>2. /\ s5 \in Seq(RecordUnit) /\ IsInjective(s5)
          /\ Len(s5) = Len(s4) + Len(t5) /\ Range(s5) = Range(s4) \cup S5
          /\ \A other : Count(s5, other)
                           = Count(s4, other) + (IF other = "Attempt" THEN Len(t5) ELSE 0)
      BY <1>14, <1>6, <2>1, AppendTable
    <2> HIDE DEF s5
    <2>3. /\ Count(s5, "List") = Count(s4, "List") + 0
          /\ Count(s5, "History") = Count(s4, "History") + 0
          /\ Count(s5, "Attempt") = Count(s4, "Attempt") + Len(t5)
          /\ Count(s5, "Publisher") = Count(s4, "Publisher") + 0
      BY <2>2
    <2>4. Len(t1) \in Nat /\ Len(t2) \in Nat /\ Len(t3) \in Nat /\ Len(t4) \in Nat /\ Len(t5) \in Nat
      BY <1>2, <1>3, <1>4, <1>5, <1>6 DEF IsTable
    <2> QED
      BY <1>14, <2>2, <2>3, <2>4
  <1> HIDE DEF s5
  <1>16. /\ s6 \in Seq(RecordUnit) /\ IsInjective(s6) /\ Len(s6) = Len(s5) + Len(t6)
         /\ Range(s6) = Range(s5) \cup S6
         /\ Count(s6, "List") = Len(t3) /\ Count(s6, "History") = Len(t4)
         /\ Count(s6, "Attempt") = Len(t5) /\ Count(s6, "Publisher") = Len(t6)
    <2>1. \A x \in Range(s5) : x.type # "Publisher"
      BY <1>1, <1>2, <1>3, <1>4, <1>5, <1>6, <1>10, <1>11, <1>12, <1>13, <1>14, <1>15 DEF IsTable
    <2>2. /\ s6 \in Seq(RecordUnit) /\ IsInjective(s6)
          /\ Len(s6) = Len(s5) + Len(t6) /\ Range(s6) = Range(s5) \cup S6
          /\ \A other : Count(s6, other)
                           = Count(s5, other) + (IF other = "Publisher" THEN Len(t6) ELSE 0)
      BY <1>15, <1>7, <2>1, AppendTable
    <2> HIDE DEF s6
    <2>3. /\ Count(s6, "List") = Count(s5, "List") + 0
          /\ Count(s6, "History") = Count(s5, "History") + 0
          /\ Count(s6, "Attempt") = Count(s5, "Attempt") + 0
          /\ Count(s6, "Publisher") = Count(s5, "Publisher") + Len(t6)
      BY <2>2
    <2>4. Len(t1) \in Nat /\ Len(t2) \in Nat /\ Len(t3) \in Nat /\ Len(t4) \in Nat /\ Len(t5) \in Nat /\ Len(t6) \in Nat
      BY <1>2, <1>3, <1>4, <1>5, <1>6, <1>7 DEF IsTable
    <2> QED
      BY <1>15, <2>2, <2>3, <2>4
  <1> HIDE DEF s6
  <1>17. /\ s7 \in Seq(RecordUnit) /\ IsInjective(s7) /\ Len(s7) = Len(s6) + Len(t7)
         /\ Range(s7) = Range(s6) \cup S7
         /\ Count(s7, "List") = Len(t3) /\ Count(s7, "History") = Len(t4)
         /\ Count(s7, "Attempt") = Len(t5) /\ Count(s7, "Publisher") = Len(t6)
    <2>1. \A x \in Range(s6) : x.type # "FencedBoot"
      BY <1>1, <1>2, <1>3, <1>4, <1>5, <1>6, <1>7, <1>10, <1>11, <1>12, <1>13, <1>14, <1>15, <1>16 DEF IsTable
    <2>2. /\ s7 \in Seq(RecordUnit) /\ IsInjective(s7)
          /\ Len(s7) = Len(s6) + Len(t7) /\ Range(s7) = Range(s6) \cup S7
          /\ \A other : Count(s7, other)
                           = Count(s6, other) + (IF other = "FencedBoot" THEN Len(t7) ELSE 0)
      BY <1>16, <1>8, <2>1, AppendTable
    <2> HIDE DEF s7
    <2>3. /\ Count(s7, "List") = Count(s6, "List") + 0
          /\ Count(s7, "History") = Count(s6, "History") + 0
          /\ Count(s7, "Attempt") = Count(s6, "Attempt") + 0
          /\ Count(s7, "Publisher") = Count(s6, "Publisher") + 0
      BY <2>2
    <2>4. Len(t1) \in Nat /\ Len(t2) \in Nat /\ Len(t3) \in Nat /\ Len(t4) \in Nat /\ Len(t5) \in Nat /\ Len(t6) \in Nat /\ Len(t7) \in Nat
      BY <1>2, <1>3, <1>4, <1>5, <1>6, <1>7, <1>8 DEF IsTable
    <2> QED
      BY <1>16, <2>2, <2>3, <2>4
  <1> HIDE DEF s7
  <1>18. Records(m) = s7
    BY <1>9 DEF s1, s2, s3, s4, s5, s6, s7
  <1>19. Range(s7) = {r} \cup S1 \cup S2 \cup S3 \cup S4 \cup S5 \cup S6 \cup S7
    BY <1>10, <1>11, <1>12, <1>13, <1>14, <1>15, <1>16, <1>17
  <1>20. /\ Len(t1) = Cardinality(S1) /\ Len(t2) = Cardinality(S2) /\ Len(t3) = Cardinality(S3)
         /\ Len(t4) = Cardinality(S4) /\ Len(t5) = Cardinality(S5) /\ Len(t6) = Cardinality(S6)
         /\ Len(t7) = Cardinality(S7)
    BY <1>2, <1>3, <1>4, <1>5, <1>6, <1>7, <1>8 DEF IsTable
  <1>21. Len(s7) = 1 + Len(t1) + Len(t2) + Len(t3) + Len(t4) + Len(t5) + Len(t6) + Len(t7)
    BY <1>10, <1>11, <1>12, <1>13, <1>14, <1>15, <1>16, <1>17
  <1>22. \E n \in Nat : /\ \A p \in S1 : \E j \in 1 .. n : j <= Len(s7) /\ s7[j] = p
                        /\ \A i \in 1 .. Len(s7) : s7[i] \in S3 => i > n
    <2>1. s1 \in Seq(RecordUnit) /\ Len(s1) \in Nat /\ s7 \in Seq(RecordUnit)
      BY <1>11, <1>17
    <2>2. StartsWith(s7, s1)
      <3>1. /\ t2 \in Seq(RecordUnit) /\ t3 \in Seq(RecordUnit) /\ t4 \in Seq(RecordUnit)
            /\ t5 \in Seq(RecordUnit) /\ t6 \in Seq(RecordUnit) /\ t7 \in Seq(RecordUnit)
        BY <1>3, <1>4, <1>5, <1>6, <1>7, <1>8 DEF IsTable
      <3>2. StartsWith(s2, s1)
        BY <1>11, <1>12, <3>1, FirstPart DEF s2
      <3>3. StartsWith(s3, s2)
        BY <1>12, <1>13, <3>1, FirstPart DEF s3
      <3>4. StartsWith(s4, s3)
        BY <1>13, <1>14, <3>1, FirstPart DEF s4
      <3>5. StartsWith(s5, s4)
        BY <1>14, <1>15, <3>1, FirstPart DEF s5
      <3>6. StartsWith(s6, s5)
        BY <1>15, <1>16, <3>1, FirstPart DEF s6
      <3>7. StartsWith(s7, s6)
        BY <1>16, <1>17, <3>1, FirstPart DEF s7
      <3> QED
        BY <3>2, <3>3, <3>4, <3>5, <3>6, <3>7, FirstPartOfFirstPart
    <2>3. ASSUME NEW p \in S1 PROVE \E j \in 1 .. Len(s1) : j <= Len(s7) /\ s7[j] = p
      <3>1. PICK j \in 1 .. Len(s1) : s1[j] = p
        BY <1>11, <2>1 DEF Range
      <3> QED
        BY <2>1, <2>2, <3>1 DEF StartsWith
    <2>4. ASSUME NEW i \in 1 .. Len(s7), s7[i] \in S3 PROVE i > Len(s1)
      <3> SUFFICES ASSUME ~ (i > Len(s1)) PROVE FALSE
        OBVIOUS
      <3>1. i \in 1 .. Len(s1) /\ s1[i] \in S3
        BY <2>1, <2>2, <2>4 DEF StartsWith
      <3>2. s1[i] \in {r} \cup S1
        BY <1>10, <1>11, <2>1, <3>1 DEF Range
      <3> QED
        BY <1>2, <1>4, <1>10, <3>1, <3>2 DEF IsTable
    <2> QED
      BY <2>1, <2>3, <2>4
  <1> QED
    BY <1>17, <1>18, <1>19, <1>20, <1>21, <1>22 DEF r, S1, S2, S3, S4, S5, S6, S7

(* What is between the first unit and the last of a file. *)
LEMMA SubSeqIs ==
    ASSUME NEW T, NEW s \in Seq(T), NEW n \in Nat
    PROVE  SubSeq(s, 2, n + 1) = [k \in 1 .. n |-> s[k + 1]]
  OBVIOUS

(* A file is its header, its records and its trailer. *)
IsFramed(f, h, r, t) ==
    /\ f \in Seq(Unit) /\ Len(f) = Len(r) + 2
    /\ f[1] = h /\ f[Len(f)] = t
    /\ \A k \in 1 .. Len(r) : f[k + 1] = r[k]
    /\ RecordsOf(f) = r

(* What encode_durable_state puts together is framed. *)
LEMMA Framed ==
    ASSUME NEW r \in Seq(RecordUnit), NEW h \in Unit, NEW t \in Unit
    PROVE  IsFramed(<<h>> \o r \o <<t>>, h, r, t)
  <1> DEFINE f == <<h>> \o r \o <<t>>
  <1>1. r \in Seq(Unit) /\ Len(r) \in Nat
    BY SeqSubset DEF Unit
  <1> DEFINE g == <<h>> \o r
  <1>2. <<h>> \in Seq(Unit) /\ Len(<<h>>) = 1 /\ <<h>>[1] = h
    OBVIOUS
  <1>3. <<t>> \in Seq(Unit) /\ Len(<<t>>) = 1 /\ <<t>>[1] = t
    OBVIOUS
  <1>4. /\ g \in Seq(Unit) /\ Len(g) = 1 + Len(r) /\ g[1] = h
        /\ \A k \in 1 .. Len(r) : g[k + 1] = r[k]
    BY <1>1, <1>2, ConcatIs
  <1> HIDE DEF g
  <1>5. /\ f = g \o <<t>> /\ f \in Seq(Unit) /\ Len(f) = Len(g) + 1
        /\ \A k \in 1 .. Len(g) : f[k] = g[k]
    BY <1>3, <1>4, ConcatIs DEF g
  <1>6. f[Len(g) + 1] = t
    BY <1>3, <1>4, <1>5, ConcatIs
  <1> HIDE DEF f
  <1>7. /\ Len(f) = Len(r) + 2 /\ f[1] = h /\ f[Len(f)] = t
        /\ \A k \in 1 .. Len(r) : f[k + 1] = r[k]
    BY <1>1, <1>4, <1>5, <1>6
  <1>8. RecordsOf(f) = r
    <2>1. RecordsOf(f) = [k \in 1 .. Len(r) |-> f[k + 1]]
      <3>1. Len(f) - 1 = Len(r) + 1
        BY <1>1, <1>7
      <3>2. SubSeq(f, 2, Len(r) + 1) = [k \in 1 .. Len(r) |-> f[k + 1]]
        <4>1. f \in Seq(Unit) /\ Len(r) \in Nat
          BY <1>1, <1>5
        <4> QED
          BY <4>1, SubSeqIs, Zenon
      <3> QED
        BY <3>1, <3>2 DEF RecordsOf
    <2>2. r = [k \in 1 .. Len(r) |-> r[k]]
      BY <1>1
    <2> QED
      BY <1>7, <2>1, <2>2
  <1> QED
    BY <1>5, <1>7, <1>8 DEF IsFramed, f

(* What the file of an image looks like; it is never taken for no file. *)
LEMMA EncodeIs ==
    ASSUME NEW m, Proper(m)
    PROVE  /\ Encode(m) \in Seq(Unit) /\ Encode(m) # NoFile
           /\ Len(Encode(m)) = Len(Records(m)) + 2
           /\ Encode(m)[1] = Header(Records(m))
           /\ Encode(m)[Len(Encode(m))] = Trailer(Records(m))
           /\ \A k \in 1 .. Len(Records(m)) : Encode(m)[k + 1] = Records(m)[k]
           /\ RecordsOf(Encode(m)) = Records(m)
  <1>1. Records(m) \in Seq(RecordUnit)
    BY RecordsRange
  <1> DEFINE r == Records(m)
  <1> HIDE DEF r
  <1>2. r \in Seq(RecordUnit) /\ Len(r) \in Nat
    BY <1>1 DEF r
  <1>3. Header(r) \in Unit
    BY <1>2 DEF Header, Unit
  <1>4. Trailer(r) \in Unit
    BY <1>2 DEF Trailer, Unit
  <1>5. Encode(m) = <<Header(r)>> \o r \o <<Trailer(r)>>
    BY DEF r, Encode
  <1>6. IsFramed(Encode(m), Header(r), r, Trailer(r))
    BY <1>2, <1>3, <1>4, <1>5, Framed
  <1> QED
    BY <1>6, NoFileAssumption DEF IsFramed, r

(* The record with an identity, where only one has it. *)
LEMMA TheRecord ==
    ASSUME NEW S, NEW r \in S, \A q \in S : q.id = r.id => q = r
    PROVE  /\ r.id \in {q.id : q \in S}
           /\ (CHOOSE q \in S : q.id = r.id) = r
  <1>1. \E q \in S : q.id = r.id
    OBVIOUS
  <1> QED
    BY <1>1

(* Decoding the file of an image gives the image: every table comes back   *)
(* with the values, references and digests it had.                         *)
LEMMA DecodesToItself ==
    ASSUME NEW m, Proper(m)
    PROVE  Decoded(Encode(m)) = m
  <1> DEFINE recs == Records(m)
             of(type) == {recs[i] : i \in {j \in 1 .. Len(recs) : recs[j].type = type}}
  <1>1. recs \in Seq(RecordUnit) /\ RecordsOf(Encode(m)) = recs /\ Count(recs, "History") = m.history
    BY RecordsRange, TablesAre, EncodeIs
  <1>2. ASSUME NEW type PROVE of(type) = {r \in Range(recs) : r.type = type}
    BY <1>1 DEF Range
  <1> HIDE DEF recs
  <1>3. Range(recs) = {Record("Meta", 0, 0, m.revision, 0)}
                  \cup ProfileRecords(m) \cup PolicyRecords(m) \cup ListRecords(m)
                  \cup HistoryRecords(m) \cup AttemptRecords(m) \cup PublisherRecords(m)
                  \cup FencedRecords(m)
    BY RecordsRange DEF recs
  <1> HIDE DEF of
  <1>4. of("Meta") = {Record("Meta", 0, 0, m.revision, 0)}
    BY <1>2, <1>3 DEF Record, ProfileRecords, PolicyRecords, ListRecords, HistoryRecords,
           AttemptRecords, PublisherRecords, FencedRecords
  <1>5. of("Profile") = ProfileRecords(m)
    BY <1>2, <1>3 DEF Record, ProfileRecords, PolicyRecords, ListRecords, HistoryRecords,
           AttemptRecords, PublisherRecords, FencedRecords
  <1>6. of("Policy") = PolicyRecords(m)
    BY <1>2, <1>3 DEF Record, ProfileRecords, PolicyRecords, ListRecords, HistoryRecords,
           AttemptRecords, PublisherRecords, FencedRecords
  <1>7. of("List") = ListRecords(m)
    BY <1>2, <1>3 DEF Record, ProfileRecords, PolicyRecords, ListRecords, HistoryRecords,
           AttemptRecords, PublisherRecords, FencedRecords
  <1>8. of("Attempt") = AttemptRecords(m)
    BY <1>2, <1>3 DEF Record, ProfileRecords, PolicyRecords, ListRecords, HistoryRecords,
           AttemptRecords, PublisherRecords, FencedRecords
  <1>9. of("Publisher") = PublisherRecords(m)
    BY <1>2, <1>3 DEF Record, ProfileRecords, PolicyRecords, ListRecords, HistoryRecords,
           AttemptRecords, PublisherRecords, FencedRecords
  <1>10. of("FencedBoot") = FencedRecords(m)
    BY <1>2, <1>3 DEF Record, ProfileRecords, PolicyRecords, ListRecords, HistoryRecords,
           AttemptRecords, PublisherRecords, FencedRecords
  <1> DEFINE ids(type) == {r.id : r \in of(type)}
             value(type, x) == IF x \in ids(type) THEN (CHOOSE r \in of(type) : r.id = x).val ELSE 0
  <1>11. value("Meta", 0) = m.revision
    <2> DEFINE r == Record("Meta", 0, 0, m.revision, 0)
    <2>1. r.id = 0 /\ r.val = m.revision
      BY RecordIs
    <2> HIDE DEF r
    <2>2. of("Meta") = {r}
      BY <1>4 DEF r
    <2> QED
      BY <2>1, <2>2, TheRecord
  <1>12. ASSUME NEW p \in Profiles PROVE value("Profile", p) = m.profiles[p]
    <2>1. \A q \in ProfileRecords(m) : q.id \in Profiles /\ m.profiles[q.id] # 0
              /\ q = Record("Profile", q.id, 0, m.profiles[q.id], 0)
      BY RecordIs DEF ProfileRecords
    <2>2. CASE m.profiles[p] = 0
      BY <1>5, <2>1, <2>2
    <2>3. CASE m.profiles[p] # 0
      <3> DEFINE r == Record("Profile", p, 0, m.profiles[p], 0)
      <3>1. r \in ProfileRecords(m) /\ r.id = p /\ r.val = m.profiles[p]
        BY <2>3, RecordIs DEF ProfileRecords
      <3>2. \A q \in ProfileRecords(m) : q.id = r.id => q = r
        BY <2>1, <3>1
      <3> HIDE DEF r
      <3> QED
        BY <1>5, <3>1, <3>2, TheRecord
    <2> QED
      BY <2>2, <2>3
  <1>13. ASSUME NEW p \in Policies PROVE value("Policy", p) = m.policies[p]
    <2>1. \A q \in PolicyRecords(m) : q.id \in Policies /\ m.policies[q.id] # 0
              /\ q = Record("Policy", q.id, 0, m.policies[q.id], 0)
      BY RecordIs DEF PolicyRecords
    <2>2. CASE m.policies[p] = 0
      BY <1>6, <2>1, <2>2
    <2>3. CASE m.policies[p] # 0
      <3> DEFINE r == Record("Policy", p, 0, m.policies[p], 0)
      <3>1. r \in PolicyRecords(m) /\ r.id = p /\ r.val = m.policies[p]
        BY <2>3, RecordIs DEF PolicyRecords
      <3>2. \A q \in PolicyRecords(m) : q.id = r.id => q = r
        BY <2>1, <3>1
      <3> HIDE DEF r
      <3> QED
        BY <1>6, <3>1, <3>2, TheRecord
    <2> QED
      BY <2>2, <2>3
  <1> DEFINE list(l) == IF l \in ids("List")
                        THEN LET r == CHOOSE r \in of("List") : r.id = l
                             IN  [profile |-> r.ref, digest |-> r.digest]
                        ELSE NoList
  <1>14. ASSUME NEW l \in Lists PROVE list(l) = m.lists[l]
    <2>1. m.lists[l] = [profile |-> m.lists[l].profile, digest |-> m.lists[l].digest]
      BY DEF Proper, Image
    <2>2. CASE m.lists[l] = NoList
      BY <1>7, <2>2 DEF Record, ListRecords
    <2>3. CASE m.lists[l] # NoList
      <3> DEFINE rec(x) == Record("List", x, m.lists[x].profile, m.profiles[m.lists[x].profile],
                                  m.lists[x].digest)
                 r == rec(l)
      <3>1. /\ r \in ListRecords(m) /\ r.id = l
            /\ r.ref = m.lists[l].profile /\ r.digest = m.lists[l].digest
        BY <2>3, RecordIs DEF ListRecords
      <3>2. \A q \in ListRecords(m) : q.id = l => q = rec(l)
        BY RecordIs DEF ListRecords
      <3> HIDE DEF r
      <3>3. \A q \in ListRecords(m) : q.id = r.id => q = r
        BY <3>1, <3>2 DEF r
      <3>4. l \in ids("List") /\ (CHOOSE q \in of("List") : q.id = l) = r
        BY <1>7, <3>1, <3>3, TheRecord
      <3> QED
        BY <2>1, <3>1, <3>4
    <2> QED
      BY <2>2, <2>3
  <1>15. {r.id : r \in {x \in of("Attempt") : x.val = 1}} = m.attempts
    <2>1. \A x \in AttemptRecords(m) : x.val = 1 /\ x.id \in m.attempts
      BY RecordIs DEF AttemptRecords
    <2>2. ASSUME NEW a \in m.attempts PROVE \E x \in AttemptRecords(m) : x.id = a
      <3> DEFINE r == Record("Attempt", a, 0, 1, 0)
      <3>1. r \in AttemptRecords(m) /\ r.id = a
        BY RecordIs DEF AttemptRecords
      <3> QED
        BY <3>1
    <2> QED
      BY <1>8, <2>1, <2>2
  <1>16. ids("Publisher") = m.publishers
    <2>1. \A x \in PublisherRecords(m) : x.id \in m.publishers
      BY RecordIs DEF PublisherRecords
    <2>2. \A b \in m.publishers : \E x \in PublisherRecords(m) : x.id = b
      BY RecordIs DEF PublisherRecords
    <2> QED
      BY <1>9, <2>1, <2>2
  <1>17. ids("FencedBoot") = m.fenced
    <2>1. \A x \in FencedRecords(m) : x.id \in m.fenced
      BY RecordIs DEF FencedRecords
    <2>2. \A b \in m.fenced : \E x \in FencedRecords(m) : x.id = b
      BY RecordIs DEF FencedRecords
    <2> QED
      BY <1>10, <2>1, <2>2
  <1>18. Decoded(Encode(m)) =
            [revision |-> value("Meta", 0),
             profiles |-> [p \in Profiles |-> value("Profile", p)],
             policies |-> [p \in Policies |-> value("Policy", p)],
             lists |-> [l \in Lists |-> list(l)],
             history |-> Count(recs, "History"),
             attempts |-> {r.id : r \in {x \in of("Attempt") : x.val = 1}},
             publishers |-> ids("Publisher"), fenced |-> ids("FencedBoot")]
    BY <1>1 DEF Decoded, of
  <1> HIDE DEF value, list, ids
  <1>19. m = [revision |-> m.revision, profiles |-> [p \in Profiles |-> m.profiles[p]],
              policies |-> [p \in Policies |-> m.policies[p]],
              lists |-> [l \in Lists |-> m.lists[l]], history |-> m.history,
              attempts |-> m.attempts, publishers |-> m.publishers, fenced |-> m.fenced]
    BY DEF Proper, Image
  <1> QED
    BY <1>1, <1>11, <1>12, <1>13, <1>14, <1>15, <1>16, <1>17, <1>18, <1>19
--------------------------------------------------------------------------------
(* Damaged files. *)

(* A file that lost its end is refused. *)
LEMMA TornIsRefused ==
    ASSUME NEW f, Torn(f)
    PROVE  ~ FrameOk(f)
  BY DEF Torn, FrameOk

(* A file with a zeroed record is refused: its trailer does not fit. *)
LEMMA ZeroedIsRefused ==
    ASSUME NEW f \in Seq(Unit), NEW recs \in Seq(RecordUnit), Zeroed(f, recs)
    PROVE  ~ FrameOk(f)
  <1> SUFFICES ASSUME FrameOk(f) PROVE FALSE
    OBVIOUS
  <1>1. Len(recs) \in Nat /\ Len(f) = Len(recs) + 2 /\ f[Len(f)] = Trailer(recs)
    BY DEF Zeroed
  <1>2. f[Len(f)] = Trailer(RecordsOf(f))
    BY DEF FrameOk
  <1>3. RecordsOf(f) = recs
    BY <1>1, <1>2 DEF Trailer
  <1>4. RecordsOf(f) = [k \in 1 .. Len(recs) |-> f[k + 1]]
    <2>1. Len(f) - 1 = Len(recs) + 1
      BY <1>1
    <2>2. SubSeq(f, 2, Len(recs) + 1) = [k \in 1 .. Len(recs) |-> f[k + 1]]
      BY <1>1, SubSeqIs, Zenon
    <2> QED
      BY <2>1, <2>2 DEF RecordsOf
  <1>5. PICK i \in 1 .. Len(recs) :
            f[i + 1].val = 0 /\ f[i + 1].digest = 0 /\ ~ (recs[i].val = 0 /\ recs[i].digest = 0)
    BY DEF Zeroed
  <1>6. recs[i] = f[i + 1]
    BY <1>3, <1>4
  <1> QED
    BY <1>5, <1>6
--------------------------------------------------------------------------------
(* Images. *)

(* The image of an empty store. *)
LEMMA EmptyIsProper == Proper(EmptyImage)
  <1>1. {0, MaxRevision, MaxHistory} \subseteq Nat
    BY StateFileAssumption
  <1>2. EmptyImage \in Image
    BY <1>1 DEF EmptyImage, Image, NoList
  <1> QED
    BY <1>2 DEF Proper, EmptyImage

(* The fields of an image. *)
LEMMA ProperIs ==
    ASSUME NEW m, Proper(m)
    PROVE  /\ m = [revision |-> m.revision, profiles |-> m.profiles, policies |-> m.policies,
                   lists |-> m.lists, history |-> m.history, attempts |-> m.attempts,
                   publishers |-> m.publishers, fenced |-> m.fenced]
           /\ m.revision \in 0 .. MaxRevision /\ m.history \in 0 .. MaxHistory
           /\ m.profiles \in [Profiles -> Widths \cup {0}]
           /\ m.policies \in [Policies -> Refs \cup {0}]
           /\ m.lists \in [Lists -> [profile : Profiles \cup {0}, digest : Widths \cup {0}]]
           /\ m.attempts \in SUBSET Attempts
           /\ m.publishers \in SUBSET Boots /\ m.fenced \in SUBSET Boots
           /\ \A l \in Lists : m.lists[l] # NoList => m.lists[l].profile \in Profiles
           /\ MaxRevision \in Nat /\ MaxHistory \in Nat
  BY StateFileAssumption DEF Proper, Image

(* The registry before the save, and the revision that counts up after it. *)
LEMMA CountedIsProper ==
    ASSUME NEW m, Proper(m), m.revision < MaxRevision
    PROVE  Proper([m EXCEPT !.revision = @ + 1])
  BY ProperIs DEF Proper, Image

(* register_profile *)
LEMMA ProfileIsProper ==
    ASSUME NEW m, Proper(m), NEW p \in Profiles, NEW w \in Widths
    PROVE  Proper([m EXCEPT !.profiles[p] = w])
  BY ProperIs DEF Proper, Image

(* register_policy *)
LEMMA PolicyIsProper ==
    ASSUME NEW m, Proper(m), NEW p \in Policies, NEW n \in Refs
    PROVE  Proper([m EXCEPT !.policies[p] = n])
  BY ProperIs DEF Proper, Image

(* register_publisher *)
LEMMA PublisherIsProper ==
    ASSUME NEW m, Proper(m), NEW b \in Boots
    PROVE  Proper([m EXCEPT !.publishers = @ \cup {b}])
  BY ProperIs DEF Proper, Image

(* mark_dead *)
LEMMA FencedIsProper ==
    ASSUME NEW m, Proper(m), NEW b \in Boots
    PROVE  Proper([m EXCEPT !.fenced = @ \cup {b}])
  BY ProperIs DEF Proper, Image

(* What a commit replaces. *)
LEMMA CommitFields ==
    ASSUME NEW m, Proper(m), NEW l \in Lists, NEW v \in 0 .. MaxRevision, NEW h \in 0 .. MaxHistory,
           NEW list \in [profile : Profiles, digest : Widths \cup {0}],
           NEW as \in SUBSET Attempts
    PROVE  Proper([m EXCEPT !.revision = v, !.lists[l] = list, !.history = h, !.attempts = as])
  <1>1. list.profile \in Profiles
    OBVIOUS
  <1> DEFINE e1 == [m EXCEPT !.revision = v]
             e2 == [e1 EXCEPT !.lists[l] = list]
             e3 == [e2 EXCEPT !.history = h]
             e4 == [e3 EXCEPT !.attempts = as]
  <1>2. [m EXCEPT !.revision = v, !.lists[l] = list, !.history = h, !.attempts = as] = e4
    OBVIOUS
  <1>3. Proper(e1)
    BY ProperIs DEF Proper, Image
  <1> HIDE DEF e1
  <1>4. Proper(e2)
    BY <1>1, <1>3, ProperIs DEF Proper, Image
  <1> HIDE DEF e2
  <1>5. Proper(e3)
    BY <1>4, ProperIs DEF Proper, Image
  <1> HIDE DEF e3
  <1>6. Proper(e4)
    BY <1>5, ProperIs DEF Proper, Image
  <1> QED
    BY <1>2, <1>6

(* A commit. *)
LEMMA CommitIsProper ==
    ASSUME NEW m, Proper(m), m.revision < MaxRevision, NEW l \in Lists, NEW p \in Profiles,
           NEW a \in Attempts
    PROVE  Proper([m EXCEPT !.revision = @ + 1,
                            !.lists[l] = [profile |-> p, digest |-> m.profiles[p]],
                            !.history = IF @ < MaxHistory THEN @ + 1 ELSE @,
                            !.attempts = @ \cup {a}])
  <1> DEFINE list == [profile |-> p, digest |-> m.profiles[p]]
             h == IF m.history < MaxHistory THEN m.history + 1 ELSE m.history
  <1>1. m.revision + 1 \in 0 .. MaxRevision /\ h \in 0 .. MaxHistory
    BY ProperIs
  <1>2. list \in [profile : Profiles, digest : Widths \cup {0}] /\ m.attempts \cup {a} \in SUBSET Attempts
    BY ProperIs
  <1> HIDE DEF list, h
  <1>3. Proper([m EXCEPT !.revision = m.revision + 1, !.lists[l] = list, !.history = h,
                         !.attempts = m.attempts \cup {a}])
    BY <1>1, <1>2, CommitFields
  <1> QED
    BY <1>3 DEF list, h
--------------------------------------------------------------------------------
(* The steps. *)

(* The empty directory before the first start. *)
LEMMA StateInit ==
    ASSUME Init
    PROVE  StateInv
  <1>1. ImagesInv
    BY EmptyIsProper DEF Init, ImagesInv
  <1>2. SaveInv
    BY DEF Init, SaveInv
  <1>3. FileInv
    BY DEF Init, FileInv, Holds
  <1>4. DamageInv
    BY DEF Init, DamageInv
  <1> QED
    BY <1>1, <1>2, <1>3, <1>4 DEF StateInv

(* A call that saves leaves the file alone. *)
LEMMA BeginStep ==
    ASSUME StateInv, NEW now, NEW next, NEW then, Proper(now), Proper(next), Proper(then),
           BeginSave(now, next, then)
    PROVE  StateInv'
  <1>1. ImagesInv'
    BY DEF StateInv, ImagesInv, BeginSave
  <1>2. SaveInv'
    BY DEF StateInv, SaveInv, BeginSave, Holds
  <1>3. FileInv'
    BY DEF StateInv, SaveInv, FileInv, BeginSave, Holds
  <1>4. DamageInv'
    BY DEF StateInv, DamageInv, BeginSave
  <1> QED
    BY <1>1, <1>2, <1>3, <1>4 DEF StateInv

(* A save that fails leaves the file with what was acknowledged. *)
LEMMA FailStep ==
    ASSUME StateInv, pc \in {"encode", "open", "write", "rename"}, SaveFails
    PROVE  StateInv'
  <1>1. ImagesInv'
    BY EmptyIsProper DEF StateInv, ImagesInv, SaveFails
  <1>2. SaveInv'
    BY DEF StateInv, SaveInv, SaveFails, Holds
  <1>3. FileInv'
    BY DEF StateInv, SaveInv, FileInv, SaveFails, Holds
  <1>4. DamageInv'
    BY DEF StateInv, SaveInv, DamageInv, SaveFails
  <1> QED
    BY <1>1, <1>2, <1>3, <1>4 DEF StateInv

(* The steps of a save before the rename. *)
LEMMA TempStep ==
    ASSUME StateInv, pc \in {"encode", "open", "write"}, pc' \in {"open", "write", "rename"},
           pc' = "rename" => temp' = Encode(saving),
           UNCHANGED <<phase, memory, saving, after, file, candidates, acked, damaged>>
    PROVE  StateInv'
  <1>1. ImagesInv'
    BY DEF StateInv, ImagesInv
  <1>2. SaveInv'
    BY DEF StateInv, SaveInv, Holds
  <1>3. FileInv'
    BY DEF StateInv, FileInv, Holds
  <1>4. DamageInv'
    BY DEF StateInv, DamageInv
  <1> QED
    BY <1>1, <1>2, <1>3, <1>4 DEF StateInv

(* The rename replaces the file as a whole, or not at all. *)
LEMMA RenameStep ==
    ASSUME StateInv, Rename
    PROVE  StateInv'
  <1>1. CASE SaveFails
    BY <1>1, FailStep DEF Rename
  <1>2. CASE /\ file' = temp /\ pc' = "renamed"
             /\ UNCHANGED <<phase, memory, saving, after, candidates, acked, damaged>>
    <2>1. Proper(saving) /\ temp = Encode(saving) /\ phase = "up" /\ ~ damaged
      BY DEF StateInv, ImagesInv, SaveInv, DamageInv, Rename
    <2>2. file' = Encode(saving) /\ file' # NoFile
      BY <1>2, <2>1, EncodeIs
    <2>3. ImagesInv'
      BY <1>2 DEF StateInv, ImagesInv
    <2>4. SaveInv'
      BY <1>2, <2>2 DEF StateInv, SaveInv, Rename
    <2>5. FileInv'
      <3>1. saving \in candidates
        BY <2>1 DEF StateInv, SaveInv, Rename
      <3> QED
        BY <1>2, <2>1, <2>2, <3>1 DEF StateInv, FileInv, Holds
    <2>6. DamageInv'
      BY <1>2, <2>1 DEF DamageInv
    <2> QED
      BY <2>3, <2>4, <2>5, <2>6 DEF StateInv
  <1> QED
    BY <1>1, <1>2 DEF Rename

(* save() returns true. *)
LEMMA SucceedStep ==
    ASSUME StateInv, SaveSucceeds
    PROVE  StateInv'
  <1>1. Proper(saving) /\ file = Encode(saving) /\ phase = "up" /\ ~ damaged
    BY DEF StateInv, ImagesInv, SaveInv, DamageInv, SaveSucceeds
  <1>2. file # NoFile
    BY <1>1, EncodeIs
  <1>3. ImagesInv'
    BY EmptyIsProper DEF StateInv, ImagesInv, SaveSucceeds
  <1>4. SaveInv'
    BY <1>1 DEF SaveInv, SaveSucceeds, Holds
  <1>5. FileInv'
    BY <1>1, <1>2 DEF StateInv, FileInv, SaveSucceeds, Holds
  <1>6. DamageInv'
    BY <1>1 DEF DamageInv, SaveSucceeds
  <1> QED
    BY <1>3, <1>4, <1>5, <1>6 DEF StateInv

(* The process ends. *)
LEMMA CrashStep ==
    ASSUME StateInv, Crash
    PROVE  StateInv'
  <1>1. ImagesInv'
    BY EmptyIsProper DEF StateInv, ImagesInv, Crash, Stop
  <1>2. SaveInv'
    BY DEF SaveInv, Crash, Stop
  <1>3. FileInv'
    BY DEF StateInv, FileInv, Holds, Crash, Stop
  <1>4. DamageInv'
    BY DEF StateInv, DamageInv, Crash, Stop
  <1> QED
    BY <1>1, <1>2, <1>3, <1>4 DEF StateInv

(* What a file that is there holds while nothing damaged it. *)
LEMMA UndamagedFile ==
    ASSUME StateInv, ~ damaged, file # NoFile
    PROVE  \E m \in candidates : Proper(m) /\ file = Encode(m)
  BY DEF StateInv, FileInv, ImagesInv, Holds

(* A loss of power leaves a torn file. *)
LEMMA PowerStep ==
    ASSUME StateInv, LosePower
    PROVE  StateInv'
  <1>1. ~ damaged
    BY DEF StateInv, DamageInv, LosePower
  <1>2. PICK m \in candidates : Proper(m) /\ file = Encode(m)
    BY <1>1, UndamagedFile DEF LosePower
  <1>3. PICK n \in 0 .. Len(file) - 1 : Stop(SubSeq(file, 1, n))
    BY DEF LosePower
  <1>4. ImagesInv'
    BY <1>3, EmptyIsProper DEF StateInv, ImagesInv, Stop
  <1>5. SaveInv'
    BY <1>3 DEF SaveInv, Stop
  <1>6. damaged' /\ damaged' \in BOOLEAN
    BY DEF LosePower
  <1>7. FileInv'
    BY <1>6 DEF FileInv
  <1>8. DamageInv'
    <2> DEFINE recs == Records(m)
               f == Encode(m)
    <2>1. recs \in Seq(RecordUnit)
      BY <1>2, RecordsRange
    <2>2. f \in Seq(Unit) /\ Len(f) = Len(recs) + 2 /\ f[1] = Header(recs)
      BY <1>2, EncodeIs
    <2> HIDE DEF recs, f
    <2>3. f[1].length = Len(recs) /\ Len(recs) \in Nat
      BY <2>1, <2>2 DEF Header
    <2>4. file' = SubSeq(f, 1, n) /\ n \in 0 .. Len(f) - 1
      BY <1>2, <1>3 DEF Stop, f
    <2>5. SubSeq(f, 1, n) \in Seq(Unit) /\ Len(SubSeq(f, 1, n)) = n
          /\ (n >= 1 => SubSeq(f, 1, n)[1] = f[1])
      BY <2>2, <2>3, <2>4
    <2>6. Torn(SubSeq(f, 1, n))
      BY <2>2, <2>3, <2>4, <2>5 DEF Torn
    <2>7. phase' # "up"
      BY <1>3 DEF Stop
    <2> QED
      BY <2>4, <2>5, <2>6, <2>7 DEF DamageInv
  <1> QED
    BY <1>4, <1>5, <1>7, <1>8 DEF StateInv

(* Overwriting a record of a file leaves its other units alone. *)
LEMMA Overwritten ==
    ASSUME NEW f \in Seq(Unit), NEW i \in 2 .. Len(f) - 1, f[i].type \notin {"Header", "Trailer"}
    PROVE  LET g == [f EXCEPT ![i].val = 0, ![i].digest = 0]
           IN  /\ g \in Seq(Unit) /\ Len(g) = Len(f)
               /\ \A k \in 1 .. Len(f) : k # i => g[k] = f[k]
               /\ g[i].val = 0 /\ g[i].digest = 0
               /\ f[i].val = 0 /\ f[i].digest = 0 => g = f
  <1> DEFINE u == [f[i] EXCEPT !.val = 0, !.digest = 0]
             g == [f EXCEPT ![i] = u]
  <1>1. f[i] \in Unit /\ Len(f) \in Nat /\ i \in 1 .. Len(f) /\ i # 1 /\ i # Len(f)
    OBVIOUS
  <1>2. f[i] \in RecordUnit
    BY <1>1 DEF Unit
  <1>3. u \in RecordUnit /\ u.val = 0 /\ u.digest = 0
        /\ (f[i].val = 0 /\ f[i].digest = 0 => u = f[i])
    BY <1>2 DEF RecordUnit
  <1>4. u \in Unit
    BY <1>3 DEF Unit
  <1> HIDE DEF u
  <1>5. /\ g \in Seq(Unit) /\ Len(g) = Len(f)
        /\ \A k \in 1 .. Len(f) : k # i => g[k] = f[k]
        /\ g[i] = u
    BY <1>1, <1>4
  <1>6. u = f[i] => g = f
    BY <1>1
  <1>7. [f EXCEPT ![i].val = 0, ![i].digest = 0] = g
    BY <1>1 DEF u
  <1> HIDE DEF g
  <1> QED
    BY <1>3, <1>5, <1>6, <1>7

(* A file whose record was zeroed has that record for good, and a torn one *)
(* stays torn.                                                             *)
LEMMA CorruptStep ==
    ASSUME StateInv, NEW i, Corrupt(i)
    PROVE  StateInv'
  <1> DEFINE g == [file EXCEPT ![i].val = 0, ![i].digest = 0]
  <1>1. ImagesInv'
    BY DEF StateInv, ImagesInv, Corrupt
  <1>2. SaveInv'
    BY DEF StateInv, SaveInv, Corrupt
  <1>3. damaged' /\ damaged' \in BOOLEAN /\ phase' # "up" /\ candidates' = candidates
    BY DEF Corrupt
  <1>4. FileInv'
    BY <1>3 DEF FileInv
  <1>5. file' = g /\ g # file /\ i \in 2 .. Len(file) - 1 /\ file[i].type \notin {"Header", "Trailer"}
        /\ file # NoFile
    BY DEF Corrupt
  <1>6. file \in Seq(Unit)
    <2>1. CASE damaged
      BY <2>1 DEF StateInv, DamageInv
    <2>2. CASE ~ damaged
      BY <1>5, <2>2, UndamagedFile, EncodeIs
    <2> QED
      BY <2>1, <2>2
  <1>7. /\ g \in Seq(Unit) /\ Len(g) = Len(file)
        /\ \A k \in 1 .. Len(file) : k # i => g[k] = file[k]
        /\ g[i].val = 0 /\ g[i].digest = 0
        /\ ~ (file[i].val = 0 /\ file[i].digest = 0)
    BY <1>5, <1>6, Overwritten, ZenonT(40)
  <1> HIDE DEF g
  <1>8. Len(file) \in Nat /\ Len(file) >= 3 /\ g[1] = file[1] /\ g[Len(g)] = file[Len(file)]
    BY <1>5, <1>6, <1>7
  <1>9. Torn(g) \/ \E m \in candidates : Zeroed(g, Records(m))
    <2>1. CASE damaged /\ Torn(file)
      BY <1>7, <1>8, <2>1 DEF Torn
    <2>2. CASE damaged /\ \E m \in candidates : Zeroed(file, Records(m))
      <3>1. PICK m \in candidates : Zeroed(file, Records(m))
        BY <2>2
      <3>2. PICK j \in 1 .. Len(Records(m)) :
                /\ file[j + 1].val = 0 /\ file[j + 1].digest = 0
                /\ ~ (Records(m)[j].val = 0 /\ Records(m)[j].digest = 0)
        BY <3>1 DEF Zeroed
      <3>3. Len(Records(m)) \in Nat
        BY RecordsRange DEF StateInv, ImagesInv
      <3>4. Len(file) = Len(Records(m)) + 2 /\ file[Len(file)] = Trailer(Records(m))
        BY <3>1 DEF Zeroed
      <3>5. j + 1 \in 1 .. Len(file)
        BY <3>3, <3>4
      <3>6. g[j + 1].val = 0 /\ g[j + 1].digest = 0
        BY <1>7, <3>2, <3>5
      <3>7. Zeroed(g, Records(m))
        BY <1>7, <1>8, <3>2, <3>4, <3>6 DEF Zeroed
      <3> QED
        BY <3>7
    <2>3. CASE ~ damaged
      <3>1. PICK m \in candidates : Proper(m) /\ file = Encode(m)
        BY <1>5, <2>3, UndamagedFile
      <3> DEFINE recs == Records(m)
      <3>2. /\ Len(file) = Len(recs) + 2 /\ file[Len(file)] = Trailer(recs)
            /\ \A k \in 1 .. Len(recs) : file[k + 1] = recs[k]
        BY <3>1, EncodeIs
      <3>3. Len(recs) \in Nat
        BY <3>1, RecordsRange
      <3> HIDE DEF recs
      <3>4. i - 1 \in 1 .. Len(recs) /\ (i - 1) + 1 = i
        BY <1>5, <3>2, <3>3
      <3>5. recs[i - 1] = file[i]
        BY <3>2, <3>4
      <3>6. \E j \in 1 .. Len(recs) :
                g[j + 1].val = 0 /\ g[j + 1].digest = 0 /\ ~ (recs[j].val = 0 /\ recs[j].digest = 0)
        BY <1>7, <3>4, <3>5
      <3>7. Zeroed(g, recs)
        BY <1>7, <1>8, <3>2, <3>6 DEF Zeroed
      <3> QED
        BY <3>7 DEF recs
    <2> QED
      BY <2>1, <2>2, <2>3 DEF StateInv, DamageInv
  <1>10. DamageInv'
    BY <1>3, <1>5, <1>7, <1>9 DEF DamageInv
  <1> QED
    BY <1>1, <1>2, <1>4, <1>10 DEF StateInv

(* What a start takes for its image is a candidate; a damaged file is      *)
(* refused.                                                                *)
LEMMA LoadedImage ==
    ASSUME StateInv, Load, phase' = "up"
    PROVE  /\ ~ damaged
           /\ memory' \in candidates /\ Proper(memory')
           /\ file = Encode(memory') \/ (file = NoFile /\ memory' = EmptyImage)
  <1>1. (file = NoFile /\ memory' = EmptyImage)
        \/ (file # NoFile /\ Accepts(file) /\ memory' = Decoded(file))
    BY DEF Load
  <1>2. ~ damaged
    <2> SUFFICES ASSUME damaged PROVE FALSE
      OBVIOUS
    <2>1. file \in Seq(Unit) /\ (Torn(file) \/ \E m \in candidates : Zeroed(file, Records(m)))
      BY DEF StateInv, DamageInv
    <2>2. FrameOk(file)
      BY <1>1, <2>1, NoFileAssumption DEF Accepts
    <2>3. PICK m \in candidates : Zeroed(file, Records(m))
      BY <2>1, <2>2, TornIsRefused
    <2>4. Records(m) \in Seq(RecordUnit)
      BY RecordsRange DEF StateInv, ImagesInv
    <2> QED
      BY <2>1, <2>2, <2>3, <2>4, ZeroedIsRefused
  <1>3. CASE file = NoFile
    <2>1. PICK m \in candidates : Holds(m)
      BY <1>2 DEF StateInv, FileInv
    <2>2. Proper(m)
      BY DEF StateInv, ImagesInv
    <2>3. m = EmptyImage
      BY <1>3, <2>1, <2>2, EncodeIs DEF Holds
    <2> QED
      BY <1>1, <1>2, <1>3, <2>2, <2>3
  <1>4. CASE file # NoFile
    <2>1. PICK m \in candidates : Proper(m) /\ file = Encode(m)
      BY <1>2, <1>4, UndamagedFile
    <2>2. memory' = m
      BY <1>1, <1>4, <2>1, DecodesToItself
    <2> QED
      BY <1>2, <2>1, <2>2
  <1> QED
    BY <1>3, <1>4

(* The coordinator starts from a candidate, or does not start. *)
LEMMA LoadStep ==
    ASSUME StateInv, Load
    PROVE  StateInv'
  <1>0. pc = "idle"
    BY DEF StateInv, SaveInv, Load
  <1>1. CASE phase' = "up"
    <2>1. /\ ~ damaged /\ Proper(memory')
          /\ file = Encode(memory') \/ (file = NoFile /\ memory' = EmptyImage)
      BY <1>1, LoadedImage
    <2>2. acked' = memory' /\ candidates' = {memory'}
          /\ UNCHANGED <<saving, after, pc, file, temp, damaged>>
      BY <1>1 DEF Load
    <2>3. ImagesInv'
      BY <2>1, <2>2 DEF StateInv, ImagesInv
    <2>4. SaveInv'
      BY <1>0, <1>1, <2>1, <2>2 DEF SaveInv, Holds
    <2>5. FileInv'
      <3>1. file = NoFile => memory' = EmptyImage
        BY <2>1, EncodeIs
      <3> QED
        BY <2>1, <2>2, <3>1 DEF StateInv, FileInv, Holds
    <2>6. DamageInv'
      BY <2>1, <2>2 DEF DamageInv
    <2> QED
      BY <2>3, <2>4, <2>5, <2>6 DEF StateInv
  <1>2. CASE phase' # "up"
    <2>1. phase' = "refused"
          /\ UNCHANGED <<memory, acked, candidates, saving, after, pc, file, temp, damaged>>
      BY <1>2 DEF Load
    <2>2. ImagesInv'
      BY <2>1 DEF StateInv, ImagesInv
    <2>3. SaveInv'
      BY <1>0, <2>1 DEF SaveInv
    <2>4. FileInv'
      BY <2>1 DEF StateInv, FileInv, Holds
    <2>5. DamageInv'
      BY <2>1 DEF StateInv, DamageInv
    <2> QED
      BY <2>2, <2>3, <2>4, <2>5 DEF StateInv
  <1> QED
    BY <1>1, <1>2
--------------------------------------------------------------------------------
(* The theorems. *)

(* Every step of the store, of a save, of the process and of what damages  *)
(* the file keeps the invariant.                                           *)
LEMMA StateStep ==
    ASSUME StateInv, [Next]_vars
    PROVE  StateInv'
  <1>0. Proper(memory)
    BY DEF StateInv, ImagesInv
  <1>1. ASSUME NEW m, Proper(m), Register(m) PROVE StateInv'
    BY <1>1, CountedIsProper, BeginStep DEF Register
  <1>2. ASSUME NEW p \in Profiles, NEW w \in Widths, RegisterProfile(p, w) PROVE StateInv'
    BY <1>0, <1>1, <1>2, ProfileIsProper DEF RegisterProfile
  <1>3. ASSUME NEW p \in Policies, NEW n \in Refs, RegisterPolicy(p, n) PROVE StateInv'
    BY <1>0, <1>1, <1>3, PolicyIsProper DEF RegisterPolicy
  <1>4. ASSUME NEW l \in Lists, NEW p \in Profiles, NEW a \in Attempts, CommitList(l, p, a)
        PROVE StateInv'
    BY <1>0, <1>4, CommitIsProper, BeginStep DEF CommitList
  <1>5. ASSUME NEW m, Proper(m), memory' = m, phase = "up",
               UNCHANGED <<phase, saving, after, pc, file, temp, candidates, acked, damaged>>
        PROVE StateInv'
    <2>1. ImagesInv'
      BY <1>5 DEF StateInv, ImagesInv
    <2>2. SaveInv'
      BY <1>5 DEF StateInv, SaveInv, Holds
    <2>3. FileInv'
      BY <1>5 DEF StateInv, FileInv, Holds
    <2>4. DamageInv'
      BY <1>5 DEF StateInv, DamageInv
    <2> QED
      BY <2>1, <2>2, <2>3, <2>4 DEF StateInv
  <1>6. ASSUME NEW b \in Boots, RegisterPublisher(b) PROVE StateInv'
    BY <1>0, <1>5, <1>6, PublisherIsProper DEF RegisterPublisher
  <1>7. ASSUME NEW b \in Boots, FencePublisher(b) PROVE StateInv'
    BY <1>0, <1>5, <1>7, FencedIsProper DEF FencePublisher
  <1>8. CASE StartSave
    BY <1>8, FailStep, TempStep DEF StartSave
  <1>9. CASE OpenTemp
    BY <1>9, FailStep, TempStep DEF OpenTemp
  <1>10. CASE WriteTemp
    BY <1>10, FailStep, TempStep DEF WriteTemp
  <1>11. CASE Rename
    BY <1>11, RenameStep
  <1>12. CASE SaveSucceeds
    BY <1>12, SucceedStep
  <1>13. CASE Crash
    BY <1>13, CrashStep
  <1>14. CASE LosePower
    BY <1>14, PowerStep
  <1>15. CASE Load
    BY <1>15, LoadStep
  <1>16. ASSUME NEW i, Corrupt(i) PROVE StateInv'
    BY <1>16, CorruptStep
  <1>17. CASE UNCHANGED vars
    BY <1>17 DEF vars, StateInv, ImagesInv, SaveInv, FileInv, DamageInv, Holds
  <1> QED
    BY <1>2, <1>3, <1>4, <1>6, <1>7, <1>8, <1>9, <1>10, <1>11, <1>12, <1>13, <1>14, <1>15, <1>16,
       <1>17 DEF Next

(* The inductive invariant: while a save runs, the file holds the image    *)
(* before it until the rename replaces it as a whole; a file that was      *)
(* damaged is torn or has a record that does not fit its trailer.          *)
THEOREM StateInvariance == Spec => []StateInv
  <1>1. Init => StateInv
    BY StateInit
  <1>2. StateInv /\ [Next]_vars => StateInv'
    BY StateStep
  <1> QED
    BY <1>1, <1>2, PTL DEF Spec

(* The store, the files and what was acknowledged keep their types. *)
THEOREM StateFileTypes == Spec => []TypeOK
  <1>1. StateInv => TypeOK
    BY DEF StateInv, ImagesInv, SaveInv, FileInv, Proper, TypeOK
  <1> QED
    BY <1>1, StateInvariance, PTL

(* FilePersistence::save writes a temporary file and renames it: what was  *)
(* acknowledged stays in the file until a later save replaces it, wherever *)
(* that one fails or the process ends.                                     *)
THEOREM SavesAreAtomic == Spec => []AckedStaysInFile
  <1>1. StateInv => AckedStaysInFile
    <2> SUFFICES ASSUME StateInv, ~ damaged, acked # EmptyImage
                 PROVE  file \in {Encode(m) : m \in candidates}
      BY DEF AckedStaysInFile
    <2>1. file # NoFile
      BY DEF StateInv, FileInv
    <2> QED
      BY <2>1, UndamagedFile
  <1> QED
    BY <1>1, StateInvariance, PTL

(* FilePersistence::load: whatever happened to the process, the save or    *)
(* the file before, a coordinator that starts has the image of the last    *)
(* acknowledged save or the one that was being saved, and no other.        *)
THEOREM StartsFromASavedImage == Spec => LoadsWhatWasSaved
  <1>1. StateInv /\ [Next]_vars => [phase = "down" /\ phase' = "up" => memory' \in candidates]_vars
    <2> SUFFICES ASSUME StateInv, Next, phase = "down", phase' = "up"
                 PROVE  memory' \in candidates
      OBVIOUS
    <2>1. Load
      <3>1. pc = "idle"
        BY DEF StateInv, SaveInv
      <3> QED
        BY <3>1 DEF Next, RegisterProfile, RegisterPolicy, Register, CommitList, BeginSave,
             RegisterPublisher, FencePublisher, StartSave, OpenTemp, WriteTemp, Rename,
             SaveSucceeds, Crash, LosePower, Corrupt, Stop
    <2> QED
      BY <2>1, LoadedImage
  <1> QED
    BY <1>1, StateInvariance, PTL DEF Spec, LoadsWhatWasSaved
--------------------------------------------------------------------------------
(* Starting again. *)

(* An image whose lists were digested with the width their profile still   *)
(* has, and whose tables keep their limits.                                *)
Whole(m) ==
    /\ \A l \in Lists : m.lists[l] # NoList =>
           m.lists[l].digest # 0 /\ m.profiles[m.lists[l].profile] = m.lists[l].digest
    /\ Cardinality({l \in Lists : m.lists[l] # NoList}) <= MaxLists
    /\ Cardinality(m.attempts) <= MaxAttemptRecords

(* Its publishers leave room for its fenced boots, which the number of     *)
(* records that decode_durable_state finds plausible has no term for.      *)
Fits(m) == Cardinality(m.publishers) + Cardinality(m.fenced) <= MaxPublishers

(* The file holds an image that was small enough to be written. *)
LoadableInv ==
    /\ \A m \in {memory, saving, after, acked} \cup candidates : Whole(m)
    /\ \A m \in {saving, acked} \cup candidates : Fits(m)
    /\ pc \in {"open", "write", "rename", "renamed"} => ~ Oversized(saving)
    /\ phase = "up" => ~ Oversized(acked)
    /\ ~ damaged /\ file # NoFile => \E m \in candidates : file = Encode(m) /\ ~ Oversized(m)

(* The widths and the numbers of references that are registered can be     *)
(* decoded: register_profile and register_policy do not see to it.         *)
DecodableSizes ==
    /\ \A w \in Widths : w <= MaxPayload
    /\ \A n \in Refs : n <= MaxRecordRefs => n <= MaxRefs

(* A profile is never registered again with another width. *)
KeepsWidth ==
    phase = "up" /\ phase' = "up" =>
        \A p \in Profiles : memory.profiles[p] # 0 => memory'.profiles[p] = memory.profiles[p]

(* There is room for the fenced boots. *)
FencedFit == Fits(memory)

(* The sizes of the tables of a whole image. *)
LEMMA TableSizes ==
    ASSUME NEW m, Proper(m), Whole(m), Fits(m)
    PROVE  /\ Cardinality(ListRecords(m)) <= MaxLists
           /\ Cardinality(HistoryRecords(m)) <= MaxHistory
           /\ Cardinality(AttemptRecords(m)) <= MaxAttemptRecords
           /\ Cardinality(PublisherRecords(m)) <= MaxPublishers
           /\ Len(Records(m)) \in Nat
           /\ Len(Records(m)) <= MaxLists + Cardinality(Profiles) + Cardinality(Policies) + MaxHistory
                                     + MaxAttemptRecords + MaxPublishers + 1
  <1> DEFINE ps == {q \in Profiles : m.profiles[q] # 0}
             qs == {q \in Policies : m.policies[q] # 0}
             ls == {k \in Lists : m.lists[k] # NoList}
             n0 == Len(Records(m))
             n1 == Cardinality(ProfileRecords(m))
             n2 == Cardinality(PolicyRecords(m))
             n3 == Cardinality(ListRecords(m))
             n4 == Cardinality(HistoryRecords(m))
             n5 == Cardinality(AttemptRecords(m))
             n6 == Cardinality(PublisherRecords(m))
             n7 == Cardinality(FencedRecords(m))
             u == Cardinality(m.publishers)
             v == Cardinality(m.fenced)
             a == Cardinality(m.attempts)
             b == Cardinality(ls)
             c == Cardinality(Profiles)
             d == Cardinality(Policies)
  <1>1. /\ n1 \in Nat /\ n2 \in Nat /\ n3 \in Nat /\ n4 \in Nat
        /\ n5 \in Nat /\ n6 \in Nat /\ n7 \in Nat
    BY TablesAre, FS_CardinalityType
  <1>2. IsFiniteSet(Profiles) /\ IsFiniteSet(Policies) /\ IsFiniteSet(Lists)
        /\ IsFiniteSet(Attempts) /\ IsFiniteSet(Boots)
    BY StateFileAssumption
  <1>3. Cardinality(ps) <= c /\ Cardinality(ps) \in Nat /\ c \in Nat
    BY <1>2, FS_Subset, FS_CardinalityType
  <1>4. Cardinality(qs) <= d /\ Cardinality(qs) \in Nat /\ d \in Nat
    BY <1>2, FS_Subset, FS_CardinalityType
  <1>5. b \in Nat /\ a \in Nat /\ u \in Nat /\ v \in Nat
    <2>1. m.attempts \in SUBSET Attempts /\ m.publishers \in SUBSET Boots /\ m.fenced \in SUBSET Boots
      BY ProperIs
    <2>2. IsFiniteSet(ls) /\ IsFiniteSet(m.attempts) /\ IsFiniteSet(m.publishers)
          /\ IsFiniteSet(m.fenced)
      BY <1>2, <2>1, FS_Subset
    <2> QED
      BY <2>2, FS_CardinalityType
  <1>6. b <= MaxLists /\ a <= MaxAttemptRecords /\ u + v <= MaxPublishers
    BY DEF Whole, Fits
  <1>7. /\ n1 <= Cardinality(ps) /\ n2 <= Cardinality(qs) /\ n3 <= b
        /\ n5 <= a /\ n6 <= u /\ n7 <= v
    BY TablesAre
  <1>8. n4 <= MaxHistory
    <2>1. n4 = m.history
      BY TablesAre
    <2>2. m.history <= MaxHistory
      BY ProperIs
    <2> QED
      BY <2>1, <2>2
  <1>9. n0 = 1 + n1 + n2 + n3 + n4 + n5 + n6 + n7
    BY RecordsRange
  <1>10. {MaxLists, MaxHistory, MaxAttemptRecords, MaxPublishers} \subseteq Nat
    BY StateFileAssumption
  <1> HIDE DEF n0, n1, n2, n3, n4, n5, n6, n7, u, v, a, b, c, d, ps, qs
  <1>11. n1 <= c /\ n2 <= d
    BY <1>1, <1>3, <1>4, <1>7
  <1>12. n3 <= MaxLists /\ n5 <= MaxAttemptRecords /\ n6 <= MaxPublishers /\ n6 + n7 <= MaxPublishers
    BY <1>1, <1>5, <1>6, <1>7, <1>10
  <1>13. n0 \in Nat /\ n0 <= MaxLists + c + d + MaxHistory + MaxAttemptRecords + MaxPublishers + 1
    BY <1>1, <1>3, <1>4, <1>8, <1>9, <1>10, <1>11, <1>12
  <1> QED
    BY <1>8, <1>12, <1>13 DEF n0, n3, n4, n5, n6, c, d

(* Each record of a whole image that was written decodes. *)
LEMMA RecordsDecode ==
    ASSUME DecodableSizes, NEW m, Proper(m), Whole(m), ~ Oversized(m),
           NEW i \in 1 .. Len(Records(m))
    PROVE  RecordOk(Records(m), i)
  <1> DEFINE recs == Records(m)
  <1>1. recs \in Seq(RecordUnit) /\ IsInjective(recs)
    BY RecordsRange
  <1>2. PICK n \in Nat :
            /\ \A p \in ProfileRecords(m) : \E j \in 1 .. n : j <= Len(recs) /\ recs[j] = p
            /\ \A k \in 1 .. Len(recs) : recs[k] \in ListRecords(m) => k > n
    BY RecordsRange
  <1>3. \A k \in 1 .. Len(recs) :
            recs[k] \in {Record("Meta", 0, 0, m.revision, 0)}
                  \cup ProfileRecords(m) \cup PolicyRecords(m) \cup ListRecords(m)
                  \cup HistoryRecords(m) \cup AttemptRecords(m) \cup PublisherRecords(m)
                  \cup FencedRecords(m)
    BY <1>1, RecordsRange DEF Range
  <1> HIDE DEF recs
  <1>4. /\ \A x \in ProfileRecords(m) : x.type = "Profile"
        /\ \A x \in PolicyRecords(m) : x.type = "Policy"
        /\ \A x \in ListRecords(m) : x.type = "List"
    BY RecordIs DEF ProfileRecords, PolicyRecords, ListRecords
  <1>5. /\ \A x \in HistoryRecords(m) : x.type = "History"
        /\ \A x \in AttemptRecords(m) : x.type = "Attempt"
        /\ \A x \in PublisherRecords(m) : x.type = "Publisher"
        /\ \A x \in FencedRecords(m) : x.type = "FencedBoot"
        /\ Record("Meta", 0, 0, m.revision, 0).type = "Meta"
    BY RecordIs DEF HistoryRecords, AttemptRecords, PublisherRecords, FencedRecords
  <1>6. \A k \in 1 .. Len(recs) :
            /\ recs[k].type = "Profile" => recs[k] \in ProfileRecords(m)
            /\ recs[k].type = "Policy" => recs[k] \in PolicyRecords(m)
            /\ recs[k].type = "List" => recs[k] \in ListRecords(m)
    BY <1>3, <1>4, <1>5
  <1>7. i \in 1 .. Len(recs)
    BY DEF recs
  <1>8. ASSUME recs[i].type = "Profile" PROVE DecodeProfile(recs[i])
    <2>1. \A x \in ProfileRecords(m) : x.val # 0
      BY RecordIs DEF ProfileRecords
    <2> QED
      BY <1>6, <1>7, <1>8, <2>1 DEF DecodeProfile
  <1>9. ASSUME recs[i].type = "Policy" PROVE DecodePolicy(recs[i])
    <2>1. PICK q \in Policies : m.policies[q] # 0 /\ recs[i].val = m.policies[q]
      BY <1>6, <1>7, <1>9, RecordIs DEF PolicyRecords
    <2>2. m.policies[q] \in Refs /\ {MaxRecordRefs, MaxRefs} \cup Refs \subseteq Nat
      BY <2>1, ProperIs, StateFileAssumption
    <2>3. ~ (m.policies[q] > MaxRecordRefs)
      BY DEF Oversized
    <2>4. m.policies[q] <= MaxRecordRefs
      BY <2>2, <2>3, SMTT(30)
    <2>5. m.policies[q] <= MaxRefs
      BY <2>2, <2>4 DEF DecodableSizes
    <2> QED
      BY <2>1, <2>5 DEF DecodePolicy
  <1>10. ASSUME recs[i].type = "List" PROVE DecodeList(recs, i)
    <2>1. PICK l \in Lists : /\ m.lists[l] # NoList
                             /\ recs[i].ref = m.lists[l].profile
                             /\ recs[i].val = m.profiles[m.lists[l].profile]
                             /\ recs[i].digest = m.lists[l].digest
      BY <1>6, <1>7, <1>10, RecordIs DEF ListRecords
    <2>2. m.lists[l].profile \in Profiles /\ m.lists[l].digest \in Widths \cup {0}
      BY <2>1, ProperIs
    <2>3. m.lists[l].digest # 0 /\ m.profiles[m.lists[l].profile] = m.lists[l].digest
      BY <2>1 DEF Whole
    <2>4. recs[i].val = recs[i].digest /\ recs[i].val \in Widths
      BY <2>1, <2>2, <2>3
    <2>5. recs[i].val \in 1 .. MaxPayload
      BY <2>1, <2>3, <2>4, StateFileAssumption DEF DecodableSizes
    <2>6. i > n
      BY <1>2, <1>6, <1>7, <1>10
    <2> DEFINE p == m.lists[l].profile
               x == Record("Profile", p, 0, m.profiles[p], 0)
    <2>7. x \in ProfileRecords(m) /\ x.type = "Profile" /\ x.id = p
      BY <2>2, <2>3, RecordIs DEF ProfileRecords
    <2> HIDE DEF x
    <2>8. PICK j \in 1 .. n : j <= Len(recs) /\ recs[j] = x
      BY <1>2, <2>7
    <2>9. j \in 1 .. i - 1
      BY <1>7, <2>6, <2>8
    <2> QED
      BY <2>1, <2>4, <2>5, <2>7, <2>8, <2>9 DEF DecodeList
  <1>11. ASSUME recs[i].type \in {"Profile", "Policy", "List"},
                NEW j \in 1 .. i - 1, recs[j].type = recs[i].type, recs[j].id = recs[i].id
         PROVE  FALSE
    <2>1. j \in 1 .. Len(recs) /\ j # i /\ Len(recs) \in Nat
      BY <1>1, <1>7
    <2>2. recs[j] = recs[i]
      <3>1. CASE recs[i].type = "Profile"
        BY <1>6, <1>7, <1>11, <2>1, <3>1, RecordIs DEF ProfileRecords
      <3>2. CASE recs[i].type = "Policy"
        BY <1>6, <1>7, <1>11, <2>1, <3>2, RecordIs DEF PolicyRecords
      <3>3. CASE recs[i].type = "List"
        BY <1>6, <1>7, <1>11, <2>1, <3>3, RecordIs DEF ListRecords
      <3> QED
        BY <1>11, <3>1, <3>2, <3>3
    <2> QED
      BY <1>1, <1>7, <2>1, <2>2 DEF IsInjective
  <1> QED
    BY <1>8, <1>9, <1>10, <1>11 DEF RecordOk, recs

(* The file of such an image is accepted. *)
LEMMA AcceptsOwnFile ==
    ASSUME DecodableSizes, NEW m, Proper(m), Whole(m), Fits(m), ~ Oversized(m)
    PROVE  Accepts(Encode(m))
  <1> DEFINE recs == Records(m)
             f == Encode(m)
  <1>1. /\ Len(f) = Len(recs) + 2 /\ f[1] = Header(recs) /\ f[Len(f)] = Trailer(recs)
        /\ RecordsOf(f) = recs
    BY EncodeIs
  <1>2. /\ Len(recs) \in Nat
        /\ Len(recs) <= MaxLists + Cardinality(Profiles) + Cardinality(Policies) + MaxHistory
                            + MaxAttemptRecords + MaxPublishers + 1
    BY TableSizes
  <1>3. \A i \in 1 .. Len(recs) : RecordOk(recs, i)
    BY RecordsDecode
  <1>4. TablesOk(recs)
    <2>1. /\ Cardinality(ListRecords(m)) <= MaxLists
          /\ Cardinality(HistoryRecords(m)) <= MaxHistory
          /\ Cardinality(AttemptRecords(m)) <= MaxAttemptRecords
          /\ Cardinality(PublisherRecords(m)) <= MaxPublishers
      BY TableSizes
    <2>2. /\ Count(recs, "List") = Cardinality(ListRecords(m))
          /\ Count(recs, "History") = Cardinality(HistoryRecords(m))
          /\ Count(recs, "Attempt") = Cardinality(AttemptRecords(m))
          /\ Count(recs, "Publisher") = Cardinality(PublisherRecords(m))
      BY RecordsRange
    <2> QED
      BY <2>1, <2>2 DEF TablesOk
  <1> HIDE DEF recs, f
  <1>5. /\ f[1].type = "Header" /\ f[1].length = Len(recs) /\ f[1].count = Len(recs)
        /\ f[1].crc = <<Len(recs), Len(recs)>>
    BY <1>1 DEF Header
  <1>6. FrameOk(f)
    BY <1>1, <1>2, <1>5 DEF FrameOk
  <1>7. CountOk(f)
    BY <1>1, <1>2, <1>5 DEF CountOk
  <1>8. Accepts(f)
    BY <1>1, <1>3, <1>4, <1>6, <1>7 DEF Accepts
  <1> QED
    BY <1>8 DEF f

(* The image of an empty store is whole. *)
LEMMA EmptyIsWhole == Whole(EmptyImage) /\ Fits(EmptyImage) /\ ~ Oversized(EmptyImage)
  <1>1. /\ EmptyImage.attempts = {} /\ EmptyImage.publishers = {} /\ EmptyImage.fenced = {}
        /\ \A l \in Lists : EmptyImage.lists[l] = NoList
        /\ \A p \in Policies : EmptyImage.policies[p] = 0
    BY DEF EmptyImage
  <1>2. {l \in Lists : EmptyImage.lists[l] # NoList} = {}
    BY <1>1
  <1>3. Cardinality({}) = 0
    BY FS_EmptySet
  <1>4. {MaxLists, MaxAttemptRecords, MaxPublishers, MaxRecordRefs} \subseteq Nat
    BY StateFileAssumption
  <1>5. Whole(EmptyImage)
    BY <1>1, <1>2, <1>3, <1>4, SMTT(30) DEF Whole
  <1>6. Fits(EmptyImage)
    BY <1>1, <1>3, <1>4 DEF Fits
  <1>7. ~ Oversized(EmptyImage)
    <2>1. MaxRecordRefs \in Nat /\ ~ (0 > MaxRecordRefs)
      BY <1>4
    <2> QED
      BY <1>1, <2>1 DEF Oversized
  <1> QED
    BY <1>5, <1>6, <1>7

(* What an image is whole by. *)
LEMMA SameWhole ==
    ASSUME NEW m, NEW n, Whole(m), n.attempts = m.attempts, n.lists = m.lists,
           \A l \in Lists : m.lists[l] # NoList =>
               n.profiles[m.lists[l].profile] = m.profiles[m.lists[l].profile]
    PROVE  Whole(n)
  BY DEF Whole

(* A call that saves an image that is whole and fits. *)
LEMMA BeginLoadable ==
    ASSUME LoadableInv, StateInv, NEW now, NEW next, NEW then, Whole(now), Whole(next), Whole(then),
           Fits(next), BeginSave(now, next, then)
    PROVE  LoadableInv'
  <1>1. phase = "up" /\ ~ damaged
    BY DEF BeginSave, StateInv, DamageInv
  <1>2. ~ Oversized(acked)
    BY <1>1 DEF LoadableInv
  <1>3. Holds(acked)
    BY <1>1 DEF BeginSave, StateInv, SaveInv
  <1>4. \A m \in {memory, saving, after, acked}' \cup candidates' : Whole(m)
    BY DEF LoadableInv, BeginSave
  <1>5. \A m \in {saving, acked}' \cup candidates' : Fits(m)
    BY DEF LoadableInv, BeginSave
  <1>6. file' # NoFile => \E m \in candidates' : file' = Encode(m) /\ ~ Oversized(m)
    BY <1>2, <1>3 DEF BeginSave, Holds
  <1> QED
    BY <1>2, <1>4, <1>5, <1>6 DEF LoadableInv, BeginSave

(* register_profile, as long as it does not change a width. *)
LEMMA ProfileLoadable ==
    ASSUME StateInv, LoadableInv, FencedFit, KeepsWidth, NEW p \in Profiles, NEW w \in Widths,
           RegisterProfile(p, w)
    PROVE  LoadableInv'
  <1> DEFINE m == [memory EXCEPT !.profiles[p] = w]
             n == [m EXCEPT !.revision = @ + 1]
  <1>1. Proper(memory) /\ Whole(memory) /\ Fits(memory)
    BY DEF StateInv, ImagesInv, LoadableInv, FencedFit
  <1>2. Proper(m) /\ m.revision < MaxRevision /\ BeginSave(m, m, n)
    BY <1>1, ProfileIsProper DEF RegisterProfile, Register
  <1>3. /\ m.attempts = memory.attempts /\ m.lists = memory.lists
        /\ m.publishers = memory.publishers /\ m.fenced = memory.fenced
        /\ m.profiles = [memory.profiles EXCEPT ![p] = w]
    BY <1>1, ProperIs
  <1>4. memory' = m /\ phase = "up" /\ phase' = "up"
    BY <1>2 DEF BeginSave
  <1> HIDE DEF m
  <1>5. memory.profiles[p] # 0 => w = memory.profiles[p]
    BY <1>1, <1>3, <1>4, ProperIs DEF KeepsWidth
  <1>6. ASSUME NEW l \in Lists, memory.lists[l] # NoList
        PROVE  m.profiles[memory.lists[l].profile] = memory.profiles[memory.lists[l].profile]
    <2>1. memory.profiles[memory.lists[l].profile] # 0 /\ memory.lists[l].profile \in Profiles
      BY <1>1, <1>6, ProperIs DEF Whole
    <2> QED
      BY <1>1, <1>3, <1>5, <2>1, ProperIs
  <1>7. Whole(m)
    BY <1>1, <1>3, <1>6, SameWhole
  <1>8. n.attempts = m.attempts /\ n.lists = m.lists /\ n.profiles = m.profiles
    BY <1>2, ProperIs
  <1> HIDE DEF n
  <1>9. Whole(n)
    BY <1>7, <1>8, SameWhole
  <1>10. Fits(m)
    BY <1>1, <1>3 DEF Fits
  <1> QED
    BY <1>2, <1>7, <1>9, <1>10, BeginLoadable

(* register_policy *)
LEMMA PolicyLoadable ==
    ASSUME StateInv, LoadableInv, FencedFit, NEW p \in Policies, NEW k \in Refs, RegisterPolicy(p, k)
    PROVE  LoadableInv'
  <1> DEFINE m == [memory EXCEPT !.policies[p] = k]
             n == [m EXCEPT !.revision = @ + 1]
  <1>1. Proper(memory) /\ Whole(memory) /\ Fits(memory)
    BY DEF StateInv, ImagesInv, LoadableInv, FencedFit
  <1>2. Proper(m) /\ m.revision < MaxRevision /\ BeginSave(m, m, n)
    BY <1>1, PolicyIsProper DEF RegisterPolicy, Register
  <1>3. /\ m.attempts = memory.attempts /\ m.lists = memory.lists
        /\ m.publishers = memory.publishers /\ m.fenced = memory.fenced
        /\ m.profiles = memory.profiles
    BY <1>1, ProperIs
  <1> HIDE DEF m
  <1>4. Whole(m)
    BY <1>1, <1>3, SameWhole
  <1>5. n.attempts = m.attempts /\ n.lists = m.lists /\ n.profiles = m.profiles
    BY <1>2, ProperIs
  <1> HIDE DEF n
  <1>6. Whole(n)
    BY <1>4, <1>5, SameWhole
  <1>7. Fits(m)
    BY <1>1, <1>3 DEF Fits
  <1> QED
    BY <1>2, <1>4, <1>6, <1>7, BeginLoadable

(* A commit digests its list with the width of the profile, and keeps the  *)
(* limits.                                                                 *)
LEMMA CommitLoadable ==
    ASSUME StateInv, LoadableInv, FencedFit, NEW l \in Lists, NEW p \in Profiles, NEW a \in Attempts,
           CommitList(l, p, a)
    PROVE  LoadableInv'
  <1> DEFINE list == [profile |-> p, digest |-> memory.profiles[p]]
             m == [memory EXCEPT !.revision = @ + 1, !.lists[l] = list,
                                 !.history = IF @ < MaxHistory THEN @ + 1 ELSE @,
                                 !.attempts = @ \cup {a}]
  <1>1. Proper(memory) /\ Whole(memory) /\ Fits(memory)
    BY DEF StateInv, ImagesInv, LoadableInv, FencedFit
  <1>2. /\ memory.profiles[p] # 0 /\ a \notin memory.attempts
        /\ Cardinality(memory.attempts) < MaxAttemptRecords
        /\ Cardinality({x \in Lists : memory.lists[x] # NoList} \cup {l}) <= MaxLists
        /\ BeginSave(memory, m, m)
    BY DEF CommitList
  <1>3. list.profile = p /\ list.digest = memory.profiles[p]
    OBVIOUS
  <1> HIDE DEF list
  <1>4. /\ m.attempts = memory.attempts \cup {a} /\ m.publishers = memory.publishers
        /\ m.fenced = memory.fenced /\ m.profiles = memory.profiles
    BY <1>1, ProperIs
  <1>5. m.lists = [memory.lists EXCEPT ![l] = list]
    BY <1>1, ProperIs
  <1> HIDE DEF m
  <1>6. list # NoList
    BY <1>2, <1>3 DEF NoList
  <1>7. \A x \in Lists : m.lists[x] # NoList =>
            m.lists[x].digest # 0 /\ m.profiles[m.lists[x].profile] = m.lists[x].digest
    <2> SUFFICES ASSUME NEW x \in Lists, m.lists[x] # NoList
                 PROVE  m.lists[x].digest # 0 /\ m.profiles[m.lists[x].profile] = m.lists[x].digest
      OBVIOUS
    <2>1. CASE x = l
      BY <1>1, <1>2, <1>3, <1>4, <1>5, <2>1, ProperIs
    <2>2. CASE x # l
      <3>1. m.lists[x] = memory.lists[x]
        BY <1>1, <1>5, <2>2, ProperIs
      <3> QED
        BY <1>1, <1>4, <3>1 DEF Whole
    <2> QED
      BY <2>1, <2>2
  <1>8. {x \in Lists : m.lists[x] # NoList} = {x \in Lists : memory.lists[x] # NoList} \cup {l}
    BY <1>1, <1>5, <1>6, ProperIs
  <1>9. Cardinality(m.attempts) <= MaxAttemptRecords
    <2>1. IsFiniteSet(memory.attempts)
      BY <1>1, ProperIs, StateFileAssumption, FS_Subset
    <2>2. Cardinality(memory.attempts \cup {a}) = Cardinality(memory.attempts) + 1
          /\ Cardinality(memory.attempts) \in Nat
      BY <1>2, <2>1, FS_AddElement, FS_CardinalityType
    <2>3. MaxAttemptRecords \in Nat
      BY StateFileAssumption
    <2> QED
      BY <1>2, <1>4, <2>2, <2>3
  <1>10. Whole(m)
    BY <1>2, <1>7, <1>8, <1>9 DEF Whole
  <1>11. Fits(m)
    BY <1>1, <1>4 DEF Fits
  <1> QED
    BY <1>1, <1>2, <1>10, <1>11, BeginLoadable

(* register_publisher and mark_dead change no table that has to be whole. *)
LEMMA PublisherLoadable ==
    ASSUME LoadableInv, NEW m, Whole(m), memory' = m,
           UNCHANGED <<phase, saving, after, pc, file, temp, candidates, acked, damaged>>
    PROVE  LoadableInv'
  BY DEF LoadableInv

(* A save that fails. *)
LEMMA FailLoadable ==
    ASSUME StateInv, LoadableInv, pc \in {"encode", "open", "write", "rename"}, SaveFails
    PROVE  LoadableInv'
  <1>1. phase = "up" /\ Holds(acked)
    BY DEF StateInv, SaveInv
  <1>2. ~ Oversized(acked)
    BY <1>1 DEF LoadableInv
  <1> QED
    BY <1>1, <1>2, EmptyIsWhole DEF LoadableInv, SaveFails, Holds

(* The steps of a save before the rename. *)
LEMMA TempLoadable ==
    ASSUME LoadableInv, pc' \in {"open", "write", "rename"}, ~ Oversized(saving),
           UNCHANGED <<phase, memory, saving, after, file, candidates, acked, damaged>>
    PROVE  LoadableInv'
  BY DEF LoadableInv

(* The rename, and the end of the save. *)
LEMMA RenameLoadable ==
    ASSUME StateInv, LoadableInv, Rename \/ SaveSucceeds
    PROVE  LoadableInv'
  <1>1. CASE SaveFails /\ pc = "rename"
    BY <1>1, FailLoadable
  <1>2. CASE /\ pc = "rename" /\ file' = temp /\ pc' = "renamed"
             /\ UNCHANGED <<phase, memory, saving, after, candidates, acked, damaged>>
    <2>1. file' = Encode(saving) /\ saving \in candidates /\ ~ Oversized(saving)
      BY <1>2 DEF StateInv, SaveInv, LoadableInv
    <2> QED
      BY <1>2, <2>1 DEF LoadableInv
  <1>3. CASE SaveSucceeds
    <2>1. file = Encode(saving) /\ ~ Oversized(saving) /\ phase = "up"
      BY <1>3 DEF StateInv, SaveInv, LoadableInv, SaveSucceeds
    <2>2. saving \in candidates /\ Whole(saving) /\ Fits(saving) /\ Whole(after)
      BY <1>3, <2>1 DEF StateInv, SaveInv, LoadableInv, SaveSucceeds
    <2> QED
      BY <1>3, <2>1, <2>2, EmptyIsWhole DEF LoadableInv, SaveSucceeds
  <1> QED
    BY <1>1, <1>2, <1>3 DEF Rename

(* The process ends, or the file is damaged. *)
LEMMA StopLoadable ==
    ASSUME LoadableInv, NEW f, Stop(f), (f = file /\ UNCHANGED damaged) \/ damaged'
    PROVE  LoadableInv'
  BY EmptyIsWhole DEF LoadableInv, Stop

(* A start. *)
LEMMA LoadLoadable ==
    ASSUME StateInv, LoadableInv, Load
    PROVE  LoadableInv'
  <1>0. pc = "idle" /\ UNCHANGED <<saving, after, pc, file, temp, damaged>>
    BY DEF StateInv, SaveInv, Load
  <1>1. CASE phase' = "up"
    <2>1. ~ damaged /\ memory' \in candidates /\ Proper(memory')
          /\ (file = Encode(memory') \/ (file = NoFile /\ memory' = EmptyImage))
      BY <1>1, LoadedImage
    <2>2. ~ Oversized(memory')
      <3>1. CASE file = NoFile
        BY <2>1, <3>1, EncodeIs, EmptyIsWhole
      <3>2. CASE file # NoFile
        <4>1. PICK m \in candidates : file = Encode(m) /\ ~ Oversized(m)
          BY <2>1, <3>2 DEF LoadableInv
        <4>2. Proper(m)
          BY DEF StateInv, ImagesInv
        <4>3. m = memory'
          BY <2>1, <3>2, <4>1, <4>2, DecodesToItself
        <4> QED
          BY <4>1, <4>3
      <3> QED
        BY <3>1, <3>2
    <2>3. Whole(memory') /\ Fits(memory')
      BY <2>1 DEF LoadableInv
    <2>4. acked' = memory' /\ candidates' = {memory'}
      BY <1>1 DEF Load
    <2>5. file' # NoFile => \E m \in candidates' : file' = Encode(m) /\ ~ Oversized(m)
      BY <1>0, <2>1, <2>2, <2>4
    <2> QED
      BY <1>0, <2>2, <2>3, <2>4, <2>5 DEF LoadableInv
  <1>2. CASE phase' # "up"
    <2>1. phase' = "refused"
          /\ UNCHANGED <<memory, acked, candidates, saving, after, pc, file, temp, damaged>>
      BY <1>2 DEF Load
    <2> QED
      BY <2>1 DEF LoadableInv
  <1> QED
    BY <1>1, <1>2

(* Every step keeps the file loadable, where widths are kept and the       *)
(* fenced boots fit.                                                       *)
LEMMA LoadableStep ==
    ASSUME StateInv, LoadableInv, FencedFit, [KeepsWidth]_vars, [Next]_vars
    PROVE  LoadableInv'
  <1>1. CASE UNCHANGED vars
    BY <1>1 DEF vars, LoadableInv
  <1>2. CASE Next /\ KeepsWidth
    <2>1. ASSUME NEW p \in Profiles, NEW w \in Widths, RegisterProfile(p, w) PROVE LoadableInv'
      BY <1>2, <2>1, ProfileLoadable
    <2>2. ASSUME NEW p \in Policies, NEW n \in Refs, RegisterPolicy(p, n) PROVE LoadableInv'
      BY <2>2, PolicyLoadable
    <2>3. ASSUME NEW l \in Lists, NEW p \in Profiles, NEW a \in Attempts, CommitList(l, p, a)
          PROVE LoadableInv'
      BY <2>3, CommitLoadable
    <2>4. Proper(memory) /\ Whole(memory)
      BY DEF StateInv, ImagesInv, LoadableInv
    <2>5. ASSUME NEW b \in Boots, RegisterPublisher(b) PROVE LoadableInv'
      <3> DEFINE m == [memory EXCEPT !.publishers = @ \cup {b}]
      <3>1. m.attempts = memory.attempts /\ m.lists = memory.lists /\ m.profiles = memory.profiles
        BY <2>4, ProperIs
      <3>2. memory' = m
            /\ UNCHANGED <<phase, saving, after, pc, file, temp, candidates, acked, damaged>>
        BY <2>5 DEF RegisterPublisher
      <3> HIDE DEF m
      <3>3. Whole(m)
        BY <2>4, <3>1, SameWhole
      <3> QED
        BY <3>2, <3>3, PublisherLoadable
    <2>6. ASSUME NEW b \in Boots, FencePublisher(b) PROVE LoadableInv'
      <3> DEFINE m == [memory EXCEPT !.fenced = @ \cup {b}]
      <3>1. m.attempts = memory.attempts /\ m.lists = memory.lists /\ m.profiles = memory.profiles
        BY <2>4, ProperIs
      <3>2. memory' = m
            /\ UNCHANGED <<phase, saving, after, pc, file, temp, candidates, acked, damaged>>
        BY <2>6 DEF FencePublisher
      <3> HIDE DEF m
      <3>3. Whole(m)
        BY <2>4, <3>1, SameWhole
      <3> QED
        BY <3>2, <3>3, PublisherLoadable
    <2>7. CASE StartSave
      BY <2>7, FailLoadable, TempLoadable DEF StartSave
    <2>8. CASE OpenTemp \/ WriteTemp
      <3>1. pc \in {"open", "write"} /\ ~ Oversized(saving)
        BY <2>8 DEF OpenTemp, WriteTemp, LoadableInv
      <3>2. CASE SaveFails
        BY <3>1, <3>2, FailLoadable
      <3>3. CASE ~ SaveFails
        <4>1. pc' \in {"open", "write", "rename"}
              /\ UNCHANGED <<phase, memory, saving, after, file, candidates, acked, damaged>>
          BY <2>8, <3>3 DEF OpenTemp, WriteTemp
        <4> QED
          BY <3>1, <4>1, TempLoadable
      <3> QED
        BY <3>2, <3>3
    <2>9. CASE Rename \/ SaveSucceeds
      BY <2>9, RenameLoadable
    <2>10. CASE Crash
      BY <2>10, StopLoadable DEF Crash
    <2>11. CASE LosePower
      BY <2>11, StopLoadable DEF LosePower
    <2>12. CASE Load
      BY <2>12, LoadLoadable
    <2>13. ASSUME NEW i, Corrupt(i) PROVE LoadableInv'
      <3>1. /\ damaged' /\ phase' # "up" /\ pc' = pc
            /\ UNCHANGED <<memory, saving, after, candidates, acked>>
        BY <2>13 DEF Corrupt
      <3> QED
        BY <3>1 DEF LoadableInv
    <2> QED
      BY <1>2, <2>1, <2>2, <2>3, <2>5, <2>6, <2>7, <2>8, <2>9, <2>10, <2>11, <2>12, <2>13 DEF Next
  <1> QED
    BY <1>1, <1>2

(* "durable intent survives": decode_durable_state accepts every file that *)
(* save() left behind, under the four conditions that nothing in the code  *)
(* enforces: widths that fit a payload and references that fit a policy    *)
(* are registered, no profile is registered again with another width, and  *)
(* there is room among the publishers for the fenced boots.                *)
THEOREM SavedFilesLoad ==
    ASSUME DecodableSizes
    PROVE  Spec /\ [][KeepsWidth]_vars /\ []FencedFit => []SavedFileLoads
  <1>1. Init => LoadableInv
    BY EmptyIsWhole DEF Init, LoadableInv
  <1>2. StateInv /\ LoadableInv /\ FencedFit /\ [KeepsWidth]_vars /\ [Next]_vars => LoadableInv'
    BY LoadableStep
  <1>3. StateInv /\ LoadableInv => SavedFileLoads
    <2> SUFFICES ASSUME StateInv, LoadableInv, ~ damaged, file # NoFile
                 PROVE  Accepts(file)
      BY DEF SavedFileLoads
    <2>1. PICK m \in candidates : file = Encode(m) /\ ~ Oversized(m)
      BY DEF LoadableInv
    <2>2. Proper(m) /\ Whole(m) /\ Fits(m)
      BY DEF StateInv, ImagesInv, LoadableInv
    <2> QED
      BY <2>1, <2>2, AcceptsOwnFile
  <1> QED
    BY <1>1, <1>2, <1>3, StateInvariance, PTL DEF Spec
================================================================================
