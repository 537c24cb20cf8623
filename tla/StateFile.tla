------------------------------- MODULE StateFile -------------------------------
(***************************************************************************)
(* The state file of src/persistence.cpp: how a durable image becomes a    *)
(* file, what is accepted as one, and how a save replaces the file of the  *)
(* save before it.  SegmentStore takes a save for one step that either     *)
(* replaces the image or leaves it alone, and takes every image it saved   *)
(* for one that it can load; this module is about both.                    *)
(*                                                                         *)
(* Abstraction.  A file is a sequence of units: the header, one unit per   *)
(* record, and the trailer.  A record keeps the fields that decoding looks *)
(* at: an identity, a reference, a value, and for a list the payload width *)
(* its digests were computed with, which stands for the digests.  A CRC is *)
(* what it was computed from.  All saves are made under the lock of the    *)
(* store, so there is one at a time.                                       *)
(***************************************************************************)
EXTENDS Naturals, Sequences, SequencesExt, FiniteSets

CONSTANTS
    Profiles, Policies, Lists, Attempts, Boots,
    Widths,             \* the payload widths profiles are registered with
    Refs,               \* the numbers of references policies are registered with
    MaxPayload,         \* max_segment_payload_bytes
    MaxRefs,            \* the references decode_policy takes: 64 or 256
    MaxRecordRefs,      \* the references that fit max_persistence_record_bytes
    MaxLists, MaxAttemptRecords, MaxHistory, MaxPublishers,
    MaxRevision,        \* bound on the number of commits
    Damage,             \* what may happen to the file: "power", "corruption"
    NoFile

ASSUME StateFileAssumption ==
    /\ Widths \cup Refs \cup {MaxPayload, MaxRefs, MaxRecordRefs, MaxLists,
           MaxAttemptRecords, MaxHistory, MaxPublishers, MaxRevision} \subseteq Nat
    /\ 0 \notin Widths \cup Refs
    /\ \A s \in {Profiles, Policies, Lists, Attempts, Boots} : IsFiniteSet(s)
    /\ Damage \subseteq {"power", "corruption"}

(* The units of a file.  Its CRC is what makes a trailer fit its records.  *)
RecordUnit ==
    [type : {"Meta", "Profile", "Policy", "List", "History", "Attempt", "Publisher", "FencedBoot"},
     id : Profiles \cup Policies \cup Lists \cup Attempts \cup Boots \cup Nat,
     ref : Profiles \cup {0}, val : Nat, digest : Nat]

Unit ==
    [type : {"Header"}, length : Nat, count : Nat, crc : Nat \X Nat]
    \cup RecordUnit
    \cup [type : {"Trailer"}, crc : Seq(RecordUnit)]

ASSUME NoFileAssumption == NoFile \notin Seq(Unit)

(* DurableState.  A profile is its payload width, 0 if not registered; a   *)
(* policy is its references, likewise.  profile = 0 stands for no list.    *)
NoList == [profile |-> 0, digest |-> 0]

EmptyImage ==
    [revision |-> 0, profiles |-> [p \in Profiles |-> 0],
     policies |-> [p \in Policies |-> 0], lists |-> [l \in Lists |-> NoList],
     history |-> 0, attempts |-> {}, publishers |-> {}, fenced |-> {}]

Image ==
    [revision : 0 .. MaxRevision, profiles : [Profiles -> Widths \cup {0}],
     policies : [Policies -> Refs \cup {0}],
     lists : [Lists -> [profile : Profiles \cup {0}, digest : Widths \cup {0}]],
     history : 0 .. MaxHistory, attempts : SUBSET Attempts,
     publishers : SUBSET Boots, fenced : SUBSET Boots]

VARIABLES
    phase,      \* "down", "up" or "refused": the process
    memory,     \* the tables of the running store
    saving,     \* the image being saved
    after,      \* the image the store goes on with once it is saved
    pc,         \* where save() is
    file,       \* the state file, or NoFile
    temp        \* the temporary file, or NoFile

(* Auxiliary variables. *)
VARIABLES
    candidates, \* the images the file may hold: the last one saved, and the one being saved
    acked,      \* the last image that save() reported saved
    damaged     \* whether the file was damaged from outside

vars == <<phase, memory, saving, after, pc, file, temp, candidates, acked, damaged>>
--------------------------------------------------------------------------------
(* Encoding. *)

Record(type, id, ref, val, digest) ==
    [type |-> type, id |-> id, ref |-> ref, val |-> val, digest |-> digest]

(* The records of encode_durable_state, table by table.  A list is written *)
(* with the width that its profile has now, not with the one it was        *)
(* digested with.                                                          *)
Records(m) ==
    LET profiles == {p \in Profiles : m.profiles[p] # 0}
        policies == {p \in Policies : m.policies[p] # 0}
        lists    == {l \in Lists : m.lists[l] # NoList}
        list(l)  == Record("List", l, m.lists[l].profile, m.profiles[m.lists[l].profile],
                           m.lists[l].digest)
    IN  <<Record("Meta", 0, 0, m.revision, 0)>>
        \o SetToSeq({Record("Profile", p, 0, m.profiles[p], 0) : p \in profiles})
        \o SetToSeq({Record("Policy", p, 0, m.policies[p], 0) : p \in policies})
        \o SetToSeq({list(l) : l \in lists})
        \o SetToSeq({Record("History", h, 0, 0, 0) : h \in 1 .. m.history})
        \o SetToSeq({Record("Attempt", a, 0, 1, 0) : a \in m.attempts})
        \o SetToSeq({Record("Publisher", b, 0, 0, 0) : b \in m.publishers})
        \o SetToSeq({Record("FencedBoot", b, 0, 0, 0) : b \in m.fenced})

Header(recs)  == [type |-> "Header", length |-> Len(recs), count |-> Len(recs),
                  crc |-> <<Len(recs), Len(recs)>>]
Trailer(recs) == [type |-> "Trailer", crc |-> recs]

Encode(m) == <<Header(Records(m))>> \o Records(m) \o <<Trailer(Records(m))>>

(* Encoder::emit: a record that is too large fails the whole save. *)
Oversized(m) == \E p \in Policies : m.policies[p] > MaxRecordRefs
--------------------------------------------------------------------------------
(* Decoding. *)

RecordsOf(f) == SubSeq(f, 2, Len(f) - 1)

Count(recs, type) == Cardinality({i \in 1 .. Len(recs) : recs[i].type = type})

(* Mutant: the integrity of the records is not verified. *)
FrameOk_NoCrc(f) ==
    /\ Len(f) >= 2
    /\ f[1].type = "Header"
    /\ f[1].crc = <<f[1].length, f[1].count>>
    /\ Len(f) = f[1].length + 2

(* The frame: header, lengths and CRCs. *)
FrameOk(f) ==
    /\ Len(f) >= 2
    /\ f[1].type = "Header"
    /\ f[1].crc = <<f[1].length, f[1].count>>
    /\ Len(f) = f[1].length + 2
    /\ f[Len(f)] = Trailer(RecordsOf(f))

(* The plausible number of records has no term for the fenced boots. *)
CountOk(f) ==
    /\ f[1].count <= MaxLists + Cardinality(Profiles) + Cardinality(Policies) + MaxHistory
                         + MaxAttemptRecords + MaxPublishers + 1
    /\ f[1].count = Len(RecordsOf(f))

DecodeProfile(r) == r.val # 0

DecodePolicy(r) == r.val <= MaxRefs

(* decode_list: the profile was read before, and the digests computed with *)
(* the width in the record are those in the record.                        *)
DecodeList(recs, i) ==
    /\ recs[i].val \in 1 .. MaxPayload
    /\ \E j \in 1 .. i - 1 : recs[j].type = "Profile" /\ recs[j].id = recs[i].ref
    /\ recs[i].val = recs[i].digest

(* Every record decodes, and no profile, policy or list comes twice. *)
RecordOk(recs, i) ==
    /\ recs[i].type = "Profile" => DecodeProfile(recs[i])
    /\ recs[i].type = "Policy" => DecodePolicy(recs[i])
    /\ recs[i].type = "List" => DecodeList(recs, i)
    /\ recs[i].type \in {"Profile", "Policy", "List"} =>
           \A j \in 1 .. i - 1 :
               recs[j].type = recs[i].type => recs[j].id # recs[i].id

TablesOk(recs) ==
    /\ Count(recs, "History") <= MaxHistory
    /\ Count(recs, "Attempt") <= MaxAttemptRecords
    /\ Count(recs, "List") <= MaxLists
    /\ Count(recs, "Publisher") <= MaxPublishers

(* decode_durable_state accepts the file. *)
Accepts(f) ==
    /\ FrameOk(f)
    /\ CountOk(f)
    /\ \A i \in 1 .. Len(RecordsOf(f)) : RecordOk(RecordsOf(f), i)
    /\ TablesOk(RecordsOf(f))

(* The image an accepted file decodes to. *)
Decoded(f) ==
    LET recs     == RecordsOf(f)
        of(type) == {recs[i] : i \in {j \in 1 .. Len(recs) : recs[j].type = type}}
        ids(type) == {r.id : r \in of(type)}
        value(type, x) == IF x \in ids(type) THEN (CHOOSE r \in of(type) : r.id = x).val ELSE 0
    IN  [revision |-> value("Meta", 0),
         profiles |-> [p \in Profiles |-> value("Profile", p)],
         policies |-> [p \in Policies |-> value("Policy", p)],
         lists |-> [l \in Lists |->
                       IF l \in ids("List")
                       THEN LET r == CHOOSE r \in of("List") : r.id = l
                            IN  [profile |-> r.ref, digest |-> r.digest]
                       ELSE NoList],
         history |-> Count(recs, "History"),
         attempts |-> {r.id : r \in {x \in of("Attempt") : x.val = 1}},
         publishers |-> ids("Publisher"), fenced |-> ids("FencedBoot")]
--------------------------------------------------------------------------------
TypeOK ==
    /\ phase \in {"down", "up", "refused"}
    /\ pc \in {"idle", "encode", "open", "write", "rename", "renamed"}
    /\ {memory, saving, after, acked} \cup candidates \subseteq Image
    /\ damaged \in BOOLEAN

Init ==
    /\ phase = "down"
    /\ memory = EmptyImage /\ saving = EmptyImage /\ after = EmptyImage
    /\ pc = "idle"
    /\ file = NoFile /\ temp = NoFile
    /\ candidates = {EmptyImage} /\ acked = EmptyImage /\ damaged = FALSE

(* A call of the store that saves: it has set the tables to now, and only  *)
(* if next is saved are they set to then.                                  *)
BeginSave(now, next, then) ==
    /\ phase = "up" /\ pc = "idle"
    /\ memory' = now
    /\ saving' = next
    /\ after' = then
    /\ pc' = "encode"
    /\ candidates' = {acked, next}
    /\ UNCHANGED <<phase, file, temp, acked, damaged>>

(* The registry is changed for good before it is saved, and the revision   *)
(* counts up after the save, so that the file does not have it.            *)
Register(m) ==
    /\ m.revision < MaxRevision
    /\ BeginSave(m, m, [m EXCEPT !.revision = @ + 1])

(* register_profile: any positive width, and a new one for a known profile. *)
RegisterProfile(p, w) == Register([memory EXCEPT !.profiles[p] = w])

(* register_policy: any number of references. *)
RegisterPolicy(p, n) == Register([memory EXCEPT !.policies[p] = n])

(* Mutant: the history is not cut at its limit. *)
CommitList_KeepsHistory(l, p, a) ==
    /\ memory.revision < MaxRevision
    /\ memory.profiles[p] # 0
    /\ a \notin memory.attempts
    /\ Cardinality(memory.attempts) < MaxAttemptRecords
    /\ Cardinality({x \in Lists : memory.lists[x] # NoList} \cup {l}) <= MaxLists
    /\ LET m == [memory EXCEPT !.revision = @ + 1,
                               !.lists[l] = [profile |-> p, digest |-> memory.profiles[p]],
                               !.history = @ + 1,
                               !.attempts = @ \cup {a}]
       IN  BeginSave(memory, m, m)

(* A commit: a list under a registered profile, digested with its width.   *)
CommitList(l, p, a) ==
    /\ memory.revision < MaxRevision
    /\ memory.profiles[p] # 0
    /\ a \notin memory.attempts
    /\ Cardinality(memory.attempts) < MaxAttemptRecords
    /\ Cardinality({x \in Lists : memory.lists[x] # NoList} \cup {l}) <= MaxLists
    /\ LET m == [memory EXCEPT !.revision = @ + 1,
                               !.lists[l] = [profile |-> p, digest |-> memory.profiles[p]],
                               !.history = IF @ < MaxHistory THEN @ + 1 ELSE @,
                               !.attempts = @ \cup {a}]
       IN  BeginSave(memory, m, m)

(* register_publisher and mark_dead, which save nothing themselves. *)
RegisterPublisher(b) ==
    /\ phase = "up" /\ pc = "idle"
    /\ b \notin memory.publishers \cup memory.fenced
    /\ Cardinality(memory.publishers) < MaxPublishers
    /\ memory' = [memory EXCEPT !.publishers = @ \cup {b}]
    /\ UNCHANGED <<phase, saving, after, pc, file, temp, candidates, acked, damaged>>

FencePublisher(b) ==
    /\ phase = "up" /\ pc = "idle"
    /\ b \in memory.publishers \ memory.fenced
    /\ memory' = [memory EXCEPT !.fenced = @ \cup {b}]
    /\ UNCHANGED <<phase, saving, after, pc, file, temp, candidates, acked, damaged>>
--------------------------------------------------------------------------------
(* FilePersistence::save. *)

(* save() returns false: the caller goes on with what it had. *)
SaveFails ==
    /\ pc' = "idle"
    /\ saving' = EmptyImage /\ after' = EmptyImage
    /\ candidates' = {acked}
    /\ UNCHANGED <<phase, memory, file, acked, damaged>>

StartSave ==
    /\ pc = "encode"
    /\ IF Oversized(saving)
       THEN SaveFails /\ UNCHANGED temp
       ELSE /\ pc' = "open"
            /\ UNCHANGED <<phase, memory, saving, after, file, temp, candidates, acked, damaged>>

(* The temporary file is created or truncated, or cannot be opened. *)
OpenTemp ==
    /\ pc = "open"
    /\ \/ /\ temp' = <<>>
          /\ pc' = "write"
          /\ UNCHANGED <<phase, memory, saving, after, file, candidates, acked, damaged>>
       \/ SaveFails /\ UNCHANGED temp

(* Mutant: the file itself is rewritten. *)
WriteTemp_InPlace ==
    /\ pc = "write"
    /\ \E n \in 0 .. Len(Encode(saving)) :
          /\ file' = SubSeq(Encode(saving), 1, n)
          /\ temp' = SubSeq(Encode(saving), 1, n)
          /\ pc' = IF n = Len(Encode(saving)) THEN "rename" ELSE pc
    /\ UNCHANGED <<phase, memory, saving, after, candidates, acked, damaged>>

(* It is written piece by piece, and removed if writing fails. *)
WriteTemp ==
    /\ pc = "write"
    /\ \/ /\ temp' \in {SubSeq(Encode(saving), 1, n) : n \in Len(temp) + 1 .. Len(Encode(saving))}
          /\ pc' = IF temp' = Encode(saving) THEN "rename" ELSE pc
          /\ UNCHANGED <<phase, memory, saving, after, file, candidates, acked, damaged>>
       \/ SaveFails /\ temp' = NoFile

(* Mutant: a failed rename is taken for a success. *)
Rename_IgnoresError ==
    /\ pc = "rename"
    /\ file' \in {file, temp}
    /\ temp' = NoFile
    /\ pc' = "renamed"
    /\ UNCHANGED <<phase, memory, saving, after, candidates, acked, damaged>>

(* It replaces the state file, or it is removed. *)
Rename ==
    /\ pc = "rename"
    /\ temp' = NoFile
    /\ \/ /\ file' = temp
          /\ pc' = "renamed"
          /\ UNCHANGED <<phase, memory, saving, after, candidates, acked, damaged>>
       \/ SaveFails

(* save() returns true, and the store swaps the image in. *)
SaveSucceeds ==
    /\ pc = "renamed"
    /\ pc' = "idle"
    /\ memory' = after
    /\ acked' = saving
    /\ candidates' = {saving}
    /\ saving' = EmptyImage /\ after' = EmptyImage
    /\ UNCHANGED <<phase, file, temp, damaged>>
--------------------------------------------------------------------------------
(* The process. *)

Stop(f) ==
    /\ phase' = "down"
    /\ memory' = EmptyImage /\ saving' = EmptyImage /\ after' = EmptyImage
    /\ pc' = "idle"
    /\ file' = f
    /\ UNCHANGED <<temp, candidates, acked>>

(* The process ends, at any point of a save; the files stay as they are. *)
Crash ==
    /\ phase # "down"
    /\ Stop(file)
    /\ UNCHANGED damaged

(* The machine loses power: of the state file, which is never synchronised *)
(* to the disk, any first part may be left.                                *)
LosePower ==
    /\ "power" \in Damage
    /\ phase = "up"
    /\ file # NoFile
    /\ \E n \in 0 .. Len(file) - 1 : Stop(SubSeq(file, 1, n))
    /\ damaged' = TRUE

(* A record of the stored file is overwritten with zeros, but for its      *)
(* type and identity.                                                      *)
Corrupt(i) ==
    /\ "corruption" \in Damage
    /\ phase = "down" /\ file # NoFile
    /\ i \in 2 .. Len(file) - 1
    /\ file[i].type \notin {"Header", "Trailer"}
    /\ file' = [file EXCEPT ![i].val = 0, ![i].digest = 0]
    /\ file' # file
    /\ damaged' = TRUE
    /\ UNCHANGED <<phase, memory, saving, after, pc, temp, candidates, acked>>

(* FilePersistence::load: the temporary file is not looked at.  A file that *)
(* is not accepted stops the coordinator from starting.                    *)
Load ==
    /\ phase = "down"
    /\ IF file = NoFile THEN phase' = "up" /\ memory' = EmptyImage
       ELSE IF Accepts(file) THEN phase' = "up" /\ memory' = Decoded(file)
       ELSE phase' = "refused" /\ UNCHANGED memory
    /\ acked' = IF phase' = "up" THEN memory' ELSE acked
    /\ candidates' = IF phase' = "up" THEN {memory'} ELSE candidates
    /\ UNCHANGED <<saving, after, pc, file, temp, damaged>>

Next ==
    \/ \E p \in Profiles, w \in Widths : RegisterProfile(p, w)
    \/ \E p \in Policies, n \in Refs : RegisterPolicy(p, n)
    \/ \E l \in Lists, p \in Profiles, a \in Attempts : CommitList(l, p, a)
    \/ \E b \in Boots : RegisterPublisher(b) \/ FencePublisher(b)
    \/ StartSave \/ OpenTemp \/ WriteTemp \/ Rename \/ SaveSucceeds
    \/ Crash \/ LosePower \/ Load
    \/ file # NoFile /\ \E i \in 1 .. Len(file) : Corrupt(i)

Spec == Init /\ [][Next]_vars
--------------------------------------------------------------------------------
(* Properties. *)

(* A save is atomic for whoever starts next: wherever the process ends and *)
(* whichever step of a save fails, what is loaded is the image of the last *)
(* acknowledged save or the image that was being saved, complete.  Damage  *)
(* to the file is noticed and never loaded as a different image.           *)
LoadsWhatWasSaved ==
    [][phase = "down" /\ phase' = "up" => memory' \in candidates]_vars

(* What was acknowledged stays in the file until a later save replaces it, *)
(* and a save that fails or is cut short leaves no trace in it.            *)
AckedStaysInFile ==
    ~ damaged /\ acked # EmptyImage => file \in {Encode(m) : m \in candidates}

(* "durable intent survives": a coordinator can start from every file that *)
(* its own saves left behind.                                              *)
SavedFileLoads == ~ damaged /\ file # NoFile => Accepts(file)
================================================================================
