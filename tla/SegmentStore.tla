----------------------------- MODULE SegmentStore ------------------------------
(***************************************************************************)
(* The segment-list store of src/store.cpp with everything it is composed  *)
(* of: the registry of profiles and policies, the authority table, the     *)
(* upstream evidence it binds to, and the durable image it is recovered    *)
(* from.                                                                   *)
(*                                                                         *)
(* Calls run on concurrent threads.  A mutation is two-phase: it reads the *)
(* evidence outside the lock, captures the store under the lock, validates *)
(* outside it, and re-verifies, persists and swaps under it again.  One    *)
(* action is one stretch of code between two points where another thread   *)
(* can interleave.  Phase C (validation) only reads what phase B captured, *)
(* so the two are one action.                                              *)
(*                                                                         *)
(* Abstraction.  A dependency is one generation-numbered fact.  There are  *)
(* four classes, which differ in how a draft binds them:                   *)
(*   RegistryDeps  profiles and policies: bound to the registered          *)
(*                 generation, which the draft may also demand;            *)
(*   FabricDeps    topology and capability: the generation the draft       *)
(*                 demands, else the observed one if the content needs it; *)
(*   PinnedDeps    adjacencies: the generation is part of the segments;    *)
(*   DeclaredDeps  path, route and constraint: the draft must declare it.  *)
(* Generation 0 stands for "absent" or "not given" as it does in the code. *)
(* A payload digest is modelled by the draft it digests.                   *)
(***************************************************************************)
EXTENDS Naturals, Sequences, FiniteSets, FiniteSetsExt, Lifecycle

CONSTANTS
    Lists,              \* segment-list identifiers
    Attempts,           \* mutation attempt identifiers
    Publishers,         \* publisher identifiers
    Boots,              \* worker boot identifiers
    Threads,            \* threads calling into the store
    RegistryDeps, FabricDeps, PinnedDeps, DeclaredDeps,
    Builtins,           \* the profiles a coordinator declares when it starts
    Bodies,             \* the draft contents callers submit
    MaxAttemptRecords, MaxLists, MaxTotalSegments, MaxHistory, MaxPublishers,
    MaxGeneration,      \* the list generation that cannot be advanced further
    MaxEpoch,           \* the epoch that cannot be advanced further
    MaxDepGeneration,   \* bound on dependency generations
    MaxEvidence,        \* bound on the number of evidence changes
    Calls,              \* the calls the embedding program makes, transitions by their event
    EpochAdvances,      \* whether the embedding program advances the epoch in service
    SavesFail,          \* whether saving the state file can fail in service
    None

CommitEvents == {"ValidateBegin", "ReplaceBegin", "RevalidateBegin"}
TransitionEvents == {"WithdrawBegin", "WithdrawCommit", "Revoke", "Retire"}

EvidenceDeps == FabricDeps \cup PinnedDeps \cup DeclaredDeps
Deps == EvidenceDeps \cup RegistryDeps

View == [Deps -> Nat]

Body == [needs : SUBSET Deps, bind : View, segs : Nat]

ASSUME ConstantsAssumption ==
    /\ None \notin Lists \cup Attempts \cup Boots \cup Threads
    /\ RegistryDeps \cap EvidenceDeps = {}
    /\ FabricDeps \cap (PinnedDeps \cup DeclaredDeps) = {}
    /\ Builtins \subseteq RegistryDeps
    /\ Bodies \subseteq Body
    /\ {MaxAttemptRecords, MaxLists, MaxTotalSegments, MaxPublishers,
        MaxGeneration, MaxEpoch, MaxDepGeneration, MaxEvidence} \subseteq Nat
    /\ MaxHistory \in Nat \ {0}
    /\ {EpochAdvances, SavesFail} \subseteq BOOLEAN
    /\ Calls \subseteq {"mutate", "revalidate", "refresh", "register", "persist"}
                       \cup TransitionEvents

(* Every content refers to something (its profile), and a generation is    *)
(* given only for what the content refers to, or for a fabric-wide         *)
(* generation, which a draft may demand on its own.                        *)
ASSUME BodiesAssumption ==
    \A b \in Bodies :
        /\ b.needs # {}
        /\ \A d \in Deps \ (b.needs \cup FabricDeps) : b.bind[d] = 0

Currentness ==
    {"Unknown", "Current", "RevalidationRequired", "FencedPublisher",
     "StaleRegistry", "StaleFabric", "StaleDeclared", "StaleEpoch"}

(* The identifying part of ListDraft: what draft_payload_digest covers.    *)
Draft ==
    [id : Lists, needs : SUBSET Deps, bind : View, segs : Nat,
     expected : Nat, sup : Lists \cup {None}, supGen : Nat]

ASSUME NoneAssumption == None \notin Draft

(* SegmentList.  gen = 0: no such list. *)
List ==
    [gen : Nat, state : LifecycleState, cur : Currentness,
     needs : SUBSET Deps, bound : View, segs : Nat,
     boot : Boots \cup {None}, epoch : Nat, attempt : Attempts \cup {None},
     by : Lists \cup {None}, rev : Nat]

NoList ==
    [gen |-> 0, state |-> "Declared", cur |-> "Unknown",
     needs |-> {}, bound |-> [d \in Deps |-> 0], segs |-> 0,
     boot |-> None, epoch |-> 0, attempt |-> None, by |-> None, rev |-> 0]

(* DurableHistoryEntry *)
HistoryEntry == [id : Nat, list : Lists, gen : Nat, state : LifecycleState, rev : Nat]

(* PublisherState.  boot = None: never registered.  The code sets fenced   *)
(* and clears alive together everywhere, so alive stands for both.         *)
Publisher == [boot : Boots \cup {None}, alive : BOOLEAN]

(* DurableState *)
Image ==
    [lists : [Lists -> List], attempts : [Attempts -> Draft \cup {None}],
     history : Seq(HistoryEntry), revision : Nat, epoch : Nat,
     regs : [RegistryDeps -> Nat], pubs : [Publishers -> Publisher],
     fenced : SUBSET Boots]

InitialEpoch == 1

InitImage ==
    [lists |-> [l \in Lists |-> NoList], attempts |-> [a \in Attempts |-> None],
     history |-> <<>>, revision |-> 0, epoch |-> InitialEpoch,
     regs |-> [d \in RegistryDeps |-> 0],
     pubs |-> [p \in Publishers |-> [boot |-> None, alive |-> FALSE]],
     fenced |-> {}]

(* No state file: an image that was never saved has the invalid epoch.     *)
NoImage == [InitImage EXCEPT !.epoch = 0]

(* What phase B captured for phase E: PreparedContext and PreparedMutation. *)
Plan ==
    [event : CommitEvents \cup TransitionEvents, draft : Draft,
     attempt : Attempts, boot : Boots, view : View,
     storeRev : Nat, regRev : Nat, epoch : Nat]

(* What a thread read outside the lock. *)
Observation == [wm : Nat, gen : [EvidenceDeps -> Nat], epoch : Nat]
Unseen == [wm |-> 0, gen |-> [d \in EvidenceDeps |-> 0], epoch |-> 0]

PCs == {"idle", "revalidate", "watermark", "snapshot", "prepared",
        "refreshing", "refresh", "registered", "saved"}

VARIABLES
    phase,          \* "down", "loaded" or "serving": the coordinator process
    store,          \* state_, the image callers see
    disk,           \* the image in the state file
    evidence,       \* the upstream fabric: [rev, gen]
    registry,       \* profiles and policies: [rev, gen]
    epoch,          \* AuthorityTable::epoch_
    publishers,     \* AuthorityTable::publishers_
    fencedBoots,    \* AuthorityTable::fenced_boots_
    lock,           \* the thread between persisting and swapping, or None
    pending,        \* the image that thread is about to swap in
    pc,             \* where each thread is
    seen,           \* what each thread read outside the lock
    request,        \* the draft a revalidation built, or None
    plan            \* what each thread prepared, or None

(* Auxiliary variables: no action depends on them. *)
VARIABLES
    acked,          \* attempts that were acknowledged
    served,         \* the highest epoch any incarnation served under
    everFenced      \* boots that were fenced in any incarnation

upstream  == <<evidence, registry>>
authority == <<epoch, publishers, fencedBoots>>
threads   == <<pc, seen, request, plan>>
ghosts    == <<acked, served, everFenced>>
vars == <<phase, store, disk, upstream, authority, lock, pending, threads, ghosts>>

TypeOK ==
    /\ phase \in {"down", "loaded", "serving"}
    /\ store \in Image /\ disk \in Image
    /\ evidence \in [rev : Nat, gen : [EvidenceDeps -> Nat]]
    /\ registry \in [rev : Nat, gen : [RegistryDeps -> Nat]]
    /\ epoch \in Nat
    /\ publishers \in [Publishers -> Publisher]
    /\ fencedBoots \in SUBSET Boots
    /\ lock \in Threads \cup {None}
    /\ pending \in Image \cup {None}
    /\ pc \in [Threads -> PCs]
    /\ seen \in [Threads -> Observation]
    /\ request \in [Threads -> Draft \cup {None}]
    /\ plan \in [Threads -> Plan \cup {None}]
    /\ acked \in SUBSET Attempts /\ served \in Nat /\ everFenced \in SUBSET Boots

Init ==
    /\ phase = "down"
    /\ store = InitImage /\ disk = NoImage
    /\ evidence = [rev |-> 0, gen |-> [d \in EvidenceDeps |-> 1]]
    /\ registry = [rev |-> 0, gen |-> [d \in RegistryDeps |-> 0]]
    /\ epoch = InitialEpoch
    /\ publishers = InitImage.pubs /\ fencedBoots = {}
    /\ lock = None /\ pending = None
    /\ pc = [t \in Threads |-> "idle"]
    /\ seen = [t \in Threads |-> Unseen]
    /\ request = [t \in Threads |-> None]
    /\ plan = [t \in Threads |-> None]
    /\ acked = {} /\ served = 0 /\ everFenced = {}
--------------------------------------------------------------------------------
(* Validation (validation.cpp), as far as the store's own state decides it. *)

(* check_caller_identity, check_epoch_boot_scope: the writer is registered *)
(* under this boot, alive and not fenced, and carries the current epoch,   *)
(* which must not be the last one.                                         *)
CallerOk(p, b) ==
    /\ publishers[p].boot = b
    /\ publishers[p].alive
    /\ b \notin fencedBoots
    /\ epoch # MaxEpoch

(* Mutant: the transition table is not consulted for a replacement. *)
LifecycleOk_AnyState(l, event, expected) ==
    /\ expected = l.gen
    /\ l.gen # 0 => /\ l.gen # MaxGeneration
                    /\ event # "ReplaceBegin" => Permits(l.state, event)
    /\ event = "ValidateBegin" => l.gen = 0
    /\ event \in TransitionEvents \cup {"RevalidateBegin"} => l.gen # 0

(* check_list_lifecycle, together with the checks run_batch adds: the      *)
(* expected generation is the existing one, or none when there is no list. *)
LifecycleOk(l, event, expected) ==
    /\ expected = l.gen
    /\ l.gen # 0 => /\ l.gen # MaxGeneration
                    /\ Permits(l.state, event)
    /\ event = "ValidateBegin" => l.gen = 0
    /\ event \in TransitionEvents \cup {"RevalidateBegin"} => l.gen # 0

(* check_profile .. check_constraint_binding: every generation the draft   *)
(* demands or declares is the one in the captured view.                    *)
Resolves(d, view) ==
    /\ \A x \in d.needs \cap RegistryDeps : view[x] # 0
    /\ \A x \in RegistryDeps \cup FabricDeps : d.bind[x] \in {0, view[x]}
    /\ \A x \in d.needs \cap (PinnedDeps \cup DeclaredDeps) :
           d.bind[x] # 0 /\ d.bind[x] = view[x]

(* The exact generations make_list binds. *)
Bind(d, view) ==
    [x \in Deps |->
        IF /\ x \in d.needs \cap (RegistryDeps \cup FabricDeps)
           /\ d.bind[x] = 0
        THEN view[x] ELSE d.bind[x]]

(* The superseded list, if the draft names one, exists at the generation   *)
(* the draft states and may be superseded.                                 *)
SupersedeOk(d, lists) ==
    d.sup # None =>
        /\ lists[d.sup].gen # 0
        /\ d.supGen = lists[d.sup].gen
        /\ Permits(lists[d.sup].state, "SupersedeBegin")

(* attempt_table_accepts_locked *)
AttemptTableAccepts(a) ==
    \/ store.attempts[a] # None
    \/ Cardinality({x \in Attempts : store.attempts[x] # None}) < MaxAttemptRecords
--------------------------------------------------------------------------------
(* Building the next image. *)

CurrentView ==
    [x \in Deps |-> IF x \in RegistryDeps THEN registry.gen[x] ELSE evidence.gen[x]]

(* make_list: a committed revision goes from Declared through Validating   *)
(* to Active, whatever the previous revision had to accept.                *)
MakeList(p) ==
    [gen |-> p.draft.expected + 1,
     state |-> Advance(Advance("Declared", "ValidateBegin"), "ValidateSucceed"),
     cur |-> "Current", needs |-> p.draft.needs, bound |-> Bind(p.draft, p.view),
     segs |-> p.draft.segs, boot |-> p.boot, epoch |-> p.epoch,
     attempt |-> p.attempt, by |-> None, rev |-> p.storeRev + 1]

(* Mutant: the identifier is the number of retained entries plus one. *)
NextHistoryId_Count(h) == Len(h) + 1

(* next_history_id *)
NextHistoryId(h) == IF h = <<>> THEN 1 ELSE h[Len(h)].id + 1

(* append_history_locked, for a list as it is in the image being built.    *)
(* The image's revision has been advanced already when this is called.     *)
AppendHistory(h, id, l, revision) ==
    Append(IF Len(h) >= MaxHistory THEN Tail(h) ELSE h,
           [id |-> NextHistoryId(h), list |-> id, gen |-> l.gen,
            state |-> l.state, rev |-> revision + 1])

(* Mutants: the image keeps the profiles and policies, or the publishers,  *)
(* it had before.                                                          *)
WithTables_NoRegistry(image) ==
    [image EXCEPT !.pubs = publishers, !.fenced = fencedBoots]

WithTables_NoPublishers(image) ==
    [image EXCEPT !.regs = registry.gen, !.fenced = fencedBoots]

(* Every save of a mutation carries the registry and the authority table. *)
WithTables(image) ==
    [image EXCEPT !.regs = registry.gen, !.pubs = publishers, !.fenced = fencedBoots]

(* The superseded list in the next image. *)
Supersede(l, p) ==
    [l EXCEPT !.state = Advance(@, "SupersedeBegin"), !.by = p.draft.id,
              !.cur = "Unknown", !.rev = store.revision + 1]

(* Mutant: the revision that is replaced is not recorded. *)
CommitImage_Forgets(p) ==
    WithTables([store EXCEPT
        !.lists[p.draft.id] = MakeList(p),
        !.history = AppendHistory(@, p.draft.id, MakeList(p), store.revision + 1),
        !.attempts[p.attempt] = p.draft,
        !.revision = @ + 1,
        !.epoch = p.epoch])

(* Phase E of run_batch for one draft, in the image being built: supersede, *)
(* replace or insert, append to the history, record the attempt.           *)
DraftApplied(image, p) ==
    LET id    == p.draft.id
        sup   == p.draft.sup
        rev   == store.revision + 1
        lists == IF sup = None THEN image.lists
                 ELSE [image.lists EXCEPT ![sup] = Supersede(@, p)]
        h1    == IF sup = None THEN image.history
                 ELSE AppendHistory(image.history, sup, lists[sup], rev)
        h2    == IF lists[id].gen = 0 THEN h1
                 ELSE AppendHistory(h1, id, [lists[id] EXCEPT !.state = "Superseded"], rev)
    IN  [image EXCEPT
            !.lists = [lists EXCEPT ![id] = MakeList(p)],
            !.history = AppendHistory(h2, id, MakeList(p), rev),
            !.attempts[p.attempt] = p.draft,
            !.revision = rev,
            !.epoch = p.epoch]

CommitImage(p) == WithTables(DraftApplied(store, p))

(* The tail of transition(): the state advances, the generation does not. *)
TransitionImage(p) ==
    LET id   == p.draft.id
        rev  == store.revision + 1
        list == [store.lists[id] EXCEPT
                    !.state = Advance(@, p.event), !.cur = "Unknown", !.rev = rev,
                    !.boot = p.boot, !.epoch = p.epoch, !.attempt = p.attempt]
    IN  WithTables([store EXCEPT
            !.lists[id] = list,
            !.history = AppendHistory(@, id, list, rev),
            !.attempts[p.attempt] = p.draft,
            !.revision = rev,
            !.epoch = p.epoch])

(* Whether what a list is bound to differs from the view. *)
Stale(l, x, view) ==
    IF x \in FabricDeps THEN l.bound[x] \notin {0, view[x]}
                        ELSE x \in l.needs /\ l.bound[x] # view[x]

(* The currentness refresh_currentness computes; the first cause wins.     *)
(* Stale causes of one class are not told apart.                           *)
Evaluate(l, view, e) ==
    IF l.boot \in fencedBoots THEN "FencedPublisher"
    ELSE IF \E x \in RegistryDeps : Stale(l, x, view) THEN "StaleRegistry"
    ELSE IF \E x \in FabricDeps \cup PinnedDeps : Stale(l, x, view) THEN "StaleFabric"
    ELSE IF \E x \in DeclaredDeps : Stale(l, x, view) THEN "StaleDeclared"
    ELSE IF l.epoch # e THEN "StaleEpoch"
    ELSE "Current"

(* Mutant: a list whose dependencies are back is active again. *)
Refreshed_Restores(l, view, e) ==
    LET c == Evaluate(l, view, e)
    IN  IF l.gen = 0 \/ l.state \in TerminalForActivation THEN l
        ELSE [l EXCEPT !.cur = c,
                       !.state = IF c # "Current" THEN "RevalidationRequired"
                                 ELSE "Active"]

(* One list in refresh_currentness. *)
Refreshed(l, view, e) ==
    LET c == Evaluate(l, view, e)
    IN  IF l.gen = 0 \/ l.state \in TerminalForActivation THEN l
        ELSE [l EXCEPT !.cur = c,
                       !.state = IF c # "Current" /\ @ = "Active"
                                 THEN "RevalidationRequired" ELSE @]

(* Mutant: recovery keeps the state of every list. *)
Recovered_KeepsState(l) == l

(* load(): durable intent survives, live authority does not. *)
Recovered(l) ==
    LET s == Advance(l.state, "RecoveryLoad")
    IN  IF l.gen = 0 THEN l
        ELSE [l EXCEPT !.state = s,
                       !.cur = IF s = "RevalidationRequired" THEN s ELSE "Unknown"]

TotalSegments(lists) == MapThenSumSet(LAMBDA l : lists[l].segs, Lists)
--------------------------------------------------------------------------------
(* Control of a thread. *)

At(t, label) == phase = "serving" /\ pc[t] = label

Return(t) ==
    /\ pc' = [pc EXCEPT ![t] = "idle"]
    /\ seen' = [seen EXCEPT ![t] = Unseen]
    /\ request' = [request EXCEPT ![t] = None]
    /\ plan' = [plan EXCEPT ![t] = None]

(* Mutant: the image is swapped in although saving it failed. *)
Save_IgnoresFailure(t, image, after) ==
    /\ lock = None
    /\ disk' \in {disk, image}
    /\ pending' = after
    /\ lock' = t
    /\ pc' = [pc EXCEPT ![t] = "saved"]
    /\ seen' = [seen EXCEPT ![t] = Unseen]
    /\ request' = [request EXCEPT ![t] = None]
    /\ UNCHANGED plan

(* persist_locked: the candidate image is saved, and only then may it be   *)
(* swapped in; if saving fails the call returns and nothing is swapped.    *)
Save(t, image, after) ==
    /\ lock = None
    /\ \/ /\ disk' = image
          /\ pending' = after
          /\ lock' = t
          /\ pc' = [pc EXCEPT ![t] = "saved"]
          /\ seen' = [seen EXCEPT ![t] = Unseen]
          /\ request' = [request EXCEPT ![t] = None]
          /\ UNCHANGED plan
       \/ /\ SavesFail
          /\ Return(t)
          /\ UNCHANGED <<disk, pending, lock>>

(* state_ = std::move(next), the call returns Ok and releases the lock. *)
Swap(t) ==
    /\ At(t, "saved")
    /\ store' = pending
    /\ pending' = None
    /\ lock' = None
    /\ acked' = IF plan[t] = None THEN acked ELSE acked \cup {plan[t].attempt}
    /\ Return(t)
    /\ UNCHANGED <<phase, disk, upstream, authority, served, everFenced>>

(* revalidate(): the draft is built from the list under the lock, which is *)
(* then released.  Only what is part of the content keeps its generation.  *)
RevalidateRead(t, id, expected) ==
    /\ At(t, "idle")
    /\ lock = None
    /\ store.lists[id].gen # 0
    /\ pc' = [pc EXCEPT ![t] = "revalidate"]
    /\ request' = [request EXCEPT ![t] =
           LET l == store.lists[id] IN
           [id |-> id, needs |-> l.needs, segs |-> l.segs,
            bind |-> [x \in Deps |-> IF x \in PinnedDeps THEN l.bound[x] ELSE 0],
            expected |-> IF expected = 0 THEN l.gen ELSE expected,
            sup |-> None, supGen |-> 0]]
    /\ UNCHANGED <<phase, store, disk, upstream, authority, lock, pending, seen, plan, ghosts>>

(* Phase A of run_batch and transition: the watermark is read first ... *)
ReadWatermark(t) ==
    /\ At(t, "idle") \/ At(t, "revalidate")
    /\ pc' = [pc EXCEPT ![t] = "watermark"]
    /\ seen' = [seen EXCEPT ![t].wm = evidence.rev]
    /\ UNCHANGED <<phase, store, disk, upstream, authority, lock, pending, request, plan, ghosts>>

(* ... and the evidence after it. *)
ReadSnapshot(t) ==
    /\ At(t, "watermark")
    /\ pc' = [pc EXCEPT ![t] = "snapshot"]
    /\ seen' = [seen EXCEPT ![t].gen = evidence.gen]
    /\ UNCHANGED <<phase, store, disk, upstream, authority, lock, pending, request, plan, ghosts>>

(* Phase B: the attempt is recorded with exactly this payload, which is    *)
(* never that of a transition: the two are digested in different forms.    *)
Replay(t, a) ==
    /\ At(t, "snapshot")
    /\ lock = None
    /\ store.attempts[a] # None
    /\ store.attempts[a].needs # {}
    /\ request[t] # None => request[t] = store.attempts[a]
    /\ acked' = acked \cup {a}
    /\ Return(t)
    /\ UNCHANGED <<phase, store, disk, upstream, authority, lock, pending, served, everFenced>>

CapturedView(t) ==
    [x \in Deps |-> IF x \in RegistryDeps THEN registry.gen[x] ELSE seen[t].gen[x]]

MakePlan(t, event, d, a, b) ==
    [event |-> event, draft |-> d, attempt |-> a, boot |-> b,
     view |-> CapturedView(t), storeRev |-> store.revision,
     regRev |-> registry.rev, epoch |-> epoch]

Prepare(t, p) ==
    /\ pc' = [pc EXCEPT ![t] = "prepared"]
    /\ request' = [request EXCEPT ![t] = None]
    /\ plan' = [plan EXCEPT ![t] = p]
    /\ UNCHANGED <<phase, store, disk, upstream, authority, lock, pending, seen, ghosts>>

(* Mutant: the attempt is not looked up. *)
PrepareCommit_NoLookup(t, event, d, a, p, b) ==
    /\ At(t, "snapshot")
    /\ lock = None
    /\ AttemptTableAccepts(a)
    /\ CallerOk(p, b)
    /\ LifecycleOk(store.lists[d.id], event, d.expected)
    /\ Resolves(d, CapturedView(t))
    /\ SupersedeOk(d, store.lists)
    /\ Prepare(t, MakePlan(t, event, d, a, b))

(* Phases B and C of run_batch for one draft: create_list, replace_list    *)
(* and a batch of one (which require the list to be absent, present, or    *)
(* neither), or the revalidation whose draft is at hand.                   *)
PrepareCommit(t, event, d, a, p, b) ==
    /\ At(t, "snapshot")
    /\ lock = None
    /\ store.attempts[a] = None
    /\ AttemptTableAccepts(a)
    /\ CallerOk(p, b)
    /\ LifecycleOk(store.lists[d.id], event, d.expected)
    /\ Resolves(d, CapturedView(t))
    /\ SupersedeOk(d, store.lists)
    /\ Prepare(t, MakePlan(t, event, d, a, b))

(* transition() up to the second lock.  Unlike run_batch it does not look  *)
(* the attempt up.  Its payload covers the list and the generation only.   *)
PrepareTransition(t, event, id, a, p, b) ==
    /\ At(t, "snapshot")
    /\ lock = None
    /\ request[t] = None
    /\ AttemptTableAccepts(a)
    /\ CallerOk(p, b)
    /\ LifecycleOk(store.lists[id], event, store.lists[id].gen)
    /\ Prepare(t, MakePlan(t, event,
           [id |-> id, needs |-> {}, bind |-> [x \in Deps |-> 0], segs |-> 0,
            expected |-> store.lists[id].gen, sup |-> None, supGen |-> 0], a, b))

(* A call refused in phase A, B or C.  A caller that names no publisher is *)
(* always refused, so there is no state in which a call cannot be.         *)
Refuse(t) ==
    /\ At(t, "snapshot")
    /\ Return(t)
    /\ UNCHANGED <<phase, store, disk, upstream, authority, lock, pending, ghosts>>

(* Mutants: phase E does not read the watermark of the evidence again, or  *)
(* the revision of the store only in a transition or a supersession.       *)
Verified_NoWatermark(t) ==
    LET p == plan[t]
    IN  /\ store.revision = p.storeRev
        /\ p.event \in CommitEvents => registry.rev = p.regRev
        /\ epoch = p.epoch

Verified_NoRevision(t) ==
    LET p == plan[t]
    IN  /\ (p.event \in CommitEvents => p.draft.sup # None) => store.revision = p.storeRev
        /\ p.event \in CommitEvents => registry.rev = p.regRev
        /\ epoch = p.epoch
        /\ evidence.rev = seen[t].wm

(* Phase E: every generation and watermark is read again.  run_batch also  *)
(* verifies the registry revision; neither verifies the fencing of the     *)
(* caller again.                                                           *)
Verified(t) ==
    LET p == plan[t]
        d == p.draft
    IN  /\ store.revision = p.storeRev
        /\ p.event \in CommitEvents => registry.rev = p.regRev
        /\ epoch = p.epoch
        /\ evidence.rev = seen[t].wm
        /\ store.lists[d.id].gen = d.expected
        /\ d.sup # None => store.lists[d.sup].gen = d.supGen

(* The limits run_batch enforces before it builds the next image. *)
WithinLimits(p) ==
    LET new == store.lists[p.draft.id].gen = 0
    IN  /\ Cardinality({l \in Lists : store.lists[l].gen # 0})
               + (IF new THEN 1 ELSE 0) <= MaxLists
        /\ TotalSegments(store.lists)
               + (IF new THEN p.draft.segs ELSE 0) <= MaxTotalSegments

Commit(t) ==
    /\ At(t, "prepared")
    /\ plan[t].event \in CommitEvents
    /\ Verified(t)
    /\ WithinLimits(plan[t])
    /\ Save(t, CommitImage(plan[t]), CommitImage(plan[t]))
    /\ UNCHANGED <<phase, store, upstream, authority, ghosts>>

CommitTransition(t) ==
    /\ At(t, "prepared")
    /\ plan[t].event \in TransitionEvents
    /\ Verified(t)
    /\ Save(t, TransitionImage(plan[t]), TransitionImage(plan[t]))
    /\ UNCHANGED <<phase, store, upstream, authority, ghosts>>

RefuseCommit(t) ==
    /\ At(t, "prepared")
    /\ lock = None
    /\ ~ (Verified(t) /\ (plan[t].event \in CommitEvents => WithinLimits(plan[t])))
    /\ Return(t)
    /\ UNCHANGED <<phase, store, disk, upstream, authority, lock, pending, ghosts>>

(* refresh_currentness(): the evidence and then the epoch are read without *)
(* the lock ...                                                            *)
RefreshReadEvidence(t) ==
    /\ At(t, "idle")
    /\ pc' = [pc EXCEPT ![t] = "refreshing"]
    /\ seen' = [seen EXCEPT ![t].gen = evidence.gen]
    /\ UNCHANGED <<phase, store, disk, upstream, authority, lock, pending, request, plan, ghosts>>

RefreshReadEpoch(t) ==
    /\ At(t, "refreshing")
    /\ pc' = [pc EXCEPT ![t] = "refresh"]
    /\ seen' = [seen EXCEPT ![t].epoch = epoch]
    /\ UNCHANGED <<phase, store, disk, upstream, authority, lock, pending, request, plan, ghosts>>

(* ... and every list is re-evaluated under it against what was read then, *)
(* against the registry as it is now and against the fenced boots.  Only a *)
(* change is saved; the tables in the image are not refreshed.             *)
RefreshApply(t) ==
    LET lists == [l \in Lists |->
                     Refreshed(store.lists[l], CapturedView(t), seen[t].epoch)]
        image == [store EXCEPT !.lists = lists, !.revision = @ + 1]
    IN  /\ At(t, "refresh")
        /\ lock = None
        /\ IF lists = store.lists
           THEN Return(t) /\ UNCHANGED <<disk, pending, lock>>
           ELSE Save(t, image, image)
        /\ UNCHANGED <<phase, store, upstream, authority, ghosts>>

(* register_profile / register_policy: the registry changes first, under   *)
(* its own lock, and is not restored when saving fails.                    *)
Register(t, x) ==
    /\ At(t, "idle")
    /\ registry.gen[x] < MaxDepGeneration
    /\ registry' = [rev |-> registry.rev + 1, gen |-> [registry.gen EXCEPT ![x] = @ + 1]]
    /\ pc' = [pc EXCEPT ![t] = "registered"]
    /\ UNCHANGED <<phase, store, disk, evidence, authority, lock, pending, seen, request, plan, ghosts>>

(* The saved image still has the old revision; the swapped one does not. *)
RegisterSave(t) ==
    /\ At(t, "registered")
    /\ Save(t, WithTables(store), [WithTables(store) EXCEPT !.revision = @ + 1])
    /\ UNCHANGED <<phase, store, upstream, authority, ghosts>>

(* persist_now.  A call that finds nothing to save but its own revision is *)
(* left out: the guard bounds the revision.                                *)
PersistNow(t) ==
    LET image == [WithTables(store) EXCEPT !.revision = @ + 1, !.epoch = epoch]
    IN  /\ At(t, "idle")
        /\ image # [store EXCEPT !.revision = @ + 1]
        /\ Save(t, image, image)
        /\ UNCHANGED <<phase, store, upstream, authority, ghosts>>
--------------------------------------------------------------------------------
(* The tables with locks of their own, and the upstream fabric. *)

(* advance_profile_generation / advance_policy_generation *)
AdvanceRegistry(x) ==
    /\ phase = "serving"
    /\ registry.gen[x] \in 1 .. MaxDepGeneration - 1
    /\ registry' = [rev |-> registry.rev + 1, gen |-> [registry.gen EXCEPT ![x] = @ + 1]]
    /\ UNCHANGED <<phase, store, disk, evidence, authority, lock, pending, threads, ghosts>>

(* Any setter of the evidence source; 0 removes a record. *)
ChangeEvidence(x, g) ==
    /\ evidence.rev < MaxEvidence
    /\ g # evidence.gen[x]
    /\ x \in FabricDeps => g # 0
    /\ evidence' = [rev |-> evidence.rev + 1, gen |-> [evidence.gen EXCEPT ![x] = g]]
    /\ UNCHANGED <<phase, store, disk, registry, authority, lock, pending, threads, ghosts>>

AdvanceEpoch ==
    /\ EpochAdvances
    /\ phase = "serving"
    /\ epoch < MaxEpoch
    /\ epoch' = epoch + 1
    /\ served' = epoch'
    /\ UNCHANGED <<phase, store, disk, upstream, publishers, fencedBoots, lock, pending, threads,
                   acked, everFenced>>

(* register_publisher: a known publisher keeps its boot for good. *)
RegisterPublisher(p, b) ==
    /\ phase = "serving"
    /\ b \notin fencedBoots
    /\ \/ publishers[p].boot = b
       \/ /\ publishers[p].boot = None
          /\ Cardinality({q \in Publishers : publishers[q].boot # None}) < MaxPublishers
    /\ publishers' = [publishers EXCEPT ![p] = [boot |-> b, alive |-> TRUE]]
    /\ UNCHANGED <<phase, store, disk, upstream, epoch, fencedBoots, lock, pending, threads, ghosts>>

(* fence_boot: every publisher registered under the boot dies with it. *)
FenceBoot(b) ==
    /\ phase = "serving"
    /\ fencedBoots' = fencedBoots \cup {b}
    /\ everFenced' = everFenced \cup {b}
    /\ publishers' = [p \in Publishers |->
           IF publishers[p].boot = b THEN [publishers[p] EXCEPT !.alive = FALSE]
                                     ELSE publishers[p]]
    /\ UNCHANGED <<phase, store, disk, upstream, epoch, lock, pending, threads, acked, served>>

(* Mutant: a publisher that was never registered is entered as a dead one, *)
(* and the boot it does not have is fenced.                                *)
MarkDead_Unknown(p) ==
    /\ phase = "serving"
    /\ publishers' = [publishers EXCEPT ![p].alive = FALSE]
    /\ fencedBoots' = fencedBoots \cup {publishers[p].boot}
    /\ everFenced' = everFenced \cup {publishers[p].boot}
    /\ UNCHANGED <<phase, store, disk, upstream, epoch, lock, pending, threads, acked, served>>

(* mark_dead: only this publisher dies, its boot is fenced for everyone. *)
MarkDead(p) ==
    /\ phase = "serving"
    /\ publishers[p].boot # None
    /\ publishers' = [publishers EXCEPT ![p].alive = FALSE]
    /\ fencedBoots' = fencedBoots \cup {publishers[p].boot}
    /\ everFenced' = everFenced \cup {publishers[p].boot}
    /\ UNCHANGED <<phase, store, disk, upstream, epoch, lock, pending, threads, acked, served>>
--------------------------------------------------------------------------------
(* The life of the coordinator process. *)

(* Memory is gone; the state file and the fabric are not. *)
Crash ==
    /\ phase # "down"
    /\ phase' = "down"
    /\ store' = InitImage
    /\ registry' = [rev |-> 0, gen |-> InitImage.regs]
    /\ epoch' = InitialEpoch
    /\ publishers' = InitImage.pubs
    /\ fencedBoots' = {}
    /\ lock' = None /\ pending' = None
    /\ pc' = [t \in Threads |-> "idle"]
    /\ seen' = [t \in Threads |-> Unseen]
    /\ request' = [t \in Threads |-> None]
    /\ plan' = [t \in Threads |-> None]
    /\ UNCHANGED <<disk, evidence, ghosts>>

(* load() without a state file: nothing is recovered. *)
LoadNothing ==
    /\ phase = "down"
    /\ disk = NoImage
    /\ phase' = "loaded"
    /\ UNCHANGED <<store, disk, upstream, authority, lock, pending, threads, ghosts>>

(* load(): the epoch is raised above the persisted one, every restored     *)
(* publisher is dead and its boot fenced, every list takes RecoveryLoad.   *)
(* The result is in use even if saving it fails.                           *)
Load ==
    LET boots == {disk.pubs[p].boot : p \in Publishers} \ {None}
        image == [disk EXCEPT
                     !.lists = [l \in Lists |-> Recovered(disk.lists[l])],
                     !.pubs = publishers', !.fenced = fencedBoots',
                     !.epoch = disk.epoch + 1,
                     !.revision = store.revision + @ + 1]
    IN  /\ phase = "down"
        /\ disk.epoch \in 1 .. MaxEpoch - 1
        /\ phase' = "loaded"
        /\ epoch' = disk.epoch + 1
        /\ publishers' = [p \in Publishers |-> [disk.pubs[p] EXCEPT !.alive = FALSE]]
        /\ fencedBoots' = disk.fenced \cup boots
        /\ everFenced' = everFenced \cup fencedBoots'
        /\ registry' = [rev |-> 0, gen |-> disk.regs]
        /\ store' = image
        /\ disk' \in {image, disk}
        /\ UNCHANGED <<evidence, lock, pending, threads, acked, served>>

(* CoordinatorServer::start declares the built-in profiles it did not      *)
(* recover; each is a durable registration.                                *)
DeclareBuiltin(x) ==
    LET image == [WithTables(store) EXCEPT !.regs = registry'.gen]
    IN  /\ phase = "loaded"
        /\ registry.gen[x] = 0
        /\ registry' = [rev |-> registry.rev + 1, gen |-> [registry.gen EXCEPT ![x] = 1]]
        /\ disk' = image
        /\ store' = [image EXCEPT !.revision = @ + 1]
        /\ UNCHANGED <<phase, evidence, authority, lock, pending, threads, ghosts>>

(* Mutant: the advanced epoch is not saved before it is served. *)
Serve_Volatile ==
    /\ phase = "loaded"
    /\ \A x \in Builtins : registry.gen[x] # 0
    /\ epoch < MaxEpoch
    /\ epoch' = epoch + 1
    /\ phase' = "serving"
    /\ served' = epoch'
    /\ UNCHANGED <<store, disk, upstream, publishers, fencedBoots, lock, pending, threads,
                   acked, everFenced>>

(* The rest of start(): the epoch advances and must be durable before      *)
(* anything is served.  If saving fails start() fails: a Crash.            *)
Serve ==
    LET image == [WithTables(store) EXCEPT !.epoch = epoch', !.revision = @ + 1]
    IN  /\ phase = "loaded"
        /\ \A x \in Builtins : registry.gen[x] # 0
        /\ epoch < MaxEpoch
        /\ epoch' = epoch + 1
        /\ store' = image
        /\ disk' = image
        /\ phase' = "serving"
        /\ served' = epoch'
        /\ UNCHANGED <<upstream, publishers, fencedBoots, lock, pending, threads, acked, everFenced>>
--------------------------------------------------------------------------------
(* A draft a caller may submit: a body for a list, the generation it       *)
(* expects and the list it supersedes.  The other generations a caller     *)
(* could give are refused.                                                 *)
SubmittedDraft(id, body, sup) ==
    [id |-> id, needs |-> body.needs, bind |-> body.bind, segs |-> body.segs,
     expected |-> store.lists[id].gen, sup |-> sup,
     supGen |-> IF sup = None THEN 0 ELSE store.lists[sup].gen]

(* create_list needs an absent list, replace_list an existing one, and a   *)
(* batch takes either; its intent matters only if the list exists.         *)
IntentFor(id) == IF store.lists[id].gen = 0 THEN "ValidateBegin" ELSE "ReplaceBegin"

Mutate(t) ==
    /\ request[t] = None
    /\ \E a \in Attempts, p \in Publishers, b \in Boots, id \in Lists,
          body \in Bodies, sup \in Lists \cup {None} :
          PrepareCommit(t, IntentFor(id), SubmittedDraft(id, body, sup), a, p, b)

Revalidate(t) ==
    /\ request[t] # None
    /\ \E a \in Attempts, p \in Publishers, b \in Boots :
          PrepareCommit(t, "RevalidateBegin", request[t], a, p, b)

Transition(t) ==
    \E a \in Attempts, p \in Publishers, b \in Boots, id \in Lists,
       event \in TransitionEvents \cap Calls :
       PrepareTransition(t, event, id, a, p, b)

Call(t) ==
    \/ ReadWatermark(t)
    \/ ReadSnapshot(t)
    \/ \E a \in Attempts : Replay(t, a)
    \/ "mutate" \in Calls /\ Mutate(t)
    \/ Transition(t)
    \/ Refuse(t)
    \/ Commit(t)
    \/ CommitTransition(t)
    \/ RefuseCommit(t)
    \/ /\ "revalidate" \in Calls
       /\ \/ \E id \in Lists, e \in 0 .. MaxGeneration : RevalidateRead(t, id, e)
          \/ Revalidate(t)
    \/ "refresh" \in Calls /\ RefreshReadEvidence(t)
    \/ RefreshReadEpoch(t)
    \/ RefreshApply(t)
    \/ "register" \in Calls /\ \E x \in RegistryDeps : Register(t, x)
    \/ RegisterSave(t)
    \/ "persist" \in Calls /\ PersistNow(t)
    \/ Swap(t)

Environment ==
    \/ \E x \in RegistryDeps : AdvanceRegistry(x)
    \/ \E x \in EvidenceDeps, g \in 0 .. MaxDepGeneration : ChangeEvidence(x, g)
    \/ AdvanceEpoch
    \/ \E p \in Publishers, b \in Boots : RegisterPublisher(p, b)
    \/ \E p \in Publishers : MarkDead(p)
    \/ \E b \in Boots : FenceBoot(b)

Process ==
    \/ Crash
    \/ LoadNothing
    \/ Load
    \/ \E x \in Builtins : DeclareBuiltin(x)
    \/ Serve

Next == (\E t \in Threads : Call(t)) \/ Environment \/ Process

Spec == Init /\ [][Next]_vars
--------------------------------------------------------------------------------
(* Properties. *)

Available(l) == l.state = "Active" /\ l.cur = "Current"
Closed == TerminalForActivation \cup {"Withdrawing"}
Content(l) == [needs |-> l.needs, bound |-> l.bound, segs |-> l.segs]

(* A generation is committed. *)
Commits(l) == disk'.lists[l].gen # disk.lists[l].gen

(* The stale-completion defence (phases A to E of run_batch): a new        *)
(* generation is bound to exactly the evidence, the profiles, the policies *)
(* and the epoch that are in force when it is saved, however many of them  *)
(* moved while it was validated outside the lock.                          *)
CommittedIsFresh ==
    [][\A l \in Lists : Commits(l) =>
          LET new == disk'.lists[l]
          IN  /\ new.epoch = epoch
              /\ \A x \in Deps : x \in new.needs \/ new.bound[x] # 0
                                     => new.bound[x] = CurrentView[x]]_vars

(* A lineage that is being withdrawn or is withdrawn, superseded, revoked  *)
(* or retired never becomes available again and gets no new generation,    *)
(* through any call, any race and any restart.                             *)
LineagesStayClosed ==
    [][\A l \in Lists :
          disk.lists[l].state \in Closed =>
              /\ disk'.lists[l].state \in Closed
              /\ disk'.lists[l].gen = disk.lists[l].gen]_vars

(* No lost update: a generation, once saved, keeps its content, and the    *)
(* next one is exactly one higher, so two racing replacements of the same  *)
(* generation cannot both be saved.                                        *)
RevisionsAreImmutable ==
    [][\A l \in Lists :
          \/ disk'.lists[l].gen = disk.lists[l].gen + 1
          \/ /\ disk'.lists[l].gen = disk.lists[l].gen
             /\ Content(disk'.lists[l]) = Content(disk.lists[l])]_vars

(* Exactly once: whatever is retried or raced, no generation is committed  *)
(* under an attempt that is recorded already.                              *)
AttemptAppliedOnce ==
    [][\A l \in Lists :
          Commits(l) => disk.attempts[disk'.lists[l].attempt] = None]_vars

(* The replay table never outgrows its limit, although its size is checked *)
(* before validation and the record is added after it.                     *)
ReplayTableIsBounded ==
    Cardinality({a \in Attempts : disk.attempts[a] # None}) <= MaxAttemptRecords

(* An acknowledged mutation is durable: its attempt is recorded in the     *)
(* state file, now and after every crash, so that a retry replays it.      *)
AckedIsDurable == \A a \in acked : disk.attempts[a] # None

(* What readers see is what is saved; the image a thread is about to swap  *)
(* in was saved before.  Only a recovery whose own save failed is ahead of *)
(* the file, and it is not served.                                         *)
VisibleIsDurable ==
    phase = "serving" =>
        LET image == IF lock = None THEN store ELSE pending
        IN  image.lists = disk.lists /\ image.attempts = disk.attempts

(* Recovery is conservative: nothing recovered is available, and while an  *)
(* incarnation serves, every available list was validated under its epoch. *)
RecoveryIsConservative ==
    \A l \in Lists :
        Available(store.lists[l]) =>
            /\ phase = "serving"
            /\ ~ EpochAdvances => store.lists[l].epoch = epoch

(* The epoch is durable before it is served: no two incarnations of the    *)
(* coordinator ever serve under the same epoch.                            *)
EpochNeverReused == [][phase = "loaded" /\ phase' = "serving" => epoch' > served]_vars

(* The durable image is closed under what its lists refer to: recovery     *)
(* finds every profile and policy generation a list is bound to.           *)
BoundRegistryIsDurable ==
    \A l \in Lists, x \in RegistryDeps : disk.lists[l].bound[x] <= disk.regs[x]

(* The boot that wrote a list is part of the image that holds the list, so *)
(* recovery fences it: no writer of a recovered list is alive afterwards.  *)
WritersFencedOnRecovery ==
    phase = "loaded" =>
        \A l \in Lists : store.lists[l].gen # 0 => store.lists[l].boot \in fencedBoots

(* Replacement preserves lineage: the replaced revision is in the history  *)
(* of the same image, marked superseded.                                   *)
ReplacedIsRecorded ==
    [][\A l \in Lists :
          Commits(l) /\ disk.lists[l].gen # 0 /\ MaxHistory > 1 =>
              \E i \in 1 .. Len(disk'.history) :
                  /\ disk'.history[i].list = l
                  /\ disk'.history[i].gen = disk.lists[l].gen
                  /\ disk'.history[i].state = "Superseded"]_vars

(* The retained history is a gapless suffix of all entries ever appended,  *)
(* also when it is full and across restarts.                               *)
HistoryIsSuffix ==
    /\ Len(disk.history) <= MaxHistory
    /\ \A i \in 1 .. Len(disk.history) - 1 :
           disk.history[i + 1].id = disk.history[i].id + 1

(* The refinement mapping to GovernedLists, from the state file. *)
StatusOf(l) ==
    IF l.gen = 0 THEN "absent"
    ELSE IF Available(l) THEN "available"
    ELSE IF l.state \in Closed THEN "closed" ELSE "unavailable"

GL == INSTANCE GovernedLists WITH
          generation <- [l \in Lists |-> disk.lists[l].gen],
          status <- [l \in Lists |-> StatusOf(disk.lists[l])],
          used <- {a \in Attempts : disk.attempts[a] # None}

(* The durable image implements GovernedLists: across calls, races, failed *)
(* saves and restarts, lists become available only by an unused attempt    *)
(* that publishes the next generation, and closed lineages stay closed.    *)
ImplementsGovernedLists == GL!GLSpec
--------------------------------------------------------------------------------
(* The inductive invariant behind the safety properties. *)

(* The lock is held exactly by the thread that has saved and not swapped,  *)
(* what it is about to swap in is newer than what callers see, and no call *)
(* is under way unless the coordinator serves.                             *)
LockInv ==
    /\ \A t \in Threads : pc[t] = "saved" <=> lock = t
    /\ lock # None => pending \in Image /\ pending.revision > store.revision
    /\ phase # "serving" => lock = None /\ \A t \in Threads : pc[t] = "idle"

(* What phase B found out about the store holds as long as its revision is *)
(* the one that was captured; phase E relies on nothing else.              *)
StillHolds(p) ==
    /\ store.lists[p.draft.id].gen = p.draft.expected
    /\ SupersedeOk(p.draft, store.lists)
    /\ p.event \in CommitEvents =>
           /\ store.attempts[p.attempt] = None
           /\ store.lists[p.draft.id].gen # 0 =>
                  store.lists[p.draft.id].state \notin Closed
    /\ p.event \in TransitionEvents =>
           /\ store.lists[p.draft.id].gen # 0
           /\ Permits(store.lists[p.draft.id].state, p.event)

PlanInv ==
    \A t \in Threads : pc[t] = "prepared" =>
        /\ plan[t] \in Plan
        /\ plan[t].storeRev <= store.revision
        /\ plan[t].storeRev = store.revision => StillHolds(plan[t])

(* What callers see and what is saved agree on the lists, up to the step   *)
(* that recovery takes, and on the attempts.                               *)
DurableInv ==
    /\ phase = "down" => store = InitImage
    /\ phase = "loaded" =>
           /\ store.attempts = disk.attempts
           /\ \A l \in Lists : store.lists[l] \in {disk.lists[l], Recovered(disk.lists[l])}
    /\ phase = "serving" /\ lock = None =>
           store.lists = disk.lists /\ store.attempts = disk.attempts
    /\ phase = "serving" /\ lock # None =>
           pending.lists = disk.lists /\ pending.attempts = disk.attempts

IInv == TypeOK /\ LockInv /\ PlanInv /\ DurableInv
--------------------------------------------------------------------------------
(* Two statements of the documentation that the code does not keep. *)

(* "a concurrent change is detected by the commit watermark check": no     *)
(* generation is committed under a boot that is fenced when it is saved.   *)
FencedNeverCommits ==
    [][\A l \in Lists : Commits(l) => disk'.lists[l].boot \notin fencedBoots]_vars

(* "a fenced boot stays fenced permanently and can never be registered     *)
(* again": no publisher is alive under a boot that was ever fenced.        *)
FencedForever ==
    \A p \in Publishers : publishers[p].alive => publishers[p].boot \notin everFenced
================================================================================
