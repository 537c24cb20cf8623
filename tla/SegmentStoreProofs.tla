-------------------------- MODULE SegmentStoreProofs ---------------------------
(* Theorems about SegmentStore, for every value of its constants. *)
EXTENDS SegmentStore, FiniteSetTheorems, SequenceTheorems, TLAPS

(* The transition table leads from states to states. *)
LEMMA AdvanceType ==
    ASSUME NEW s \in LifecycleState, NEW e \in LifecycleEvent, Permits(s, e)
    PROVE  Advance(s, e) \in LifecycleState
BY DEF Permits, Advance, kTable, LifecycleState, LifecycleEvent

(* Every state accepts RecoveryLoad. *)
LEMMA RecoveryType ==
    ASSUME NEW s \in LifecycleState
    PROVE  Advance(s, "RecoveryLoad") \in LifecycleState
BY DEF Advance, kTable, LifecycleState

(* Whatever may be superseded is superseded at once.                       *)
LEMMA SupersedeLeads ==
    ASSUME NEW s \in LifecycleState, Permits(s, "SupersedeBegin")
    PROVE  Advance(s, "SupersedeBegin") = "Superseded"
BY DEF Permits, Advance, kTable, LifecycleState

(* The two groups of events that calls are made with are events of         *)
(* lifecycle.hpp.                                                          *)
LEMMA EventTypes ==
    /\ CommitEvents \subseteq LifecycleEvent
    /\ TransitionEvents \subseteq LifecycleEvent
    /\ "SupersedeBegin" \in LifecycleEvent
    /\ CommitEvents \cap TransitionEvents = {}
BY DEF CommitEvents, TransitionEvents, LifecycleEvent

(* The placeholder of an absent list is typed like a list.                 *)
LEMMA NoListType == NoList \in List
BY ConstantsAssumption DEF NoList, List, LifecycleState, Currentness, View

(* An empty store starts from a typed image.                               *)
LEMMA InitImageType == InitImage \in Image /\ NoImage \in Image
<1>1. <<>> \in Seq(HistoryEntry)  OBVIOUS
<1>. QED
  BY NoListType, <1>1 DEF InitImage, NoImage, Image, InitialEpoch, Publisher

(* append_history_locked: the history stays a sequence of entries, whether *)
(* it grows or is cut.                                                     *)
LEMMA AppendHistoryType ==
    ASSUME NEW h \in Seq(HistoryEntry), NEW id \in Lists, NEW l \in List, NEW rev \in Nat
    PROVE  AppendHistory(h, id, l, rev) \in Seq(HistoryEntry)
<1>1. NextHistoryId(h) \in Nat
  <2>1. CASE h = <<>>  BY <2>1 DEF NextHistoryId
  <2>2. CASE h # <<>>
    <3>1. h[Len(h)] \in HistoryEntry  BY <2>2
    <3>. QED  BY <2>2, <3>1 DEF NextHistoryId, HistoryEntry
  <2>. QED  BY <2>1, <2>2
<1>2. (IF Len(h) >= MaxHistory THEN Tail(h) ELSE h) \in Seq(HistoryEntry)
  <2>1. CASE Len(h) >= MaxHistory
    <3>1. h # <<>>  BY <2>1, ConstantsAssumption
    <3>. QED  BY <2>1, <3>1
  <2>2. CASE ~ (Len(h) >= MaxHistory)  BY <2>2
  <2>. QED  BY <2>1, <2>2
<1>3. [id |-> NextHistoryId(h), list |-> id, gen |-> l.gen, state |-> l.state,
       rev |-> rev + 1] \in HistoryEntry
  BY <1>1 DEF HistoryEntry, List
<1>. QED  BY <1>2, <1>3 DEF AppendHistory

(* make_list: a plan that captured its dependencies makes a typed list.    *)
LEMMA MakeListType ==
    ASSUME NEW p \in Plan
    PROVE  MakeList(p) \in List
<1>1. Bind(p.draft, p.view) \in View  BY DEF Bind, View, Plan, Draft
<1>2. Advance(Advance("Declared", "ValidateBegin"), "ValidateSucceed") = "Active"
  BY DEF Advance, kTable
<1>3. p.draft \in Draft  BY DEF Plan
<1>. QED
  BY <1>1, <1>2, <1>3 DEF MakeList, List, Plan, Draft, LifecycleState, Currentness

(* Copying the registry and the authority table into an image keeps its    *)
(* type.                                                                   *)
LEMMA WithTablesType ==
    ASSUME TypeOK, NEW image \in Image
    PROVE  /\ WithTables(image) \in Image
           /\ WithTables(image).lists = image.lists
           /\ WithTables(image).attempts = image.attempts
           /\ WithTables(image).revision = image.revision
BY DEF WithTables, Image, TypeOK

(* run_batch: applying a draft to an image that is being built gives one,  *)
(* with the next revision, if the list it supersedes may be superseded.    *)
LEMMA DraftAppliedType ==
    ASSUME TypeOK, NEW base \in Image, NEW p \in Plan,
           p.draft.sup # None => Permits(base.lists[p.draft.sup].state, "SupersedeBegin")
    PROVE  DraftApplied(base, p) \in Image /\ DraftApplied(base, p).revision = store.revision + 1
<1>. DEFINE id    == p.draft.id
            sup   == p.draft.sup
            rev   == store.revision + 1
            lists == IF sup = None THEN base.lists
                     ELSE [base.lists EXCEPT ![sup] = Supersede(@, p)]
            h1    == IF sup = None THEN base.history
                     ELSE AppendHistory(base.history, sup, lists[sup], rev)
            h2    == IF lists[id].gen = 0 THEN h1
                     ELSE AppendHistory(h1, id, [lists[id] EXCEPT !.state = "Superseded"], rev)
            image == [base EXCEPT
                        !.lists = [lists EXCEPT ![id] = MakeList(p)],
                        !.history = AppendHistory(h2, id, MakeList(p), rev),
                        !.attempts[p.attempt] = p.draft,
                        !.revision = rev,
                        !.epoch = p.epoch]
<1>1. /\ base \in Image /\ base.lists \in [Lists -> List] /\ base.history \in Seq(HistoryEntry)
      /\ store.revision \in Nat /\ rev \in Nat
  BY DEF TypeOK, Image
<1>2. /\ id \in Lists /\ sup \in Lists \cup {None} /\ p.attempt \in Attempts
      /\ p.epoch \in Nat /\ p.draft \in Draft
  BY DEF Plan, Draft
<1>3. lists \in [Lists -> List]
  <2>1. CASE sup = None  BY <1>1, <2>1
  <2>2. CASE sup # None
    <3>1. sup \in Lists /\ base.lists[sup] \in List  BY <1>1, <1>2, <2>2
    <3>2. Permits(base.lists[sup].state, "SupersedeBegin")  BY <2>2
    <3>3. base.lists[sup].state \in LifecycleState  BY <3>1 DEF List
    <3>4. Advance(base.lists[sup].state, "SupersedeBegin") \in LifecycleState
      BY <3>2, <3>3, EventTypes, AdvanceType
    <3>5. Supersede(base.lists[sup], p) \in List
      BY <1>1, <1>2, <3>1, <3>4 DEF Supersede, List, Currentness
    <3>. QED  BY <1>1, <2>2, <3>1, <3>5
  <2>. QED  BY <2>1, <2>2
<1>4. h1 \in Seq(HistoryEntry)
  <2>1. CASE sup = None  BY <1>1, <2>1
  <2>2. CASE sup # None
    <3>1. sup \in Lists /\ lists[sup] \in List  BY <1>2, <1>3, <2>2
    <3>. QED  BY <1>1, <2>2, <3>1, AppendHistoryType
  <2>. QED  BY <2>1, <2>2
<1>5. h2 \in Seq(HistoryEntry)
  <2>1. CASE lists[id].gen = 0  BY <1>4, <2>1
  <2>2. CASE lists[id].gen # 0
    <3>1. lists[id] \in List  BY <1>2, <1>3
    <3>2. [lists[id] EXCEPT !.state = "Superseded"] \in List
      BY <3>1 DEF List, LifecycleState
    <3>. QED  BY <1>1, <1>2, <1>4, <2>2, <3>2, AppendHistoryType
  <2>. QED  BY <2>1, <2>2
<1>6. MakeList(p) \in List  BY MakeListType
<1>7. AppendHistory(h2, id, MakeList(p), rev) \in Seq(HistoryEntry)
  BY <1>1, <1>2, <1>5, <1>6, AppendHistoryType
<1>8. [lists EXCEPT ![id] = MakeList(p)] \in [Lists -> List]  BY <1>3, <1>6
<1>. HIDE DEF id, sup, rev, lists, h1, h2
<1>9. image \in Image  BY <1>1, <1>2, <1>7, <1>8 DEF Image
<1>10. image.revision = rev  BY <1>1 DEF Image
<1>. QED  BY <1>9, <1>10 DEF DraftApplied, id, sup, rev, lists, h1, h2

(* run_batch: the image a commit saves is typed.                           *)
LEMMA CommitImageType ==
    ASSUME TypeOK, NEW p \in Plan, SupersedeOk(p.draft, store.lists)
    PROVE  CommitImage(p) \in Image /\ CommitImage(p).revision = store.revision + 1
<1>1. store \in Image  BY DEF TypeOK
<1>2. p.draft.sup # None => Permits(store.lists[p.draft.sup].state, "SupersedeBegin")
  BY DEF SupersedeOk
<1>3. /\ DraftApplied(store, p) \in Image
      /\ DraftApplied(store, p).revision = store.revision + 1
  BY <1>1, <1>2, DraftAppliedType
<1>. HIDE DEF DraftApplied
<1>. QED  BY <1>3, WithTablesType DEF CommitImage

(* transition: the image it saves is typed.                                *)
LEMMA TransitionImageType ==
    ASSUME TypeOK, NEW p \in Plan, p.event \in TransitionEvents,
           Permits(store.lists[p.draft.id].state, p.event)
    PROVE  TransitionImage(p) \in Image /\ TransitionImage(p).revision = store.revision + 1
<1>. DEFINE id    == p.draft.id
            rev   == store.revision + 1
            list  == [store.lists[id] EXCEPT
                         !.state = Advance(@, p.event), !.cur = "Unknown", !.rev = rev,
                         !.boot = p.boot, !.epoch = p.epoch, !.attempt = p.attempt]
            image == [store EXCEPT
                        !.lists[id] = list,
                        !.history = AppendHistory(@, id, list, rev),
                        !.attempts[p.attempt] = p.draft,
                        !.revision = rev,
                        !.epoch = p.epoch]
<1>1. /\ store \in Image /\ store.lists \in [Lists -> List] /\ store.history \in Seq(HistoryEntry)
      /\ store.revision \in Nat /\ rev \in Nat
  BY DEF TypeOK, Image
<1>2. /\ id \in Lists /\ p.attempt \in Attempts /\ p.epoch \in Nat /\ p.draft \in Draft
      /\ p.boot \in Boots
  BY DEF Plan, Draft
<1>3. store.lists[id] \in List  BY <1>1, <1>2
<1>4. store.lists[id].state \in LifecycleState  BY <1>3 DEF List
<1>5. Advance(store.lists[id].state, p.event) \in LifecycleState
  BY <1>4, EventTypes, AdvanceType
<1>6. list \in List  BY <1>1, <1>2, <1>3, <1>5 DEF List, Currentness
<1>7. AppendHistory(store.history, id, list, rev) \in Seq(HistoryEntry)
  BY <1>1, <1>2, <1>6, AppendHistoryType
<1>. HIDE DEF id, rev, list
<1>8. image \in Image /\ image.revision = rev  BY <1>1, <1>2, <1>6, <1>7 DEF Image
<1>. QED  BY <1>8, WithTablesType DEF TransitionImage, id, rev, list

(* refresh_currentness: a re-evaluated list is still a list.               *)
LEMMA RefreshedType ==
    ASSUME NEW l \in List, NEW view, NEW e
    PROVE  Refreshed(l, view, e) \in List
<1>1. Evaluate(l, view, e) \in Currentness  BY DEF Evaluate, Currentness
<1>. QED  BY <1>1 DEF Refreshed, List, LifecycleState

(* load: a recovered list is still a list.                                 *)
LEMMA RecoveredType ==
    ASSUME NEW l \in List
    PROVE  Recovered(l) \in List
<1>1. l.state \in LifecycleState  BY DEF List
<1>2. Advance(l.state, "RecoveryLoad") \in LifecycleState  BY <1>1, RecoveryType
<1>. QED  BY <1>2 DEF Recovered, List, Currentness
--------------------------------------------------------------------------------
(* How a step can disturb the part of the invariant about prepared calls:  *)
(* not at all if it prepares none and leaves the store alone or moves it   *)
(* to a later revision.                                                    *)
LEMMA PlanInvKept ==
    ASSUME TypeOK, PlanInv,
           \/ store' = store
           \/ store'.revision \in Nat /\ store'.revision > store.revision,
           \A t \in Threads : pc'[t] = "prepared" => pc[t] = "prepared" /\ plan'[t] = plan[t]
    PROVE  PlanInv'
<1>. SUFFICES ASSUME NEW t \in Threads, pc'[t] = "prepared"
              PROVE  /\ plan'[t] \in Plan
                     /\ plan'[t].storeRev <= store'.revision
                     /\ plan'[t].storeRev = store'.revision => StillHolds(plan[t])'
  BY DEF PlanInv
<1>1. pc[t] = "prepared" /\ plan'[t] = plan[t]  OBVIOUS
<1>2. /\ plan[t] \in Plan /\ plan[t].storeRev <= store.revision
      /\ plan[t].storeRev = store.revision => StillHolds(plan[t])
  BY <1>1 DEF PlanInv
<1>3. store.revision \in Nat /\ plan[t].storeRev \in Nat  BY <1>2 DEF TypeOK, Image, Plan
<1>4. CASE store' = store  BY <1>1, <1>2, <1>4 DEF StillHolds
<1>5. CASE store'.revision \in Nat /\ store'.revision > store.revision
  BY <1>1, <1>2, <1>3, <1>5
<1>. QED  BY <1>4, <1>5

(* The inductive invariant holds before the coordinator starts.            *)
LEMMA InitInv == Init => IInv
<1>. SUFFICES ASSUME Init PROVE IInv  OBVIOUS
<1>1. TypeOK
  <2>1. Unseen \in Observation  BY DEF Unseen, Observation
  <2>2. InitImage.pubs \in [Publishers -> Publisher]  BY InitImageType DEF Image
  <2>. QED  BY InitImageType, <2>1, <2>2 DEF Init, TypeOK, PCs, InitialEpoch
<1>2. LockInv  BY ConstantsAssumption DEF Init, LockInv
<1>3. PlanInv  BY DEF Init, PlanInv
<1>4. DurableInv  BY DEF Init, DurableInv
<1>. QED  BY <1>1, <1>2, <1>3, <1>4 DEF IInv

(* A step that neither saves nor swaps nor prepares disturbs only types. *)
LEMMA QuietStep ==
    ASSUME IInv, TypeOK', UNCHANGED <<phase, store, disk, lock, pending>>,
           \A t \in Threads : pc'[t] = pc[t] \/ (phase = "serving" /\ "saved" \notin {pc[t], pc'[t]}),
           \A t \in Threads : pc'[t] = "prepared" => pc[t] = "prepared" /\ plan'[t] = plan[t]
    PROVE  IInv'
<1>1. LockInv'  BY DEF IInv, LockInv
<1>2. PlanInv'  BY PlanInvKept DEF IInv
<1>3. DurableInv'  BY DEF IInv, DurableInv
<1>. QED  BY <1>1, <1>2, <1>3 DEF IInv

(* A call that returns leaves the types alone.                             *)
LEMMA ReturnType ==
    ASSUME TypeOK, NEW t \in Threads, Return(t)
    PROVE  /\ pc' \in [Threads -> PCs]
           /\ seen' \in [Threads -> Observation]
           /\ request' \in [Threads -> Draft \cup {None}]
           /\ plan' \in [Threads -> Plan \cup {None}]
           /\ pc'[t] = "idle" /\ \A u \in Threads \ {t} : pc'[u] = pc[u] /\ plan'[u] = plan[u]
<1>1. Unseen \in Observation  BY DEF Unseen, Observation
<1>2. "idle" \in PCs  BY DEF PCs
<1>. QED  BY <1>1, <1>2 DEF Return, TypeOK

(* A call that returns without saving keeps the invariant.                 *)
LEMMA ReturnStep ==
    ASSUME IInv, NEW t \in Threads, Return(t), phase = "serving", pc[t] # "saved",
           acked' \in SUBSET Attempts,
           UNCHANGED <<phase, store, disk, upstream, authority, lock, pending, served, everFenced>>
    PROVE  IInv'
<1>1. TypeOK'  BY ReturnType DEF IInv, TypeOK, upstream, authority
<1>. QED  BY <1>1, QuietStep, ReturnType DEF IInv

(* persist_locked: a save that fails or succeeds keeps the invariant; it   *)
(* is the only step that writes the image.                                 *)
LEMMA SaveStep ==
    ASSUME IInv, NEW t \in Threads, phase = "serving", pc[t] # "saved",
           NEW image \in Image, NEW after \in Image, Save(t, image, after),
           after.revision > store.revision,
           after.lists = image.lists, after.attempts = image.attempts,
           UNCHANGED <<phase, store, upstream, authority, ghosts>>
    PROVE  IInv'
<1>1. CASE Return(t) /\ UNCHANGED <<disk, pending, lock>>
  BY <1>1, ReturnStep DEF ghosts, IInv, TypeOK
<1>2. CASE /\ disk' = image /\ pending' = after /\ lock' = t
           /\ pc' = [pc EXCEPT ![t] = "saved"]
           /\ seen' = [seen EXCEPT ![t] = Unseen]
           /\ request' = [request EXCEPT ![t] = None]
           /\ UNCHANGED plan
  <2>0. lock = None  BY DEF Save
  <2>1. TypeOK'
    <3>1. Unseen \in Observation  BY DEF Unseen, Observation
    <3>2. "saved" \in PCs  BY DEF PCs
    <3>. QED  BY <1>2, <3>1, <3>2 DEF IInv, TypeOK, upstream, authority, ghosts
  <2>2. pc \in [Threads -> PCs]  BY DEF IInv, TypeOK
  <2>3. LockInv'  BY <1>2, <2>0, <2>2, ConstantsAssumption DEF IInv, LockInv
  <2>4. PlanInv'  BY <1>2, <2>2, PlanInvKept DEF IInv
  <2>5. DurableInv'  BY <1>2, ConstantsAssumption DEF IInv, DurableInv
  <2>. QED  BY <2>1, <2>3, <2>4, <2>5 DEF IInv
<1>. QED  BY <1>1, <1>2 DEF Save
--------------------------------------------------------------------------------
(* The calls. *)

(* No event that starts a new generation is accepted by a closed lineage.  *)
LEMMA ClosedAcceptsNone ==
    ASSUME NEW s \in LifecycleState, NEW e \in CommitEvents, Permits(s, e)
    PROVE  s \notin Closed
BY DEF Permits, kTable, LifecycleState, CommitEvents, Closed, TerminalForActivation

(* What a call read of its dependencies before it took the lock is typed.  *)
LEMMA CapturedViewType ==
    ASSUME TypeOK, NEW t \in Threads
    PROVE  CapturedView(t) \in View
<1>1. seen[t].gen \in [EvidenceDeps -> Nat]  BY DEF TypeOK, Observation
<1>2. registry.gen \in [RegistryDeps -> Nat]  BY DEF TypeOK
<1>. QED  BY <1>1, <1>2 DEF CapturedView, View, Deps

(* build_request: a plan is typed.                                         *)
LEMMA MakePlanType ==
    ASSUME TypeOK, NEW t \in Threads, NEW event \in CommitEvents \cup TransitionEvents,
           NEW d \in Draft, NEW a \in Attempts, NEW b \in Boots
    PROVE  /\ MakePlan(t, event, d, a, b) \in Plan
           /\ MakePlan(t, event, d, a, b).storeRev = store.revision
<1>1. store.revision \in Nat /\ registry.rev \in Nat /\ epoch \in Nat  BY DEF TypeOK, Image
<1>. QED  BY <1>1, CapturedViewType DEF MakePlan, Plan

(* Storing a plan keeps the invariant.                                     *)
LEMMA PrepareStep ==
    ASSUME IInv, NEW t \in Threads, At(t, "snapshot"), NEW p \in Plan,
           p.storeRev = store.revision, StillHolds(p), Prepare(t, p)
    PROVE  IInv'
<1>1. TypeOK'
  <2>1. "prepared" \in PCs  BY DEF PCs
  <2>. QED  BY <2>1 DEF IInv, TypeOK, Prepare, upstream, authority, ghosts
<1>2. pc \in [Threads -> PCs] /\ plan \in [Threads -> Plan \cup {None}]  BY DEF IInv, TypeOK
<1>3. LockInv'  BY <1>2 DEF IInv, LockInv, Prepare, At
<1>4. PlanInv'
  <2>. SUFFICES ASSUME NEW u \in Threads, pc'[u] = "prepared"
                PROVE  /\ plan'[u] \in Plan
                       /\ plan'[u].storeRev <= store'.revision
                       /\ plan'[u].storeRev = store'.revision => StillHolds(plan[u])'
    BY DEF PlanInv
  <2>1. store.revision \in Nat  BY DEF IInv, TypeOK, Image
  <2>2. store' = store  BY DEF Prepare
  <2>3. CASE u = t
    <3>1. plan'[u] = p  BY <1>2, <2>3 DEF Prepare
    <3>. QED  BY <2>1, <2>2, <3>1 DEF StillHolds
  <2>4. CASE u # t
    <3>1. pc[u] = "prepared" /\ plan'[u] = plan[u]  BY <1>2, <2>4 DEF Prepare
    <3>. QED  BY <2>2, <3>1 DEF IInv, PlanInv, StillHolds
  <2>. QED  BY <2>3, <2>4
<1>5. DurableInv'  BY DEF IInv, DurableInv, Prepare
<1>. QED  BY <1>1, <1>3, <1>4, <1>5 DEF IInv

(* run_batch up to its commit phase keeps the invariant.                   *)
LEMMA PrepareCommitStep ==
    ASSUME IInv, NEW t \in Threads, NEW event \in CommitEvents, NEW d \in Draft,
           NEW a \in Attempts, NEW p \in Publishers, NEW b \in Boots,
           PrepareCommit(t, event, d, a, p, b)
    PROVE  IInv'
<1>. DEFINE q == MakePlan(t, event, d, a, b)
<1>1. q \in Plan /\ q.storeRev = store.revision  BY MakePlanType DEF IInv
<1>2. q.draft = d /\ q.event = event /\ q.attempt = a  BY DEF MakePlan
<1>3. StillHolds(q)
  <2>1. d.id \in Lists /\ store.lists[d.id] \in List  BY DEF Draft, IInv, TypeOK, Image
  <2>2. store.lists[d.id].state \in LifecycleState  BY <2>1 DEF List
  <2>3. store.lists[d.id].gen # 0 => store.lists[d.id].state \notin Closed
    BY <2>2, ClosedAcceptsNone DEF PrepareCommit, LifecycleOk
  <2>4. event \notin TransitionEvents  BY EventTypes
  <2>5. store.lists[d.id].gen = d.expected  BY DEF PrepareCommit, LifecycleOk
  <2>. QED  BY <1>2, <2>3, <2>4, <2>5 DEF StillHolds, PrepareCommit
<1>. HIDE DEF q
<1>4. At(t, "snapshot") /\ Prepare(t, q)  BY DEF PrepareCommit, q
<1>. QED  BY <1>1, <1>3, <1>4, PrepareStep

(* create_list, replace_list and derive_list keep the invariant.           *)
LEMMA MutateStep == ASSUME IInv, NEW t \in Threads, Mutate(t) PROVE IInv'
<1>1. PICK a \in Attempts, p \in Publishers, b \in Boots, id \in Lists, body \in Bodies,
           sup \in Lists \cup {None} :
           PrepareCommit(t, IntentFor(id), SubmittedDraft(id, body, sup), a, p, b)
  BY DEF Mutate
<1>2. SubmittedDraft(id, body, sup) \in Draft
  <2>1. body \in Body  BY ConstantsAssumption
  <2>2. \A l \in Lists : store.lists[l].gen \in Nat  BY DEF IInv, TypeOK, Image, List
  <2>. QED  BY <2>1, <2>2 DEF SubmittedDraft, Draft, Body
<1>3. IntentFor(id) \in CommitEvents  BY DEF IntentFor, CommitEvents
<1>. QED  BY <1>1, <1>2, <1>3, PrepareCommitStep

(* revalidate keeps the invariant.                                         *)
LEMMA RevalidateStep == ASSUME IInv, NEW t \in Threads, Revalidate(t) PROVE IInv'
<1>1. PICK a \in Attempts, p \in Publishers, b \in Boots :
           PrepareCommit(t, "RevalidateBegin", request[t], a, p, b)
  BY DEF Revalidate
<1>2. request[t] \in Draft  BY DEF Revalidate, IInv, TypeOK
<1>3. "RevalidateBegin" \in CommitEvents  BY DEF CommitEvents
<1>. QED  BY <1>1, <1>2, <1>3, PrepareCommitStep

(* transition, up to its commit phase, keeps the invariant.                *)
LEMMA TransitionStep == ASSUME IInv, NEW t \in Threads, Transition(t) PROVE IInv'
<1>1. PICK a \in Attempts, p \in Publishers, b \in Boots, id \in Lists,
           event \in TransitionEvents : PrepareTransition(t, event, id, a, p, b)
  BY DEF Transition
<1>. DEFINE d == [id |-> id, needs |-> {}, bind |-> [x \in Deps |-> 0], segs |-> 0,
                  expected |-> store.lists[id].gen, sup |-> None, supGen |-> 0]
            q == MakePlan(t, event, d, a, b)
<1>2. d \in Draft
  <2>1. store.lists[id].gen \in Nat  BY DEF IInv, TypeOK, Image, List
  <2>. QED  BY <2>1 DEF Draft, View
<1>3. q \in Plan /\ q.storeRev = store.revision  BY <1>2, MakePlanType DEF IInv
<1>4. /\ q.event = event /\ q.draft.id = id /\ q.draft.sup = None
      /\ q.draft.expected = store.lists[id].gen
  BY DEF MakePlan
<1>5. event \notin CommitEvents  BY EventTypes
<1>6. store.lists[id].gen # 0 /\ Permits(store.lists[id].state, event)
  BY <1>1 DEF PrepareTransition, LifecycleOk
<1>7. At(t, "snapshot") /\ Prepare(t, q)  BY <1>1 DEF PrepareTransition
<1>. HIDE DEF q, d
<1>8. StillHolds(q)  BY <1>4, <1>5, <1>6 DEF StillHolds, SupersedeOk
<1>. QED  BY <1>3, <1>7, <1>8, PrepareStep

(* The commit phase of run_batch keeps the invariant.                      *)
LEMMA CommitStep == ASSUME IInv, NEW t \in Threads, Commit(t) PROVE IInv'
<1>1. plan[t] \in Plan /\ StillHolds(plan[t])
  BY DEF Commit, At, Verified, IInv, PlanInv
<1>2. SupersedeOk(plan[t].draft, store.lists)  BY <1>1 DEF StillHolds
<1>3. CommitImage(plan[t]) \in Image /\ CommitImage(plan[t]).revision = store.revision + 1
  BY <1>1, <1>2, CommitImageType DEF IInv
<1>4. store.revision \in Nat  BY DEF IInv, TypeOK, Image
<1>5. CommitImage(plan[t]).revision > store.revision  BY <1>3, <1>4
<1>. QED  BY <1>3, <1>5, SaveStep DEF Commit, At

(* The commit phase of transition keeps the invariant.                     *)
LEMMA CommitTransitionStep ==
    ASSUME IInv, NEW t \in Threads, CommitTransition(t) PROVE IInv'
<1>1. plan[t] \in Plan /\ StillHolds(plan[t])
  BY DEF CommitTransition, At, Verified, IInv, PlanInv
<1>2. plan[t].event \in TransitionEvents  BY DEF CommitTransition
<1>3. Permits(store.lists[plan[t].draft.id].state, plan[t].event)  BY <1>1, <1>2 DEF StillHolds
<1>4. TransitionImage(plan[t]) \in Image /\ TransitionImage(plan[t]).revision = store.revision + 1
  BY <1>1, <1>2, <1>3, TransitionImageType DEF IInv
<1>5. store.revision \in Nat  BY DEF IInv, TypeOK, Image
<1>6. TransitionImage(plan[t]).revision > store.revision  BY <1>4, <1>5
<1>. QED  BY <1>4, <1>6, SaveStep DEF CommitTransition, At

(* The locked part of refresh_currentness keeps the invariant.             *)
LEMMA RefreshApplyStep == ASSUME IInv, NEW t \in Threads, RefreshApply(t) PROVE IInv'
<1>. DEFINE lists == [l \in Lists |-> Refreshed(store.lists[l], CapturedView(t), seen[t].epoch)]
            rev   == store.revision + 1
            image == [store EXCEPT !.lists = lists, !.revision = rev]
<1>1. store \in Image /\ store.revision \in Nat  BY DEF IInv, TypeOK, Image
<1>2. lists \in [Lists -> List]
  <2>1. \A l \in Lists : store.lists[l] \in List  BY <1>1 DEF Image
  <2>. QED  BY <2>1, RefreshedType
<1>. HIDE DEF lists
<1>3. rev \in Nat /\ rev > store.revision  BY <1>1
<1>. HIDE DEF rev
<1>6. image \in Image /\ image.revision = rev  BY <1>1, <1>2, <1>3 DEF Image
<1>4. CASE Return(t) /\ UNCHANGED <<disk, pending, lock>>
  BY <1>4, ReturnStep DEF RefreshApply, At, ghosts, IInv, TypeOK
<1>. HIDE DEF image
<1>5. CASE Save(t, image, image)
  <2>1. image.revision > store.revision  BY <1>3, <1>6
  <2>. QED  BY <1>5, <1>6, <2>1, SaveStep DEF RefreshApply, At
<1>. QED  BY <1>4, <1>5 DEF RefreshApply, lists, image, rev

(* The saving part of register_profile and register_policy keeps the       *)
(* invariant.                                                              *)
LEMMA RegisterSaveStep == ASSUME IInv, NEW t \in Threads, RegisterSave(t) PROVE IInv'
<1>. DEFINE image == WithTables(store)
            rev   == store.revision + 1
            after == [image EXCEPT !.revision = rev]
<1>1. store \in Image /\ store.revision \in Nat  BY DEF IInv, TypeOK, Image
<1>2. image \in Image /\ image.revision = store.revision
  BY <1>1, WithTablesType DEF IInv
<1>3. rev \in Nat /\ rev > store.revision  BY <1>1
<1>4. Save(t, image, after)  BY <1>2 DEF RegisterSave
<1>. HIDE DEF image, rev
<1>5. after \in Image /\ after.revision = rev  BY <1>2, <1>3 DEF Image
<1>6. after.lists = image.lists /\ after.attempts = image.attempts  BY <1>2 DEF Image
<1>. HIDE DEF after
<1>. QED  BY <1>2, <1>3, <1>4, <1>5, <1>6, SaveStep DEF RegisterSave, At

(* persist_now keeps the invariant.                                        *)
LEMMA PersistNowStep == ASSUME IInv, NEW t \in Threads, PersistNow(t) PROVE IInv'
<1>. DEFINE base == WithTables(store)
            rev   == store.revision + 1
            image == [base EXCEPT !.revision = rev, !.epoch = epoch]
<1>1. store \in Image /\ store.revision \in Nat /\ epoch \in Nat  BY DEF IInv, TypeOK, Image
<1>2. base \in Image /\ base.revision = store.revision  BY <1>1, WithTablesType DEF IInv
<1>3. rev \in Nat /\ rev > store.revision  BY <1>1
<1>4. Save(t, image, image)  BY <1>2 DEF PersistNow
<1>. HIDE DEF base, rev
<1>5. image \in Image /\ image.revision = rev  BY <1>1, <1>2, <1>3 DEF Image
<1>. HIDE DEF image
<1>. QED  BY <1>3, <1>4, <1>5, SaveStep DEF PersistNow, At

(* Swapping the saved image in keeps the invariant: this is where visible  *)
(* catches up with durable.                                                *)
LEMMA SwapStep == ASSUME IInv, NEW t \in Threads, Swap(t) PROVE IInv'
<1>1. lock = t /\ lock # None /\ phase = "serving"
  BY ConstantsAssumption DEF Swap, At, IInv, LockInv
<1>2. pending \in Image /\ pending.revision > store.revision /\ pending.revision \in Nat
  BY <1>1 DEF IInv, LockInv, Image
<1>3. acked' \in SUBSET Attempts
  <2>1. plan[t] \in Plan \cup {None}  BY DEF IInv, TypeOK
  <2>. QED  BY <2>1 DEF Swap, IInv, TypeOK, Plan
<1>4. TypeOK'  BY <1>2, <1>3, ReturnType DEF Swap, IInv, TypeOK, upstream, authority
<1>5. LockInv'  BY <1>1, ReturnType, ConstantsAssumption DEF Swap, IInv, LockInv
<1>6. PlanInv'
  <2>1. store'.revision \in Nat /\ store'.revision > store.revision  BY <1>2 DEF Swap
  <2>2. \A u \in Threads : pc'[u] = "prepared" => pc[u] = "prepared" /\ plan'[u] = plan[u]
    BY ReturnType DEF Swap, IInv
  <2>. QED  BY <2>1, <2>2, PlanInvKept DEF IInv
<1>7. DurableInv'  BY <1>1 DEF Swap, IInv, DurableInv
<1>. QED  BY <1>4, <1>5, <1>6, <1>7 DEF IInv

(* The steps of a call that read, and those that return early. *)
LEMMA ReadStep ==
    ASSUME IInv, NEW t \in Threads,
           \/ \E id \in Lists, e \in 0 .. MaxGeneration : RevalidateRead(t, id, e)
           \/ ReadWatermark(t) \/ ReadSnapshot(t)
           \/ RefreshReadEvidence(t) \/ RefreshReadEpoch(t)
           \/ \E x \in RegistryDeps : Register(t, x)
    PROVE  IInv'
<1>0. /\ pc \in [Threads -> PCs] /\ seen \in [Threads -> Observation]
      /\ evidence \in [rev : Nat, gen : [EvidenceDeps -> Nat]] /\ epoch \in Nat
  BY DEF IInv, TypeOK
<1>1. CASE \E id \in Lists, e \in 0 .. MaxGeneration : RevalidateRead(t, id, e)
  <2>1. PICK id \in Lists, e \in 0 .. MaxGeneration : RevalidateRead(t, id, e)  BY <1>1
  <2>2. store.lists[id] \in List /\ e \in Nat
    <3>1. MaxGeneration \in Nat  BY ConstantsAssumption
    <3>. QED  BY <3>1 DEF IInv, TypeOK, Image
  <2>. DEFINE l == store.lists[id]
              d == [id |-> id, needs |-> l.needs, segs |-> l.segs,
                    bind |-> [x \in Deps |-> IF x \in PinnedDeps THEN l.bound[x] ELSE 0],
                    expected |-> IF e = 0 THEN l.gen ELSE e, sup |-> None, supGen |-> 0]
  <2>3. d \in Draft  BY <2>2 DEF Draft, List, View
  <2>4. request' = [request EXCEPT ![t] = d]  BY <2>1 DEF RevalidateRead
  <2>. HIDE DEF d
  <2>5. TypeOK'
    BY <1>0, <2>1, <2>3, <2>4
       DEF IInv, TypeOK, RevalidateRead, PCs, upstream, authority, ghosts
  <2>. QED  BY <1>0, <2>1, <2>5, QuietStep DEF RevalidateRead, At
<1>2. CASE ReadWatermark(t)
  <2>1. TypeOK'
    BY <1>0, <1>2, ZenonT(40) DEF IInv, TypeOK, ReadWatermark, PCs, Observation, upstream, authority, ghosts
  <2>. QED  BY <1>0, <1>2, <2>1, QuietStep DEF ReadWatermark, At
<1>3. CASE ReadSnapshot(t)
  <2>1. TypeOK'
    BY <1>0, <1>3, ZenonT(40) DEF IInv, TypeOK, ReadSnapshot, PCs, Observation, upstream, authority, ghosts
  <2>. QED  BY <1>0, <1>3, <2>1, QuietStep DEF ReadSnapshot, At
<1>4. CASE RefreshReadEvidence(t)
  <2>1. TypeOK'
    BY <1>0, <1>4, ZenonT(40)
       DEF IInv, TypeOK, RefreshReadEvidence, PCs, Observation, upstream, authority, ghosts
  <2>. QED  BY <1>0, <1>4, <2>1, QuietStep DEF RefreshReadEvidence, At
<1>5. CASE RefreshReadEpoch(t)
  <2>1. TypeOK'
    BY <1>0, <1>5, ZenonT(40)
       DEF IInv, TypeOK, RefreshReadEpoch, PCs, Observation, upstream, authority, ghosts
  <2>. QED  BY <1>0, <1>5, <2>1, QuietStep DEF RefreshReadEpoch, At
<1>6. CASE \E x \in RegistryDeps : Register(t, x)
  <2>1. PICK x \in RegistryDeps : Register(t, x)  BY <1>6
  <2>2. TypeOK'  BY <1>0, <2>1 DEF IInv, TypeOK, Register, PCs, authority, ghosts
  <2>. QED  BY <1>0, <2>1, <2>2, QuietStep DEF Register, At
<1>. QED  BY <1>1, <1>2, <1>3, <1>4, <1>5, <1>6

(* A refused call and the replayed answer of a known attempt keep it.      *)
LEMMA EarlyReturnStep ==
    ASSUME IInv, NEW t \in Threads,
           Refuse(t) \/ RefuseCommit(t) \/ \E a \in Attempts : Replay(t, a)
    PROVE  IInv'
<1>1. acked \in SUBSET Attempts  BY DEF IInv, TypeOK
<1>2. CASE Refuse(t)  BY <1>1, <1>2, ReturnStep DEF Refuse, At, ghosts
<1>3. CASE RefuseCommit(t)  BY <1>1, <1>3, ReturnStep DEF RefuseCommit, At, ghosts
<1>4. CASE \E a \in Attempts : Replay(t, a)
  BY <1>1, <1>4, ReturnStep DEF Replay, At
<1>. QED  BY <1>2, <1>3, <1>4
--------------------------------------------------------------------------------
(* The environment and the process. *)

(* Changes of evidence, registry and authority made outside the store lock *)
(* keep the invariant.                                                     *)
LEMMA EnvironmentStep == ASSUME IInv, Environment PROVE IInv'
<1>. USE DEF IInv, TypeOK
<1>1. CASE \E x \in RegistryDeps : AdvanceRegistry(x)
  <2>1. TypeOK'  BY <1>1 DEF AdvanceRegistry, authority, threads, ghosts
  <2>. QED  BY <1>1, <2>1, QuietStep DEF AdvanceRegistry, threads
<1>2. CASE \E x \in EvidenceDeps, g \in 0 .. MaxDepGeneration : ChangeEvidence(x, g)
  <2>1. PICK x \in EvidenceDeps, g \in 0 .. MaxDepGeneration : ChangeEvidence(x, g)  BY <1>2
  <2>2. g \in Nat
    <3>1. MaxDepGeneration \in Nat  BY ConstantsAssumption
    <3>. QED  BY <3>1
  <2>3. TypeOK'  BY <2>1, <2>2 DEF ChangeEvidence, authority, threads, ghosts
  <2>. QED  BY <2>1, <2>3, QuietStep DEF ChangeEvidence, threads
<1>3. CASE AdvanceEpoch
  <2>1. TypeOK'  BY <1>3 DEF AdvanceEpoch, upstream, threads
  <2>. QED  BY <1>3, <2>1, QuietStep DEF AdvanceEpoch, threads
<1>4. CASE \E p \in Publishers, b \in Boots : RegisterPublisher(p, b)
  <2>1. TypeOK'  BY <1>4 DEF RegisterPublisher, Publisher, upstream, threads, ghosts
  <2>. QED  BY <1>4, <2>1, QuietStep DEF RegisterPublisher, threads
<1>5. CASE \E p \in Publishers : MarkDead(p)
  <2>1. PICK p \in Publishers : MarkDead(p)  BY <1>5
  <2>2. publishers[p].boot \in Boots  BY <2>1 DEF MarkDead, Publisher
  <2>3. publishers' \in [Publishers -> Publisher]  BY <2>1 DEF MarkDead, Publisher
  <2>4. TypeOK'  BY <2>1, <2>2, <2>3 DEF MarkDead, upstream, threads
  <2>. QED  BY <2>1, <2>4, QuietStep DEF MarkDead, threads
<1>6. CASE \E b \in Boots : FenceBoot(b)
  <2>1. PICK b \in Boots : FenceBoot(b)  BY <1>6
  <2>2. publishers' \in [Publishers -> Publisher]  BY <2>1, ZenonT(40) DEF FenceBoot, Publisher
  <2>3. TypeOK'  BY <2>1, <2>2 DEF FenceBoot, upstream, threads
  <2>. QED  BY <2>1, <2>3, QuietStep DEF FenceBoot, threads
<1>. QED  BY <1>1, <1>2, <1>3, <1>4, <1>5, <1>6 DEF Environment

(* A crash keeps the invariant, at whichever point of a save it comes.     *)
LEMMA CrashStep == ASSUME IInv, Crash PROVE IInv'
<1>1. TypeOK'
  <2>1. Unseen \in Observation  BY DEF Unseen, Observation
  <2>2. /\ InitImage.pubs \in [Publishers -> Publisher]
        /\ InitImage.regs \in [RegistryDeps -> Nat]
    BY InitImageType DEF Image
  <2>. QED  BY InitImageType, <2>1, <2>2 DEF Crash, IInv, TypeOK, PCs, InitialEpoch, ghosts
<1>2. LockInv'  BY ConstantsAssumption DEF Crash, LockInv
<1>3. PlanInv'  BY DEF Crash, PlanInv
<1>4. DurableInv'  BY DEF Crash, DurableInv
<1>. QED  BY <1>1, <1>2, <1>3, <1>4 DEF IInv

(* A step of a process that does not serve before it, so that no call is   *)
(* under way, and leaves the threads alone.                                *)
LEMMA StartStep ==
    ASSUME IInv, phase # "serving", phase' \in {"loaded", "serving"},
           TypeOK', DurableInv', UNCHANGED <<lock, pending, threads>>
    PROVE  IInv'
<1>1. lock = None /\ \A t \in Threads : pc[t] = "idle"  BY DEF IInv, LockInv
<1>2. LockInv'  BY <1>1, ConstantsAssumption DEF LockInv, threads
<1>3. PlanInv'  BY <1>1 DEF PlanInv, threads
<1>. QED  BY <1>2, <1>3 DEF IInv

(* Starting without a state file keeps the invariant.                      *)
LEMMA LoadNothingStep == ASSUME IInv, LoadNothing PROVE IInv'
<1>1. store = InitImage /\ disk = NoImage  BY DEF LoadNothing, IInv, DurableInv
<1>2. store.lists = disk.lists /\ store.attempts = disk.attempts
  BY <1>1 DEF InitImage, NoImage
<1>3. TypeOK'  BY DEF LoadNothing, IInv, TypeOK, upstream, authority, threads, ghosts
<1>4. DurableInv'  BY <1>2 DEF LoadNothing, DurableInv
<1>. QED  BY <1>3, <1>4, StartStep DEF LoadNothing

(* Starting from a state file keeps the invariant.                         *)
LEMMA LoadStep == ASSUME IInv, Load PROVE IInv'
<1>. DEFINE boots == {disk.pubs[p].boot : p \in Publishers} \ {None}
            lists == [l \in Lists |-> Recovered(disk.lists[l])]
            rev   == store.revision + disk.revision + 1
            e     == disk.epoch + 1
            image == [disk EXCEPT !.lists = lists, !.pubs = publishers', !.fenced = fencedBoots',
                                  !.epoch = e, !.revision = rev]
<1>1. /\ disk \in Image /\ disk.pubs \in [Publishers -> Publisher]
      /\ disk.fenced \in SUBSET Boots /\ disk.lists \in [Lists -> List]
      /\ disk.regs \in [RegistryDeps -> Nat]
  BY DEF IInv, TypeOK, Image
<1>2. /\ publishers' = [p \in Publishers |-> [disk.pubs[p] EXCEPT !.alive = FALSE]]
      /\ fencedBoots' = disk.fenced \cup boots
      /\ epoch' = e /\ store' = image /\ disk' \in {image, disk}
  BY DEF Load
<1>3. publishers' \in [Publishers -> Publisher]  BY <1>1, <1>2 DEF Publisher
<1>4. fencedBoots' \in SUBSET Boots  BY <1>1, <1>2 DEF Publisher
<1>5. lists \in [Lists -> List]  BY <1>1, RecoveredType
<1>6. rev \in Nat /\ e \in Nat
  <2>1. store.revision \in Nat /\ disk.revision \in Nat /\ disk.epoch \in Nat
    BY DEF IInv, TypeOK, Image
  <2>. QED  BY <2>1
<1>7. \A l \in Lists : lists[l] = Recovered(disk.lists[l])  OBVIOUS
<1>. HIDE DEF boots, lists, rev, e
<1>8. image \in Image /\ image.lists = lists /\ image.attempts = disk.attempts
  BY <1>1, <1>3, <1>4, <1>5, <1>6 DEF Image
<1>. HIDE DEF image
<1>9. /\ phase = "down" /\ phase' = "loaded"
      /\ UNCHANGED <<evidence, lock, pending, threads, acked, served>>
      /\ registry' = [rev |-> 0, gen |-> disk.regs]
      /\ everFenced' = everFenced \cup fencedBoots'
  BY DEF Load
<1>10. TypeOK'
  BY <1>1, <1>2, <1>3, <1>4, <1>6, <1>8, <1>9 DEF IInv, TypeOK, threads
<1>11. DurableInv'
  <2>1. store'.attempts = disk'.attempts  BY <1>2, <1>8
  <2>2. \A l \in Lists : store'.lists[l] \in {disk'.lists[l], Recovered(disk'.lists[l])}
    BY <1>2, <1>7, <1>8
  <2>3. \A l \in Lists : Recovered(disk.lists[l])' = Recovered(disk'.lists[l])
    BY DEF Recovered
  <2>. QED  BY <1>9, <2>1, <2>2, <2>3 DEF DurableInv
<1>. QED  BY <1>9, <1>10, <1>11, StartStep

(* Registering a built-in profile or policy at start keeps the invariant.  *)
LEMMA DeclareBuiltinStep ==
    ASSUME IInv, NEW x \in RegistryDeps, DeclareBuiltin(x)
    PROVE  IInv' /\ disk'.lists = store.lists /\ disk'.attempts = store.attempts
<1>. DEFINE base == WithTables(store)
            regs == [registry.gen EXCEPT ![x] = 1]
            image == [base EXCEPT !.regs = regs]
            rev == store.revision + 1
            next == [image EXCEPT !.revision = rev]
<1>1. store \in Image /\ store.revision \in Nat  BY DEF IInv, TypeOK, Image
<1>2. /\ base \in Image /\ base.lists = store.lists /\ base.attempts = store.attempts
      /\ base.revision = store.revision
  BY <1>1, WithTablesType DEF IInv
<1>3. regs \in [RegistryDeps -> Nat]  BY DEF IInv, TypeOK
<1>4. rev \in Nat  BY <1>1
<1>5. registry' = [rev |-> registry.rev + 1, gen |-> regs]  BY DEF DeclareBuiltin
<1>6. disk' = image  BY <1>5 DEF DeclareBuiltin
<1>7. image.revision = store.revision  BY <1>2 DEF Image
<1>8. store' = next
  <2>1. store' = [disk' EXCEPT !.revision = @ + 1]  BY DEF DeclareBuiltin
  <2>. HIDE DEF image
  <2>. QED  BY <1>6, <1>7, <2>1
<1>9. phase = "loaded" /\ UNCHANGED <<phase, evidence, authority, lock, pending, threads, ghosts>>
  BY DEF DeclareBuiltin
<1>. HIDE DEF base, regs, rev
<1>10. image \in Image /\ image.lists = base.lists /\ image.attempts = base.attempts
  BY <1>2, <1>3 DEF Image
<1>. HIDE DEF image
<1>11. next \in Image /\ next.lists = image.lists /\ next.attempts = image.attempts
  BY <1>4, <1>10 DEF Image
<1>. HIDE DEF next
<1>12. TypeOK'
  BY <1>3, <1>5, <1>6, <1>8, <1>9, <1>10, <1>11 DEF IInv, TypeOK, authority, threads, ghosts
<1>13. DurableInv'  BY <1>6, <1>8, <1>9, <1>11 DEF DurableInv
<1>. QED  BY <1>2, <1>6, <1>9, <1>10, <1>12, <1>13, StartStep

(* Opening the new epoch, saved before it is served, keeps the invariant.  *)
LEMMA ServeStep ==
    ASSUME IInv, Serve
    PROVE  IInv' /\ disk'.lists = store.lists /\ disk'.attempts = store.attempts
<1>. DEFINE base == WithTables(store)
            rev == store.revision + 1
            e == epoch + 1
            image == [base EXCEPT !.epoch = e, !.revision = rev]
<1>1. store \in Image /\ store.revision \in Nat /\ epoch \in Nat  BY DEF IInv, TypeOK, Image
<1>2. /\ base \in Image /\ base.lists = store.lists /\ base.attempts = store.attempts
      /\ base.revision = store.revision
  BY <1>1, WithTablesType DEF IInv
<1>3. rev \in Nat /\ e \in Nat  BY <1>1
<1>4. epoch' = e /\ store' = image /\ disk' = image  BY <1>2 DEF Serve
<1>5. /\ phase = "loaded" /\ phase' = "serving" /\ served' = epoch'
      /\ UNCHANGED <<upstream, publishers, fencedBoots, lock, pending, threads, acked, everFenced>>
  BY DEF Serve
<1>. HIDE DEF base, rev, e
<1>6. image \in Image /\ image.lists = base.lists /\ image.attempts = base.attempts
  BY <1>2, <1>3 DEF Image
<1>. HIDE DEF image
<1>7. TypeOK'  BY <1>3, <1>4, <1>5, <1>6 DEF IInv, TypeOK, upstream, threads
<1>8. lock' = None  BY <1>5 DEF IInv, LockInv
<1>9. DurableInv'  BY <1>4, <1>5, <1>8 DEF DurableInv
<1>. QED  BY <1>2, <1>4, <1>5, <1>6, <1>7, <1>9, StartStep

(* Every step of a call keeps the invariant.                               *)
LEMMA CallStep == ASSUME IInv, NEW t \in Threads, Call(t) PROVE IInv'
BY MutateStep, RevalidateStep, TransitionStep, CommitStep, CommitTransitionStep,
   RefreshApplyStep, RegisterSaveStep, PersistNowStep, SwapStep, ReadStep, EarlyReturnStep
   DEF Call

(* Every step of starting and ending the coordinator keeps the invariant.  *)
LEMMA ProcessStep == ASSUME IInv, Process PROVE IInv'
<1>1. Builtins \subseteq RegistryDeps  BY ConstantsAssumption
<1>. QED
  BY <1>1, CrashStep, LoadNothingStep, LoadStep, DeclareBuiltinStep, ServeStep DEF Process

(* The invariant is inductive.                                             *)
LEMMA NextStep == IInv /\ [Next]_vars => IInv'
<1>. SUFFICES ASSUME IInv, [Next]_vars PROVE IInv'  OBVIOUS
<1>1. CASE \E t \in Threads : Call(t)  BY <1>1, CallStep
<1>2. CASE Environment  BY <1>2, EnvironmentStep
<1>3. CASE Process  BY <1>3, ProcessStep
<1>4. CASE UNCHANGED vars
  <2>1. TypeOK'  BY <1>4 DEF vars, upstream, authority, threads, ghosts, IInv, TypeOK
  <2>. QED  BY <1>4, <2>1, QuietStep DEF vars, threads
<1>. QED  BY <1>1, <1>2, <1>3, <1>4 DEF Next

(* The inductive invariant holds in every state of every behaviour. *)
THEOREM Invariance == Spec => []IInv
BY InitInv, NextStep, PTL DEF Spec

(* Every variable keeps its type, whatever calls race, fail or crash: in   *)
(* particular phase E never applies an event the transition table denies.  *)
THEOREM TypeCorrect == Spec => []TypeOK
<1>1. IInv => TypeOK  BY DEF IInv
<1>. QED  BY <1>1, Invariance, PTL

(* Nothing is visible to callers of a serving store that is not saved.     *)
THEOREM DurableBeforeVisible == Spec => []VisibleIsDurable
<1>1. IInv => VisibleIsDurable  BY DEF IInv, DurableInv, VisibleIsDurable
<1>. QED  BY <1>1, Invariance, PTL
--------------------------------------------------------------------------------
(* What a step of the store can do to the state file, and from it that the *)
(* state file implements GovernedLists and keeps the promises stated over  *)
(* it.  The argument has three parts: from the inductive invariant, every  *)
(* step leaves the file's lists alone up to recovery, re-evaluates them,   *)
(* commits one generation, or applies one transition (DiskStep); each of   *)
(* these four relates the old lists and attempts to the new ones; and the  *)
(* properties follow from these relations.                                 *)

(* The four things a step can do to the lists and the attempts on disk. *)
KeepsLists ==
    /\ disk'.attempts = disk.attempts
    /\ \A l \in Lists : disk'.lists[l] \in {disk.lists[l], Recovered(disk.lists[l])}

Reevaluates ==
    /\ disk'.attempts = disk.attempts
    /\ \E view, e : disk'.lists = [l \in Lists |-> Refreshed(disk.lists[l], view, e)]

(* Thread t saves its prepared image; what phase B found still holds. *)
SavesPlan(t) ==
    /\ pc[t] = "prepared" /\ plan[t] \in Plan
    /\ StillHolds(plan[t])
    /\ store.lists = disk.lists
    /\ store.attempts = disk.attempts

CommitsPlan(t) ==
    /\ SavesPlan(t)
    /\ plan[t].event \in CommitEvents
    /\ disk' = CommitImage(plan[t])

TransitionsPlan(t) ==
    /\ SavesPlan(t)
    /\ plan[t].event \in TransitionEvents
    /\ disk' = TransitionImage(plan[t])

DiskMoves ==
    \/ KeepsLists
    \/ Reevaluates
    \/ \E t \in Threads : CommitsPlan(t) \/ TransitionsPlan(t)

(* Saving an image either changes the state file to it or leaves it alone. *)
LEMMA SaveMoves ==
    ASSUME NEW t, NEW image, NEW after, Save(t, image, after)
    PROVE  lock = None /\ (disk' = image \/ disk' = disk)
BY DEF Save

(* A prepared call that passes phase E saves what it prepared. *)
LEMMA CommitMoves ==
    ASSUME IInv, NEW t \in Threads, Commit(t) \/ CommitTransition(t)
    PROVE  DiskMoves
<1>1. phase = "serving" /\ pc[t] = "prepared" /\ Verified(t)  BY DEF Commit, CommitTransition, At
<1>2. plan[t] \in Plan /\ StillHolds(plan[t])  BY <1>1 DEF Verified, IInv, PlanInv
<1>3. CASE Commit(t)
  <2>1. /\ plan[t].event \in CommitEvents
        /\ lock = None /\ (disk' = CommitImage(plan[t]) \/ disk' = disk)
    BY <1>3, SaveMoves DEF Commit
  <2>. QED  BY <1>1, <1>2, <2>1
         DEF IInv, DurableInv, DiskMoves, KeepsLists, CommitsPlan, SavesPlan
<1>4. CASE CommitTransition(t)
  <2>1. /\ plan[t].event \in TransitionEvents
        /\ lock = None /\ (disk' = TransitionImage(plan[t]) \/ disk' = disk)
    BY <1>4, SaveMoves DEF CommitTransition
  <2>. QED  BY <1>1, <1>2, <2>1
         DEF IInv, DurableInv, DiskMoves, KeepsLists, TransitionsPlan, SavesPlan
<1>. QED  BY <1>3, <1>4

(* The other calls that save change no list, or re-evaluate all of them. *)
LEMMA OtherSaveMoves ==
    ASSUME IInv, NEW t \in Threads, RefreshApply(t) \/ RegisterSave(t) \/ PersistNow(t)
    PROVE  DiskMoves
<1>1. phase = "serving"  BY DEF RefreshApply, RegisterSave, PersistNow, At
<1>2. store \in Image  BY DEF IInv, TypeOK
<1>3. CASE RefreshApply(t)
  <2>. DEFINE lists == [l \in Lists |-> Refreshed(store.lists[l], CapturedView(t), seen[t].epoch)]
              image == [store EXCEPT !.lists = lists, !.revision = @ + 1]
  <2>1. image.lists = lists /\ image.attempts = store.attempts  BY <1>2 DEF Image
  <2>2. disk' = disk \/ (lock = None /\ disk' = image)
    BY <1>3, SaveMoves DEF RefreshApply
  <2>3. CASE disk' = disk  BY <2>3 DEF DiskMoves, KeepsLists
  <2>4. CASE lock = None /\ disk' = image
    <3>1. store.lists = disk.lists /\ store.attempts = disk.attempts
      BY <1>1, <2>4 DEF IInv, DurableInv
    <3>2. disk'.lists = [l \in Lists |-> Refreshed(disk.lists[l], CapturedView(t), seen[t].epoch)]
      BY <2>1, <2>4, <3>1
    <3>3. disk'.attempts = disk.attempts  BY <2>1, <2>4, <3>1
    <3>. QED  BY <3>2, <3>3 DEF DiskMoves, Reevaluates
  <2>. QED  BY <2>2, <2>3, <2>4
<1>4. CASE RegisterSave(t)
  <2>1. lock = None /\ (disk' = WithTables(store) \/ disk' = disk)
    BY <1>4, SaveMoves DEF RegisterSave
  <2>2. WithTables(store).lists = store.lists /\ WithTables(store).attempts = store.attempts
    BY <1>2, WithTablesType DEF IInv
  <2>. QED  BY <1>1, <2>1, <2>2 DEF IInv, DurableInv, DiskMoves, KeepsLists
<1>5. CASE PersistNow(t)
  <2>. DEFINE image == [WithTables(store) EXCEPT !.revision = @ + 1, !.epoch = epoch]
  <2>1. lock = None /\ (disk' = image \/ disk' = disk)  BY <1>5, SaveMoves DEF PersistNow
  <2>2. image.lists = WithTables(store).lists /\ image.attempts = WithTables(store).attempts
    BY <1>2, WithTablesType DEF IInv, Image
  <2>3. WithTables(store).lists = store.lists /\ WithTables(store).attempts = store.attempts
    BY <1>2, WithTablesType DEF IInv
  <2>. HIDE DEF image
  <2>. QED  BY <1>1, <2>1, <2>2, <2>3 DEF IInv, DurableInv, DiskMoves, KeepsLists
<1>. QED  BY <1>3, <1>4, <1>5

(* A restart writes back what was in the file, or what recovery made of it. *)
LEMMA RestartMoves ==
    ASSUME IInv, Process
    PROVE  DiskMoves
<1>1. CASE Crash \/ LoadNothing  BY <1>1 DEF Crash, LoadNothing, DiskMoves, KeepsLists
<1>2. CASE Load
  <2>. DEFINE image == [disk EXCEPT
                 !.lists = [l \in Lists |-> Recovered(disk.lists[l])],
                 !.pubs = publishers', !.fenced = fencedBoots',
                 !.epoch = disk.epoch + 1,
                 !.revision = store.revision + @ + 1]
  <2>1. disk \in Image  BY DEF IInv, TypeOK
  <2>2. disk' \in {image, disk}  BY <1>2 DEF Load
  <2>3. image.attempts = disk.attempts /\ image.lists = [l \in Lists |-> Recovered(disk.lists[l])]
    BY <2>1 DEF Image
  <2>. HIDE DEF image
  <2>. QED  BY <2>2, <2>3 DEF DiskMoves, KeepsLists
<1>3. CASE (\E x \in Builtins : DeclareBuiltin(x)) \/ Serve
  <2>1. phase = "loaded"  BY <1>3 DEF DeclareBuiltin, Serve
  <2>2. disk'.lists = store.lists /\ disk'.attempts = store.attempts
    BY <1>3, DeclareBuiltinStep, ServeStep, ConstantsAssumption
  <2>. QED  BY <2>1, <2>2 DEF IInv, DurableInv, DiskMoves, KeepsLists
<1>. QED  BY <1>1, <1>2, <1>3 DEF Process

(* Every step does one of the four things to the state file. *)
LEMMA DiskStep == ASSUME IInv, [Next]_vars PROVE DiskMoves
<1>1. CASE UNCHANGED disk  BY <1>1 DEF DiskMoves, KeepsLists
<1>2. CASE \E t \in Threads : Call(t)
  <2>1. PICK t \in Threads : Call(t)  BY <1>2
  <2>2. CASE Commit(t) \/ CommitTransition(t)  BY <2>2, CommitMoves
  <2>3. CASE RefreshApply(t) \/ RegisterSave(t) \/ PersistNow(t)  BY <2>3, OtherSaveMoves
  <2>4. CASE ~ (\/ Commit(t) \/ CommitTransition(t)
                \/ RefreshApply(t) \/ RegisterSave(t) \/ PersistNow(t))
    <3>1. CASE Mutate(t) \/ Revalidate(t) \/ Transition(t)
      <4>1. ASSUME NEW q, Prepare(t, q) PROVE UNCHANGED disk  BY <4>1 DEF Prepare
      <4>2. \E q : Prepare(t, q)
        BY <3>1, ZenonT(40) DEF Mutate, Revalidate, Transition, PrepareCommit, PrepareTransition
      <4>. QED  BY <1>1, <4>1, <4>2
    <3>2. CASE \/ ReadWatermark(t) \/ ReadSnapshot(t) \/ Refuse(t) \/ RefuseCommit(t)
               \/ \E a \in Attempts : Replay(t, a)
      BY <1>1, <3>2 DEF ReadWatermark, ReadSnapshot, Refuse, RefuseCommit, Replay
    <3>3. CASE \/ RefreshReadEvidence(t) \/ RefreshReadEpoch(t) \/ Swap(t)
               \/ \E x \in RegistryDeps : Register(t, x)
               \/ \E id \in Lists, e \in 0 .. MaxGeneration : RevalidateRead(t, id, e)
      BY <1>1, <3>3 DEF RefreshReadEvidence, RefreshReadEpoch, Swap, Register, RevalidateRead
    <3>. QED  BY <2>1, <2>4, <3>1, <3>2, <3>3 DEF Call
  <2>. QED  BY <2>2, <2>3, <2>4
<1>3. CASE Environment
  BY <1>1, <1>3 DEF Environment, AdvanceRegistry, ChangeEvidence, AdvanceEpoch,
     RegisterPublisher, MarkDead, FenceBoot
<1>4. CASE Process  BY <1>4, RestartMoves
<1>5. CASE UNCHANGED vars  BY <1>1, <1>5 DEF vars
<1>. QED  BY <1>2, <1>3, <1>4, <1>5 DEF Next
--------------------------------------------------------------------------------
(* The four moves, list by list. *)

(* Every list on disk is well formed: one that does not exist has no past, *)
(* and an active one is current.                                           *)
WellFormed(l) ==
    /\ l.gen = 0 => l.state = "Declared"
    /\ l.state = "Active" => l.cur = "Current"

DiskInv == IInv /\ \A l \in Lists : WellFormed(disk.lists[l])

(* Nothing but its availability and the way it is closed changes. *)
Weakens(l, m) ==
    /\ m.gen = l.gen
    /\ Content(m) = Content(l)
    /\ l.state \in Closed <=> m.state \in Closed
    /\ Available(m) => Available(l)
    /\ WellFormed(m)

(* Recovery and refresh weaken a list: neither restores its availability,  *)
(* and neither closes or reopens it.                                       *)
LEMMA RecoveredWeakens ==
    ASSUME NEW l \in List, WellFormed(l)
    PROVE  Weakens(l, l) /\ Weakens(l, Recovered(l))
<1>1. l.state \in LifecycleState  BY DEF List
<1>2. Weakens(l, l)  BY DEF Weakens
<1>3. CASE l.gen = 0  BY <1>2, <1>3 DEF Recovered
<1>4. CASE l.gen # 0
  <2>. DEFINE s == Advance(l.state, "RecoveryLoad")
  <2>1. s # "Active" /\ (l.state \in Closed <=> s \in Closed)
    BY <1>1 DEF Advance, kTable, LifecycleState, Closed, TerminalForActivation
  <2>2. /\ Recovered(l).state = s /\ Recovered(l).gen = l.gen /\ Recovered(l).needs = l.needs
        /\ Recovered(l).bound = l.bound /\ Recovered(l).segs = l.segs
    BY <1>4 DEF Recovered, List
  <2>. HIDE DEF s
  <2>. QED  BY <1>4, <2>1, <2>2 DEF Weakens, Content, Available, WellFormed
<1>. QED  BY <1>2, <1>3, <1>4

(* refresh_currentness only ever weakens the currentness of a list.        *)
LEMMA RefreshedWeakens ==
    ASSUME NEW l \in List, WellFormed(l), NEW view, NEW e
    PROVE  Weakens(l, Refreshed(l, view, e))
<1>1. l.state \in LifecycleState  BY DEF List
<1>2. CASE l.gen = 0 \/ l.state \in TerminalForActivation
  BY <1>2 DEF Refreshed, Weakens
<1>3. CASE ~ (l.gen = 0 \/ l.state \in TerminalForActivation)
  <2>. DEFINE c == Evaluate(l, view, e)
              m == [l EXCEPT !.cur = c,
                             !.state = IF c # "Current" /\ @ = "Active"
                                       THEN "RevalidationRequired" ELSE @]
  <2>. HIDE DEF c
  <2>1. /\ m.gen = l.gen /\ m.needs = l.needs /\ m.bound = l.bound /\ m.segs = l.segs
        /\ m.cur = c
        /\ m.state = IF c # "Current" /\ l.state = "Active" THEN "RevalidationRequired" ELSE l.state
    BY DEF List
  <2>2. Refreshed(l, view, e) = m  BY <1>3 DEF Refreshed, c
  <2>. HIDE DEF m
  <2>. QED  BY <1>3, <2>1, <2>2
         DEF Weakens, Content, Available, WellFormed, Closed, TerminalForActivation
<1>. QED  BY <1>2, <1>3

(* The first two moves weaken every list and record no attempt. *)
WeakensAll ==
    /\ disk'.attempts = disk.attempts
    /\ \A l \in Lists : Weakens(disk.lists[l], disk'.lists[l])

(* A save that keeps the lists or re-evaluates them only weakens them.     *)
LEMMA WeakeningMoves ==
    ASSUME DiskInv, KeepsLists \/ Reevaluates
    PROVE  WeakensAll
<1>1. \A l \in Lists : disk.lists[l] \in List /\ WellFormed(disk.lists[l])
  BY DEF DiskInv, IInv, TypeOK, Image
<1>2. CASE KeepsLists  BY <1>1, <1>2, RecoveredWeakens DEF KeepsLists, WeakensAll
<1>3. CASE Reevaluates
  <2>1. PICK view, e : disk'.lists = [l \in Lists |-> Refreshed(disk.lists[l], view, e)]
    BY <1>3 DEF Reevaluates
  <2>. QED  BY <1>1, <1>3, <2>1, RefreshedWeakens DEF Reevaluates, WeakensAll
<1>. QED  BY <1>2, <1>3

(* A commit publishes the next generation of one list under an attempt     *)
(* that is not recorded, and closes at most one other.                     *)
Publishes(p) ==
    LET id  == p.draft.id
        sup == p.draft.sup
        new == disk'.lists[id]
    IN  /\ id \in Lists /\ p.attempt \in Attempts
        /\ disk.lists[id].state \notin Closed
        /\ disk.attempts[p.attempt] = None
        /\ new.gen = disk.lists[id].gen + 1 /\ Available(new) /\ new.attempt = p.attempt
        /\ sup \in Lists \ {id} =>
               /\ disk.lists[sup].gen # 0
               /\ disk'.lists[sup].gen = disk.lists[sup].gen
               /\ Content(disk'.lists[sup]) = Content(disk.lists[sup])
               /\ disk'.lists[sup].state = "Superseded"
        /\ \A l \in Lists \ {id, sup} : disk'.lists[l] = disk.lists[l]
        /\ p.draft # None /\ disk'.attempts = [disk.attempts EXCEPT ![p.attempt] = p.draft]

(* A commit publishes the next revision of its list and supersedes at most *)
(* one other.                                                              *)
LEMMA CommitPublishes ==
    ASSUME DiskInv, NEW t \in Threads, CommitsPlan(t)
    PROVE  Publishes(plan[t])
<1>. DEFINE p     == plan[t]
            id    == p.draft.id
            sup   == p.draft.sup
            lists == IF sup = None THEN store.lists
                     ELSE [store.lists EXCEPT ![sup] = Supersede(@, p)]
<1>1. /\ p \in Plan /\ StillHolds(p) /\ p.event \in CommitEvents
      /\ store.lists = disk.lists /\ store.attempts = disk.attempts
      /\ disk' = CommitImage(p)
  BY DEF CommitsPlan, SavesPlan
<1>2. /\ id \in Lists /\ sup \in Lists \cup {None} /\ p.attempt \in Attempts
      /\ p.draft \in Draft /\ p.draft.expected \in Nat
  BY <1>1 DEF Plan, Draft
<1>3. store \in Image /\ store.lists \in [Lists -> List]  BY DEF DiskInv, IInv, TypeOK, Image
<1>4. disk'.lists = [lists EXCEPT ![id] = MakeList(p)]
  BY <1>1, <1>3 DEF CommitImage, DraftApplied, WithTables, Image
<1>5. disk'.attempts = [store.attempts EXCEPT ![p.attempt] = p.draft]
  BY <1>1, <1>3 DEF CommitImage, DraftApplied, WithTables, Image
<1>6. /\ DOMAIN lists = Lists
      /\ sup \in Lists => lists[sup] = Supersede(store.lists[sup], p)
      /\ \A l \in Lists \ {sup} : lists[l] = store.lists[l]
  BY <1>2, <1>3, ConstantsAssumption
<1>7. sup \in Lists =>
          /\ disk.lists[sup].gen # 0
          /\ Supersede(store.lists[sup], p).gen = disk.lists[sup].gen
          /\ Content(Supersede(store.lists[sup], p)) = Content(disk.lists[sup])
          /\ Supersede(store.lists[sup], p).state = "Superseded"
  <2>. SUFFICES ASSUME sup \in Lists
                PROVE  /\ disk.lists[sup].gen # 0
                       /\ Supersede(store.lists[sup], p).gen = disk.lists[sup].gen
                       /\ Content(Supersede(store.lists[sup], p)) = Content(disk.lists[sup])
                       /\ Supersede(store.lists[sup], p).state = "Superseded"
    OBVIOUS
  <2>1. store.lists[sup] \in List  BY <1>3
  <2>2. store.lists[sup].state \in LifecycleState  BY <2>1 DEF List
  <2>3. store.lists[sup].gen # 0 /\ Permits(store.lists[sup].state, "SupersedeBegin")
    BY <1>1, ConstantsAssumption DEF StillHolds, SupersedeOk
  <2>4. Advance(store.lists[sup].state, "SupersedeBegin") = "Superseded"
    BY <2>2, <2>3, SupersedeLeads
  <2>. QED  BY <1>1, <2>1, <2>3, <2>4 DEF Supersede, Content, List
<1>8. MakeList(p).gen = disk.lists[id].gen + 1 /\ Available(MakeList(p)) /\ MakeList(p).attempt = p.attempt
  BY <1>1 DEF MakeList, Available, Advance, kTable, StillHolds
<1>9. disk.attempts[p.attempt] = None  BY <1>1 DEF StillHolds
<1>10. disk.lists[id].state \notin Closed
  <2>1. CASE disk.lists[id].gen = 0
    BY <1>2, <2>1 DEF DiskInv, WellFormed, Closed, TerminalForActivation
  <2>2. CASE disk.lists[id].gen # 0  BY <1>1, <2>2 DEF StillHolds
  <2>. QED  BY <2>1, <2>2
<1>11. p.draft # None  BY <1>2, NoneAssumption
<1>. HIDE DEF p, lists
<1>. QED  BY <1>1, <1>2, <1>4, <1>5, <1>6, <1>7, <1>8, <1>9, <1>10, <1>11, ZenonT(40) DEF Publishes, p

(* A transition closes one existing list under its generation and records  *)
(* the attempt, whether or not it was recorded before.                     *)
Closes(p) ==
    LET id  == p.draft.id
        new == disk'.lists[id]
    IN  /\ id \in Lists /\ p.attempt \in Attempts
        /\ disk.lists[id].gen # 0
        /\ new.gen = disk.lists[id].gen /\ Content(new) = Content(disk.lists[id])
        /\ new.state \in Closed
        /\ \A l \in Lists \ {id} : disk'.lists[l] = disk.lists[l]
        /\ p.draft # None /\ disk'.attempts = [disk.attempts EXCEPT ![p.attempt] = p.draft]

(* Where the table permits one of these events, it leads to a closed state. *)
LEMMA TransitionsClose ==
    ASSUME NEW s \in LifecycleState, NEW e \in TransitionEvents, Permits(s, e)
    PROVE  Advance(s, e) \in Closed
BY DEF Advance, Permits, kTable, LifecycleState, TransitionEvents, Closed, TerminalForActivation

(* A withdrawal, revocation or retirement closes a lineage, and only that  *)
(* one.                                                                    *)
LEMMA TransitionCloses ==
    ASSUME DiskInv, NEW t \in Threads, TransitionsPlan(t)
    PROVE  Closes(plan[t])
<1>. DEFINE p    == plan[t]
            id   == p.draft.id
            list == [store.lists[id] EXCEPT
                        !.state = Advance(@, p.event), !.cur = "Unknown", !.rev = store.revision + 1,
                        !.boot = p.boot, !.epoch = p.epoch, !.attempt = p.attempt]
<1>1. /\ p \in Plan /\ StillHolds(p) /\ p.event \in TransitionEvents
      /\ store.lists = disk.lists /\ store.attempts = disk.attempts
      /\ disk' = TransitionImage(p)
  BY DEF TransitionsPlan, SavesPlan
<1>2. id \in Lists /\ p.attempt \in Attempts /\ p.draft \in Draft  BY <1>1 DEF Plan, Draft
<1>3. store \in Image /\ store.lists \in [Lists -> List]  BY DEF DiskInv, IInv, TypeOK, Image
<1>4. disk'.lists = [store.lists EXCEPT ![id] = list]
  BY <1>1, <1>3 DEF TransitionImage, WithTables, Image
<1>5. disk'.attempts = [store.attempts EXCEPT ![p.attempt] = p.draft]
  BY <1>1, <1>3 DEF TransitionImage, WithTables, Image
<1>6. store.lists[id] \in List  BY <1>2, <1>3
<1>7. store.lists[id].state \in LifecycleState  BY <1>6 DEF List
<1>8. store.lists[id].gen # 0 /\ Permits(store.lists[id].state, p.event)
  BY <1>1 DEF StillHolds
<1>9. Advance(store.lists[id].state, p.event) \in Closed
  BY <1>1, <1>7, <1>8, TransitionsClose
<1>10. /\ list.gen = disk.lists[id].gen /\ Content(list) = Content(disk.lists[id])
       /\ list.state \in Closed
  BY <1>1, <1>6, <1>9 DEF Content, List
<1>11. p.draft # None  BY <1>2, NoneAssumption
<1>. HIDE DEF p, list
<1>. QED  BY <1>1, <1>2, <1>3, <1>4, <1>5, <1>8, <1>10, <1>11 DEF Closes, p

(* A step weakens every list on disk, publishes one or closes one. *)
ListsMove ==
    \/ WeakensAll
    \/ \E p \in Plan : Publishes(p) \/ Closes(p)

(* Every step moves the durable lists as the abstract lists move.          *)
LEMMA ListsStep == ASSUME DiskInv, [Next]_vars PROVE ListsMove
<1>1. DiskMoves  BY DiskStep DEF DiskInv
<1>2. CASE KeepsLists \/ Reevaluates  BY <1>2, WeakeningMoves DEF ListsMove
<1>3. CASE \E t \in Threads : CommitsPlan(t) \/ TransitionsPlan(t)
  <2>1. PICK t \in Threads : CommitsPlan(t) \/ TransitionsPlan(t)  BY <1>3
  <2>2. plan[t] \in Plan  BY <2>1 DEF CommitsPlan, TransitionsPlan, SavesPlan
  <2>3. Publishes(plan[t]) \/ Closes(plan[t])  BY <2>1, CommitPublishes, TransitionCloses
  <2>. QED  BY <2>2, <2>3 DEF ListsMove
<1>. QED  BY <1>1, <1>2, <1>3 DEF DiskMoves

(* Only Publishes gives a list a new generation, and every list stays well *)
(* formed.                                                                 *)
LEMMA WellFormedStep == DiskInv /\ [Next]_vars => DiskInv'
<1>. SUFFICES ASSUME DiskInv, [Next]_vars PROVE DiskInv'  OBVIOUS
<1>1. IInv'  BY NextStep DEF DiskInv
<1>2. ASSUME NEW l \in Lists PROVE WellFormed(disk'.lists[l])
  <2>1. ListsMove  BY ListsStep
  <2>2. disk.lists[l].gen \in Nat /\ WellFormed(disk.lists[l])
    BY DEF DiskInv, IInv, TypeOK, Image, List
  <2>3. CASE WeakensAll  BY <2>3 DEF WeakensAll, Weakens
  <2>4. CASE \E p \in Plan : Publishes(p)
    <3>1. PICK p \in Plan : Publishes(p)  BY <2>4
    <3>2. CASE l = p.draft.id
      <4>1. disk'.lists[l].gen = disk.lists[l].gen + 1 /\ Available(disk'.lists[l])
        BY <3>1, <3>2 DEF Publishes
      <4>2. disk'.lists[l].gen # 0  BY <2>2, <4>1
      <4>. QED  BY <4>1, <4>2 DEF WellFormed, Available
    <3>3. CASE l # p.draft.id /\ l = p.draft.sup  BY <3>1, <3>3 DEF Publishes, WellFormed
    <3>4. CASE l # p.draft.id /\ l # p.draft.sup
      <4>1. disk'.lists[l] = disk.lists[l]  BY <3>1, <3>4 DEF Publishes
      <4>. QED  BY <2>2, <4>1
    <3>. QED  BY <3>2, <3>3, <3>4
  <2>5. CASE \E p \in Plan : Closes(p)
    <3>1. PICK p \in Plan : Closes(p)  BY <2>5
    <3>2. CASE l = p.draft.id
      BY <3>1, <3>2 DEF Closes, WellFormed, Closed, TerminalForActivation
    <3>3. CASE l # p.draft.id
      <4>1. disk'.lists[l] = disk.lists[l]  BY <3>1, <3>3 DEF Closes
      <4>. QED  BY <2>2, <4>1
    <3>. QED  BY <3>2, <3>3
  <2>. QED  BY <2>1, <2>3, <2>4, <2>5 DEF ListsMove
<1>. QED  BY <1>1, <1>2 DEF DiskInv, WellFormed

(* The inductive invariant, with the well-formedness of the durable lists, *)
(* holds in every state.                                                   *)
THEOREM DiskInvariance == Spec => []DiskInv
<1>1. Init => DiskInv
  <2>1. Init => IInv  BY InitInv
  <2>2. Init => \A l \in Lists : disk.lists[l] = NoList  BY DEF Init, NoImage, InitImage
  <2>3. WellFormed(NoList)  BY DEF WellFormed, NoList
  <2>. QED  BY <2>1, <2>2, <2>3 DEF DiskInv
<1>. QED  BY <1>1, WellFormedStep, PTL DEF Spec
--------------------------------------------------------------------------------
(* The promises. *)

(* A step commits only under an attempt that is not recorded. *)
LEMMA OnceStep == DiskInv /\ [Next]_vars =>
      \A l \in Lists : Commits(l) => disk.attempts[disk'.lists[l].attempt] = None
<1>. SUFFICES ASSUME DiskInv, [Next]_vars, NEW l \in Lists, Commits(l)
              PROVE  disk.attempts[disk'.lists[l].attempt] = None
  OBVIOUS
<1>1. ListsMove  BY ListsStep
<1>2. ~ WeakensAll  BY DEF WeakensAll, Weakens, Commits
<1>3. \A p \in Plan : ~ Closes(p)  BY DEF Closes, Commits
<1>4. PICK p \in Plan : Publishes(p)  BY <1>1, <1>2, <1>3 DEF ListsMove
<1>5. l = p.draft.id  BY <1>4 DEF Publishes, Commits
<1>. QED  BY <1>4, <1>5 DEF Publishes

(* No generation is ever committed under an attempt that was recorded      *)
(* before, in this or an earlier incarnation: run_batch's lookup happens   *)
(* under another lock than its commit, and still a retry cannot slip in.   *)
THEOREM ExactlyOnce == Spec => AttemptAppliedOnce
BY OnceStep, DiskInvariance, PTL DEF Spec, AttemptAppliedOnce

(* A step leaves a closed lineage closed. *)
LEMMA ClosedStep == DiskInv /\ [Next]_vars =>
      \A l \in Lists :
        disk.lists[l].state \in Closed =>
            /\ disk'.lists[l].state \in Closed
            /\ disk'.lists[l].gen = disk.lists[l].gen
<1>. SUFFICES ASSUME DiskInv, [Next]_vars, NEW l \in Lists, disk.lists[l].state \in Closed
              PROVE  disk'.lists[l].state \in Closed /\ disk'.lists[l].gen = disk.lists[l].gen
  OBVIOUS
<1>1. ListsMove  BY ListsStep
<1>2. CASE WeakensAll  BY <1>2 DEF WeakensAll, Weakens
<1>3. CASE \E p \in Plan : Publishes(p)
  <2>1. PICK p \in Plan : Publishes(p)  BY <1>3
  <2>2. l # p.draft.id  BY <2>1 DEF Publishes
  <2>3. CASE l = p.draft.sup
    BY <2>1, <2>2, <2>3 DEF Publishes, Closed, TerminalForActivation
  <2>4. CASE l # p.draft.sup  BY <2>1, <2>2, <2>4 DEF Publishes
  <2>. QED  BY <2>3, <2>4
<1>4. CASE \E p \in Plan : Closes(p)
  <2>1. PICK p \in Plan : Closes(p)  BY <1>4
  <2>. QED  BY <2>1 DEF Closes
<1>. QED  BY <1>1, <1>2, <1>3, <1>4 DEF ListsMove

(* A closed lineage stays closed and gets no new generation, whichever     *)
(* calls race, and across restarts.                                        *)
THEOREM ClosedForGood == Spec => LineagesStayClosed
BY ClosedStep, DiskInvariance, PTL DEF Spec, LineagesStayClosed

(* A step adds one generation or keeps the content of the last. *)
LEMMA RevisionsStep == DiskInv /\ [Next]_vars =>
      \A l \in Lists :
        \/ disk'.lists[l].gen = disk.lists[l].gen + 1
        \/ /\ disk'.lists[l].gen = disk.lists[l].gen
           /\ Content(disk'.lists[l]) = Content(disk.lists[l])
<1>. SUFFICES ASSUME DiskInv, [Next]_vars, NEW l \in Lists
              PROVE  \/ disk'.lists[l].gen = disk.lists[l].gen + 1
                     \/ /\ disk'.lists[l].gen = disk.lists[l].gen
                        /\ Content(disk'.lists[l]) = Content(disk.lists[l])
  OBVIOUS
<1>1. ListsMove  BY ListsStep
<1>2. CASE WeakensAll  BY <1>2 DEF WeakensAll, Weakens
<1>3. CASE \E p \in Plan : Publishes(p)
  <2>1. PICK p \in Plan : Publishes(p)  BY <1>3
  <2>2. CASE l \in {p.draft.id, p.draft.sup}  BY <2>1, <2>2 DEF Publishes
  <2>3. CASE l \notin {p.draft.id, p.draft.sup}  BY <2>1, <2>3 DEF Publishes
  <2>. QED  BY <2>2, <2>3
<1>4. CASE \E p \in Plan : Closes(p)
  <2>1. PICK p \in Plan : Closes(p)  BY <1>4
  <2>. QED  BY <2>1 DEF Closes
<1>. QED  BY <1>1, <1>2, <1>3, <1>4 DEF ListsMove

(* No update is lost: generations advance one at a time and a saved one    *)
(* keeps its content.                                                      *)
THEOREM NoLostUpdate == Spec => RevisionsAreImmutable
BY RevisionsStep, DiskInvariance, PTL DEF Spec, RevisionsAreImmutable
--------------------------------------------------------------------------------
(* The refinement of GovernedLists.  The mapping of one list: *)

generationOf == [l \in Lists |-> disk.lists[l].gen]
statusOf == [l \in Lists |-> StatusOf(disk.lists[l])]
usedOf == {a \in Attempts : disk.attempts[a] # None}

(* Weakening some lists is the abstract Degrade of those that were         *)
(* available and are no longer.                                            *)
LEMMA WeakeningDegrades ==
    ASSUME DiskInv, WeakensAll
    PROVE  \E lost \in SUBSET Lists : GL!Degrade(lost)
<1>. DEFINE lost == {l \in Lists : Available(disk.lists[l]) /\ ~ Available(disk'.lists[l])}
<1>1. ASSUME NEW l \in Lists
      PROVE  StatusOf(disk'.lists[l]) = IF l \in lost THEN "unavailable" ELSE StatusOf(disk.lists[l])
  <2>1. Weakens(disk.lists[l], disk'.lists[l])  BY DEF WeakensAll
  <2>2. WellFormed(disk.lists[l])  BY DEF DiskInv
  <2>. QED  BY <2>1, <2>2
         DEF StatusOf, Weakens, WellFormed, Available, Closed, TerminalForActivation
<1>2. \A l \in lost : statusOf[l] = "available"
  BY DEF statusOf, StatusOf, DiskInv, WellFormed, Available
<1>3. statusOf' = [l \in Lists |-> IF l \in lost THEN "unavailable" ELSE statusOf[l]]
  BY <1>1 DEF statusOf
<1>4. generationOf' = generationOf  BY DEF generationOf, WeakensAll, Weakens
<1>5. usedOf' = usedOf  BY DEF usedOf, WeakensAll
<1>. QED  BY <1>2, <1>3, <1>4, <1>5 DEF GL!Degrade, statusOf, generationOf, usedOf

(* A commit is the abstract Publish. *)
LEMMA PublishPublishes ==
    ASSUME DiskInv, NEW p \in Plan, Publishes(p)
    PROVE  \E l \in Lists, a \in Attempts, superseded \in SUBSET Lists :
               GL!Publish(l, a, superseded)
<1>. DEFINE id  == p.draft.id
            sup == {p.draft.sup} \cap (Lists \ {id})
<1>1. id \in Lists /\ p.attempt \in Attempts /\ sup \in SUBSET Lists  BY DEF Publishes
<1>2. \A l \in Lists : disk.lists[l].gen \in Nat /\ WellFormed(disk.lists[l])
  BY DEF DiskInv, IInv, TypeOK, Image, List
<1>3. statusOf[id] # "closed" /\ p.attempt \notin usedOf /\ id \notin sup
  BY <1>1 DEF statusOf, StatusOf, usedOf, Publishes
<1>4. \A s \in sup : statusOf[s] # "absent"  BY DEF statusOf, StatusOf, Publishes
<1>5. generationOf' = [generationOf EXCEPT ![id] = @ + 1]
  <2>1. \A l \in Lists : disk'.lists[l].gen = IF l = id THEN disk.lists[l].gen + 1
                                               ELSE disk.lists[l].gen
    BY DEF Publishes
  <2>. QED  BY <1>1, <2>1 DEF generationOf
<1>6. statusOf' = [s \in Lists |-> IF s = id THEN "available"
                                  ELSE IF s \in sup THEN "closed" ELSE statusOf[s]]
  <2>1. StatusOf(disk'.lists[id]) = "available"
    <3>1. disk'.lists[id].gen = disk.lists[id].gen + 1 /\ Available(disk'.lists[id])
      BY DEF Publishes
    <3>2. disk'.lists[id].gen # 0  BY <1>1, <1>2, <3>1
    <3>. QED  BY <3>1, <3>2 DEF StatusOf
  <2>2. \A s \in sup : StatusOf(disk'.lists[s]) = "closed"
    BY DEF StatusOf, Publishes, Available, Closed, TerminalForActivation
  <2>3. \A l \in Lists : l # id /\ l \notin sup => disk'.lists[l] = disk.lists[l]
    BY DEF Publishes
  <2>. QED  BY <2>1, <2>2, <2>3 DEF statusOf, StatusOf, Available
<1>7. usedOf' = usedOf \cup {p.attempt}
  <2>1. disk.attempts \in [Attempts -> Draft \cup {None}]  BY DEF DiskInv, IInv, TypeOK, Image
  <2>2. p.draft # None /\ disk'.attempts = [disk.attempts EXCEPT ![p.attempt] = p.draft]
    BY DEF Publishes
  <2>. QED  BY <1>1, <2>1, <2>2 DEF usedOf
<1>8. GL!Publish(id, p.attempt, sup)
  BY <1>3, <1>4, <1>5, <1>6, <1>7 DEF GL!Publish, statusOf, generationOf, usedOf
<1>. QED  BY <1>1, <1>8

(* A transition is the abstract Close. *)
LEMMA CloseCloses ==
    ASSUME DiskInv, NEW p \in Plan, Closes(p)
    PROVE  \E l \in Lists, a \in Attempts : GL!Close(l, a)
<1>. DEFINE id  == p.draft.id
<1>1. id \in Lists /\ p.attempt \in Attempts  BY DEF Closes
<1>2. statusOf[id] # "absent"  BY <1>1 DEF statusOf, StatusOf, Closes
<1>3. generationOf' = generationOf
  <2>1. \A l \in Lists : disk'.lists[l].gen = disk.lists[l].gen  BY DEF Closes
  <2>. QED  BY <2>1 DEF generationOf
<1>4. statusOf' = [statusOf EXCEPT ![id] = "closed"]
  <2>1. StatusOf(disk'.lists[id]) = "closed"
    BY DEF StatusOf, Closes, Available, Closed, TerminalForActivation
  <2>2. \A l \in Lists : l # id => disk'.lists[l] = disk.lists[l]  BY DEF Closes
  <2>. QED  BY <1>1, <2>1, <2>2 DEF statusOf, StatusOf, Available
<1>5. usedOf' = usedOf \cup {p.attempt}
  <2>1. disk.attempts \in [Attempts -> Draft \cup {None}]  BY DEF DiskInv, IInv, TypeOK, Image
  <2>2. p.draft # None /\ disk'.attempts = [disk.attempts EXCEPT ![p.attempt] = p.draft]
    BY DEF Closes
  <2>. QED  BY <1>1, <2>1, <2>2 DEF usedOf
<1>6. GL!Close(id, p.attempt)
  BY <1>2, <1>3, <1>4, <1>5 DEF GL!Close, statusOf, generationOf, usedOf
<1>. QED  BY <1>1, <1>6

(* The store implements GovernedLists: for any number of lists, attempts,  *)
(* threads, dependencies and restarts, what is in the state file moves as  *)
(* the abstract specification allows.                                      *)
THEOREM Refinement == Spec => ImplementsGovernedLists
<1>1. Init => GL!GLInit
  <2>. SUFFICES ASSUME Init PROVE GL!GLInit  OBVIOUS
  <2>1. /\ \A l \in Lists : disk.lists[l] = NoList
        /\ \A a \in Attempts : disk.attempts[a] = None
    BY DEF Init, NoImage, InitImage
  <2>2. NoList.gen = 0 /\ StatusOf(NoList) = "absent"  BY DEF NoList, StatusOf
  <2>. QED  BY <2>1, <2>2 DEF GL!GLInit
<1>2. DiskInv /\ [Next]_vars => [GL!GLNext]_(GL!glVars)
  <2>. SUFFICES ASSUME DiskInv, [Next]_vars PROVE GL!GLNext  OBVIOUS
  <2>1. ListsMove  BY ListsStep
  <2>. QED  BY <2>1, WeakeningDegrades, PublishPublishes, CloseCloses DEF ListsMove, GL!GLNext
<1>. QED  BY <1>1, <1>2, DiskInvariance, PTL DEF Spec, ImplementsGovernedLists, GL!GLSpec
--------------------------------------------------------------------------------
(***************************************************************************)
(* What every durable image of the store is like, from its first save on:  *)
(* closed under what its lists refer to, with a gapless history, a bounded *)
(* replay table and the attempts of everything that was acknowledged; and  *)
(* what a commit has found out when it saves one.  The argument has three  *)
(* parts: every step saves an image, swaps one in, recovers one or leaves  *)
(* the images alone (ImageStep); each image that is saved is as good as    *)
(* the one it is made from; and the properties follow.                     *)
(***************************************************************************)

(* The boots an image names, and the boots the authority table names. *)
BootsOf(i) == i.fenced \cup {i.pubs[q].boot : q \in Publishers}
LiveBoots == fencedBoots \cup {publishers[q].boot : q \in Publishers}

(* The boot that wrote a list is in the tables of the image. *)
WritersKnown(i) ==
    \A l \in Lists : i.lists[l].gen # 0 => i.lists[l].boot \in BootsOf(i) \ {None}

(* Every registered generation a list is bound to is registered in it.     *)
BoundRegistered(i) ==
    \A l \in Lists, x \in RegistryDeps : i.lists[l].bound[x] <= i.regs[x]

Gapless(h) ==
    /\ Len(h) <= MaxHistory
    /\ \A k \in 1 .. Len(h) - 1 : h[k + 1].id = h[k].id + 1

UsedIn(i) == {a \in Attempts : i.attempts[a] # None}

TableBounded(i) ==
    IsFiniteSet(UsedIn(i)) /\ Cardinality(UsedIn(i)) <= MaxAttemptRecords

(* Generations are given only for what is referred to, or for the fabric.  *)
Tight(needs, bind) == \A x \in Deps \ (needs \cup FabricDeps) : bind[x] = 0

ImageOk(i) ==
    /\ WritersKnown(i)
    /\ BoundRegistered(i)
    /\ Gapless(i.history)
    /\ TableBounded(i)
    /\ \A l \in Lists : Tight(i.lists[l].needs, i.lists[l].bound)

(* The live tables are ahead of those in the image, never behind. *)
Behind(i) ==
    /\ \A x \in RegistryDeps : i.regs[x] <= registry.gen[x]
    /\ BootsOf(i) \subseteq LiveBoots \cup {None}

ImagesInv ==
    /\ ImageOk(disk)
    /\ ImageOk(store) /\ Behind(store)
    /\ lock # None => ImageOk(pending) /\ Behind(pending)

(* Of a prepared call: its writer is known; if the store has not moved,    *)
(* the replay table has room for its attempt; and a commit was validated   *)
(* against what it captured.                                               *)
CapturedInv ==
    \A t \in Threads : pc[t] = "prepared" =>
        /\ plan[t].boot \in LiveBoots
        /\ plan[t].storeRev = store.revision => AttemptTableAccepts(plan[t].attempt)
        /\ plan[t].event \in CommitEvents =>
               /\ Tight(plan[t].draft.needs, plan[t].draft.bind)
               /\ Resolves(plan[t].draft, plan[t].view)
               /\ plan[t].regRev <= registry.rev
               /\ plan[t].regRev = registry.rev =>
                      \A x \in RegistryDeps : plan[t].view[x] = registry.gen[x]
               /\ \A x \in EvidenceDeps : plan[t].view[x] = seen[t].gen[x]

(* Of the evidence a call has read: it is the present one if the watermark *)
(* that was read before it is.                                             *)
EvidenceInv ==
    \A t \in Threads :
        /\ pc[t] \in {"watermark", "snapshot", "prepared"} => seen[t].wm <= evidence.rev
        /\ pc[t] \in {"snapshot", "prepared"} /\ seen[t].wm = evidence.rev =>
               seen[t].gen = evidence.gen

RequestInv ==
    \A t \in Threads : request[t] # None => Tight(request[t].needs, request[t].bind)

(* A call has a plan only between preparing and swapping, and when it      *)
(* swaps its attempt has been saved.                                       *)
AckInv ==
    /\ \A t \in Threads : plan[t] # None => pc[t] \in {"prepared", "saved"}
    /\ \A t \in Threads : pc[t] = "saved" /\ plan[t] # None => disk.attempts[plan[t].attempt] # None
    /\ AckedIsDurable

EpochInv ==
    ~ EpochAdvances =>
        /\ served <= disk.epoch
        /\ phase # "down" => served <= store.epoch /\ served <= epoch
        /\ lock # None => served <= pending.epoch
        /\ phase = "serving" => served = epoch

(* What is available was validated by this incarnation. *)
AvailableInv ==
    /\ \A l \in Lists : Available(store.lists[l]) =>
           phase = "serving" /\ (~ EpochAdvances => store.lists[l].epoch = epoch)
    /\ lock # None => \A l \in Lists : Available(pending.lists[l]) =>
           (~ EpochAdvances => pending.lists[l].epoch = epoch)

--------------------------------------------------------------------------------
(* What a step does to one thread: nothing, its call returns, its call has *)
(* saved an image, it reads something without preparing, or it prepares.   *)
Keeps(u) ==
    pc'[u] = pc[u] /\ seen'[u] = seen[u] /\ request'[u] = request[u] /\ plan'[u] = plan[u]

Returns(u) == pc'[u] = "idle" /\ request'[u] = None /\ plan'[u] = None

Saves(u) ==
    /\ pc[u] # "saved" /\ pc'[u] = "saved" /\ request'[u] = None /\ plan'[u] = plan[u]
    /\ pc[u] = "prepared" => CommitsPlan(u) \/ TransitionsPlan(u)

Reads(u) ==
    /\ pc[u] \in {"idle", "revalidate", "watermark", "refreshing"}
    /\ plan'[u] = plan[u] /\ evidence' = evidence
    /\ \/ /\ pc'[u] = "watermark" /\ seen'[u].wm = evidence.rev
          /\ request'[u] = request[u]
       \/ /\ pc[u] = "watermark" /\ pc'[u] = "snapshot"
          /\ seen'[u].wm = seen[u].wm /\ seen'[u].gen = evidence.gen
          /\ request'[u] = request[u]
       \/ pc'[u] \in {"refreshing", "refresh", "registered"} /\ request'[u] = request[u]
       \/ /\ pc'[u] = "revalidate"
          /\ \E id \in Lists :
                /\ request'[u].needs = store.lists[id].needs
                /\ request'[u].bind = [x \in Deps |-> IF x \in PinnedDeps
                                                     THEN store.lists[id].bound[x] ELSE 0]

Prepares(u) ==
    /\ pc[u] = "snapshot" /\ pc'[u] = "prepared"
    /\ seen'[u] = seen[u] /\ request'[u] = None
    /\ UNCHANGED <<store, evidence, registry, publishers, fencedBoots>>
    /\ \E event \in CommitEvents \cup TransitionEvents, d \in Draft, a \in Attempts,
          p \in Publishers, b \in Boots :
          /\ plan'[u] = MakePlan(u, event, d, a, b)
          /\ AttemptTableAccepts(a) /\ publishers[p].boot = b
          /\ event \in TransitionEvents => d.needs = {}
          /\ event \in CommitEvents =>
                 /\ Resolves(d, CapturedView(u))
                 /\ Tight(d.needs, d.bind) \/ (request[u] # None /\ d = request[u])

ThreadMoves(u) == Keeps(u) \/ Returns(u) \/ Saves(u) \/ Reads(u) \/ Prepares(u)

(* A call that returns leaves the other threads alone. *)
LEMMA ReturnMoves ==
    ASSUME IInv, NEW t \in Threads, Return(t), NEW u \in Threads
    PROVE  Returns(u) \/ Keeps(u)
<1>1. /\ pc \in [Threads -> PCs] /\ seen \in [Threads -> Observation]
      /\ request \in [Threads -> Draft \cup {None}] /\ plan \in [Threads -> Plan \cup {None}]
  BY DEF IInv, TypeOK
<1>. QED  BY <1>1 DEF Return, Returns, Keeps

(* A save touches only the thread that makes it. *)
LEMMA SaveThreadMoves ==
    ASSUME IInv, NEW t \in Threads, NEW image, NEW after, Save(t, image, after),
           pc[t] # "saved",
           disk' = image /\ pc[t] = "prepared" => CommitsPlan(t) \/ TransitionsPlan(t),
           NEW u \in Threads
    PROVE  ThreadMoves(u)
<1>1. /\ pc \in [Threads -> PCs] /\ seen \in [Threads -> Observation]
      /\ request \in [Threads -> Draft \cup {None}] /\ plan \in [Threads -> Plan \cup {None}]
  BY DEF IInv, TypeOK
<1>2. CASE Return(t)  BY <1>2, ReturnMoves DEF ThreadMoves
<1>3. CASE ~ Return(t)
  BY <1>1, <1>3 DEF Save, ThreadMoves, Saves, Keeps
<1>. QED  BY <1>2, <1>3

(* Preparing a call touches only its thread. *)
LEMMA PrepareMoves ==
    ASSUME IInv, NEW t \in Threads, NEW event \in CommitEvents \cup TransitionEvents,
           NEW d \in Draft, NEW a \in Attempts, NEW p \in Publishers, NEW b \in Boots,
           At(t, "snapshot"), Prepare(t, MakePlan(t, event, d, a, b)),
           AttemptTableAccepts(a), publishers[p].boot = b,
           event \in TransitionEvents => d.needs = {},
           event \in CommitEvents =>
               /\ Resolves(d, CapturedView(t))
               /\ Tight(d.needs, d.bind) \/ (request[t] # None /\ d = request[t]),
           NEW u \in Threads
    PROVE  ThreadMoves(u)
<1>1. /\ pc \in [Threads -> PCs] /\ seen \in [Threads -> Observation]
      /\ request \in [Threads -> Draft \cup {None}] /\ plan \in [Threads -> Plan \cup {None}]
  BY DEF IInv, TypeOK
<1>2. CASE u = t
  <2>. DEFINE q == MakePlan(t, event, d, a, b)
  <2>. HIDE DEF q
  <2>1. Prepare(t, q)  BY DEF q
  <2>2. plan'[u] = q /\ pc'[u] = "prepared" /\ request'[u] = None /\ seen' = seen
    BY <1>1, <1>2, <2>1 DEF Prepare
  <2>3. Prepares(u)
    BY <1>2, <2>1, <2>2 DEF Prepares, Prepare, At, q, upstream, authority
  <2>. QED  BY <2>3 DEF ThreadMoves
<1>3. CASE u # t
  <2>. DEFINE q == MakePlan(t, event, d, a, b)
  <2>. HIDE DEF q
  <2>1. Prepare(t, q)  BY DEF q
  <2>. QED  BY <1>1, <1>3, <2>1 DEF Prepare, ThreadMoves, Keeps
<1>. QED  BY <1>2, <1>3

(* What a step of a call does to the threads. *)
LEMMA CallThreads ==
    ASSUME IInv, NEW t \in Threads, Call(t), NEW u \in Threads
    PROVE  ThreadMoves(u)
<1>0. /\ pc \in [Threads -> PCs] /\ seen \in [Threads -> Observation]
      /\ request \in [Threads -> Draft \cup {None}] /\ plan \in [Threads -> Plan \cup {None}]
  BY DEF IInv, TypeOK
<1>1. CASE ReadWatermark(t)
  <2>1. CASE u = t
    <3>1. /\ pc'[u] = "watermark" /\ seen'[u].wm = evidence.rev
          /\ request'[u] = request[u] /\ plan'[u] = plan[u] /\ evidence' = evidence
          /\ pc[u] \in {"idle", "revalidate"}
      BY <1>0, <1>1, <2>1 DEF ReadWatermark, At, upstream, Observation
    <3>. QED  BY <3>1 DEF ThreadMoves, Reads
  <2>2. CASE u # t  BY <1>0, <1>1, <2>2 DEF ReadWatermark, ThreadMoves, Keeps
  <2>. QED  BY <2>1, <2>2
<1>2. CASE ReadSnapshot(t)
  <2>1. CASE u = t
    <3>1. /\ pc[u] = "watermark" /\ pc'[u] = "snapshot"
          /\ seen'[u].wm = seen[u].wm /\ seen'[u].gen = evidence.gen
          /\ request'[u] = request[u] /\ plan'[u] = plan[u] /\ evidence' = evidence
      BY <1>0, <1>2, <2>1 DEF ReadSnapshot, At, upstream, Observation
    <3>. QED  BY <3>1 DEF ThreadMoves, Reads
  <2>2. CASE u # t  BY <1>0, <1>2, <2>2 DEF ReadSnapshot, ThreadMoves, Keeps
  <2>. QED  BY <2>1, <2>2
<1>3. CASE (\E a \in Attempts : Replay(t, a)) \/ Refuse(t) \/ RefuseCommit(t) \/ Swap(t)
  <2>1. Return(t)  BY <1>3 DEF Replay, Refuse, RefuseCommit, Swap
  <2>. QED  BY <2>1, ReturnMoves DEF ThreadMoves
<1>4. CASE Mutate(t)
  <2>1. PICK a \in Attempts, p \in Publishers, b \in Boots, id \in Lists, body \in Bodies,
             sup \in Lists \cup {None} :
             PrepareCommit(t, IntentFor(id), SubmittedDraft(id, body, sup), a, p, b)
    BY <1>4 DEF Mutate
  <2>. DEFINE d == SubmittedDraft(id, body, sup)
  <2>2. d \in Draft
    <3>1. body \in Body  BY ConstantsAssumption
    <3>2. \A l \in Lists : store.lists[l].gen \in Nat  BY DEF IInv, TypeOK, Image, List
    <3>. QED  BY <3>1, <3>2 DEF SubmittedDraft, Draft, Body
  <2>3. Tight(d.needs, d.bind)  BY BodiesAssumption DEF SubmittedDraft, Tight
  <2>4. IntentFor(id) \in CommitEvents \ TransitionEvents
    BY EventTypes DEF IntentFor, CommitEvents
  <2>. HIDE DEF d
  <2>5. /\ At(t, "snapshot") /\ AttemptTableAccepts(a) /\ publishers[p].boot = b
        /\ Resolves(d, CapturedView(t)) /\ Prepare(t, MakePlan(t, IntentFor(id), d, a, b))
    BY <2>1 DEF PrepareCommit, CallerOk, d
  <2>. QED  BY <2>2, <2>3, <2>4, <2>5, PrepareMoves
<1>5. CASE Revalidate(t)
  <2>1. PICK a \in Attempts, p \in Publishers, b \in Boots :
             PrepareCommit(t, "RevalidateBegin", request[t], a, p, b)
    BY <1>5 DEF Revalidate
  <2>2. request[t] \in Draft /\ request[t] # None  BY <1>5 DEF Revalidate, IInv, TypeOK
  <2>3. "RevalidateBegin" \in CommitEvents \ TransitionEvents  BY EventTypes DEF CommitEvents
  <2>4. /\ At(t, "snapshot") /\ AttemptTableAccepts(a) /\ publishers[p].boot = b
        /\ Resolves(request[t], CapturedView(t))
        /\ Prepare(t, MakePlan(t, "RevalidateBegin", request[t], a, b))
    BY <2>1 DEF PrepareCommit, CallerOk
  <2>. QED  BY <2>2, <2>3, <2>4, PrepareMoves
<1>6. CASE Transition(t)
  <2>1. PICK a \in Attempts, p \in Publishers, b \in Boots, id \in Lists,
             event \in TransitionEvents : PrepareTransition(t, event, id, a, p, b)
    BY <1>6 DEF Transition
  <2>. DEFINE d == [id |-> id, needs |-> {}, bind |-> [x \in Deps |-> 0], segs |-> 0,
                    expected |-> store.lists[id].gen, sup |-> None, supGen |-> 0]
  <2>2. d \in Draft
    <3>1. store.lists[id].gen \in Nat  BY DEF IInv, TypeOK, Image, List
    <3>. QED  BY <3>1 DEF Draft, View
  <2>3. event \notin CommitEvents /\ d.needs = {}  BY EventTypes
  <2>4. /\ At(t, "snapshot") /\ AttemptTableAccepts(a) /\ publishers[p].boot = b
        /\ Prepare(t, MakePlan(t, event, d, a, b))
    BY <2>1 DEF PrepareTransition, CallerOk
  <2>. HIDE DEF d
  <2>. QED  BY <2>2, <2>3, <2>4, PrepareMoves
<1>7. CASE Commit(t)
  <2>1. /\ Save(t, CommitImage(plan[t]), CommitImage(plan[t])) /\ pc[t] = "prepared"
        /\ phase = "serving" /\ plan[t].event \in CommitEvents /\ Verified(t)
    BY <1>7 DEF Commit, At
  <2>2. lock = None  BY <2>1, SaveMoves
  <2>3. plan[t] \in Plan /\ StillHolds(plan[t])  BY <2>1 DEF Verified, IInv, PlanInv
  <2>4. disk' = CommitImage(plan[t]) => CommitsPlan(t)
    BY <2>1, <2>2, <2>3 DEF CommitsPlan, SavesPlan, IInv, DurableInv
  <2>. QED  BY <2>1, <2>4, SaveThreadMoves
<1>8. CASE CommitTransition(t)
  <2>1. /\ Save(t, TransitionImage(plan[t]), TransitionImage(plan[t])) /\ pc[t] = "prepared"
        /\ phase = "serving" /\ plan[t].event \in TransitionEvents /\ Verified(t)
    BY <1>8 DEF CommitTransition, At
  <2>2. lock = None  BY <2>1, SaveMoves
  <2>3. plan[t] \in Plan /\ StillHolds(plan[t])  BY <2>1 DEF Verified, IInv, PlanInv
  <2>4. disk' = TransitionImage(plan[t]) => TransitionsPlan(t)
    BY <2>1, <2>2, <2>3 DEF TransitionsPlan, SavesPlan, IInv, DurableInv
  <2>. QED  BY <2>1, <2>4, SaveThreadMoves
<1>9. CASE \E id \in Lists, e \in 0 .. MaxGeneration : RevalidateRead(t, id, e)
  <2>1. PICK id \in Lists, e \in 0 .. MaxGeneration : RevalidateRead(t, id, e)  BY <1>9
  <2>2. CASE u = t
    <3>1. /\ pc[u] = "idle" /\ pc'[u] = "revalidate" /\ plan'[u] = plan[u]
          /\ evidence' = evidence
          /\ request'[u].needs = store.lists[id].needs
          /\ request'[u].bind = [x \in Deps |-> IF x \in PinnedDeps
                                                THEN store.lists[id].bound[x] ELSE 0]
      BY <1>0, <2>1, <2>2 DEF RevalidateRead, At, upstream
    <3>. QED  BY <3>1 DEF ThreadMoves, Reads
  <2>3. CASE u # t  BY <1>0, <2>1, <2>3 DEF RevalidateRead, ThreadMoves, Keeps
  <2>. QED  BY <2>2, <2>3
<1>10. CASE RefreshReadEvidence(t) \/ RefreshReadEpoch(t) \/ \E x \in RegistryDeps : Register(t, x)
  <2>1. CASE u = t
    <3>1. /\ pc[u] \in {"idle", "refreshing"}
          /\ pc'[u] \in {"refreshing", "refresh", "registered"}
          /\ request'[u] = request[u] /\ plan'[u] = plan[u] /\ evidence' = evidence
      BY <1>0, <1>10, <2>1 DEF RefreshReadEvidence, RefreshReadEpoch, Register, At, upstream
    <3>. QED  BY <3>1 DEF ThreadMoves, Reads
  <2>2. CASE u # t
    BY <1>0, <1>10, <2>2 DEF RefreshReadEvidence, RefreshReadEpoch, Register, ThreadMoves, Keeps
  <2>. QED  BY <2>1, <2>2
<1>11. CASE RefreshApply(t)
  <2>1. pc[t] = "refresh"  BY <1>11 DEF RefreshApply, At
  <2>2. Return(t) \/ \E image : Save(t, image, image)  BY <1>11 DEF RefreshApply
  <2>. QED  BY <2>1, <2>2, ReturnMoves, SaveThreadMoves DEF ThreadMoves
<1>12. CASE RegisterSave(t) \/ PersistNow(t)
  <2>1. pc[t] \in {"registered", "idle"}  BY <1>12 DEF RegisterSave, PersistNow, At
  <2>2. \E image, after : Save(t, image, after)  BY <1>12 DEF RegisterSave, PersistNow
  <2>. QED  BY <2>1, <2>2, SaveThreadMoves
<1>. QED
  BY <1>1, <1>2, <1>3, <1>4, <1>5, <1>6, <1>7, <1>8, <1>9, <1>10, <1>11, <1>12 DEF Call

(* What a step does to the threads. *)
LEMMA ThreadStep ==
    ASSUME IInv, [Next]_vars, NEW u \in Threads
    PROVE  ThreadMoves(u)
<1>1. CASE \E t \in Threads : Call(t)  BY <1>1, CallThreads
<1>2. CASE Environment \/ UNCHANGED vars
  <2>1. UNCHANGED threads
    BY <1>2 DEF Environment, AdvanceRegistry, ChangeEvidence, AdvanceEpoch, RegisterPublisher,
                MarkDead, FenceBoot, vars
  <2>. QED  BY <2>1 DEF threads, ThreadMoves, Keeps
<1>3. CASE Process
  <2>1. CASE Crash  BY <2>1 DEF Crash, ThreadMoves, Returns
  <2>2. CASE ~ Crash
    <3>1. UNCHANGED threads
      BY <1>3, <2>2 DEF Process, LoadNothing, Load, DeclareBuiltin, Serve
    <3>. QED  BY <3>1 DEF threads, ThreadMoves, Keeps
  <2>. QED  BY <2>1, <2>2
<1>. QED  BY <1>1, <1>2, <1>3 DEF Next
--------------------------------------------------------------------------------
(* Attempts. *)

(* No step forgets an attempt that is recorded in the state file. *)
LEMMA AttemptsStay ==
    ASSUME DiskInv, [Next]_vars, NEW a \in Attempts, disk.attempts[a] # None
    PROVE  disk'.attempts[a] # None
<1>0. disk.attempts \in [Attempts -> Draft \cup {None}]  BY DEF DiskInv, IInv, TypeOK, Image
<1>1. ListsMove  BY ListsStep
<1>2. CASE WeakensAll  BY <1>2 DEF WeakensAll
<1>3. CASE \E p \in Plan : Publishes(p) \/ Closes(p)
  <2>1. PICK p \in Plan : Publishes(p) \/ Closes(p)  BY <1>3
  <2>2. p.draft # None /\ disk'.attempts = [disk.attempts EXCEPT ![p.attempt] = p.draft]
    BY <2>1 DEF Publishes, Closes
  <2>. QED  BY <1>0, <2>2
<1>. QED  BY <1>1, <1>2, <1>3 DEF ListsMove

(* A prepared call that saves records its attempt. *)
LEMMA SavedIsRecorded ==
    ASSUME DiskInv, NEW t \in Threads, CommitsPlan(t) \/ TransitionsPlan(t)
    PROVE  disk'.attempts[plan[t].attempt] # None
<1>0. disk.attempts \in [Attempts -> Draft \cup {None}]  BY DEF DiskInv, IInv, TypeOK, Image
<1>1. Publishes(plan[t]) \/ Closes(plan[t])  BY CommitPublishes, TransitionCloses
<1>2. /\ plan[t].draft # None /\ plan[t].attempt \in Attempts
      /\ disk'.attempts = [disk.attempts EXCEPT ![plan[t].attempt] = plan[t].draft]
  BY <1>1 DEF Publishes, Closes
<1>. QED  BY <1>0, <1>2

(* What a step acknowledges: the attempt of the call that swaps, or one    *)
(* that is found recorded while no other call is between saving and        *)
(* swapping.                                                               *)
LEMMA AcksMove ==
    ASSUME IInv, [Next]_vars, NEW a \in acked', a \notin acked
    PROVE  \/ \E t \in Threads : pc[t] = "saved" /\ plan[t] # None /\ a = plan[t].attempt
           \/ a \in Attempts /\ disk.attempts[a] # None
<1>1. CASE \E t \in Threads : Swap(t)
  <2>1. PICK t \in Threads : Swap(t)  BY <1>1
  <2>. QED  BY <2>1 DEF Swap, At
<1>2. CASE \E t \in Threads, b \in Attempts : Replay(t, b)
  <2>1. PICK t \in Threads, b \in Attempts : Replay(t, b)  BY <1>2
  <2>2. a = b /\ store.attempts[b] # None /\ phase = "serving" /\ lock = None
    BY <2>1 DEF Replay, At
  <2>. QED  BY <2>2 DEF IInv, DurableInv
<1>3. CASE UNCHANGED acked  BY <1>3
<1>4. CASE \E t \in Threads : Call(t)
  <2>1. PICK t \in Threads : Call(t)  BY <1>4
  <2>2. CASE Mutate(t) \/ Revalidate(t) \/ Transition(t)
    <3>1. ASSUME NEW q, Prepare(t, q) PROVE UNCHANGED acked  BY <3>1 DEF Prepare, ghosts
    <3>2. \E q : Prepare(t, q)
      BY <2>2, ZenonT(40) DEF Mutate, Revalidate, Transition, PrepareCommit, PrepareTransition
    <3>. QED  BY <1>3, <3>1, <3>2
  <2>3. CASE \/ ReadWatermark(t) \/ ReadSnapshot(t) \/ Refuse(t) \/ RefuseCommit(t)
             \/ RefreshReadEvidence(t) \/ RefreshReadEpoch(t)
             \/ \E x \in RegistryDeps : Register(t, x)
             \/ \E id \in Lists, e \in 0 .. MaxGeneration : RevalidateRead(t, id, e)
    BY <1>3, <2>3 DEF ReadWatermark, ReadSnapshot, Refuse, RefuseCommit, RefreshReadEvidence,
                      RefreshReadEpoch, Register, RevalidateRead, ghosts
  <2>4. CASE Commit(t) \/ CommitTransition(t) \/ RefreshApply(t) \/ RegisterSave(t) \/ PersistNow(t)
    BY <1>3, <2>4 DEF Commit, CommitTransition, RefreshApply, RegisterSave, PersistNow, ghosts
  <2>. QED  BY <1>1, <1>2, <2>1, <2>2, <2>3, <2>4 DEF Call
<1>5. CASE Environment
  BY <1>3, <1>5 DEF Environment, AdvanceRegistry, ChangeEvidence, AdvanceEpoch, RegisterPublisher,
                    MarkDead, FenceBoot, ghosts
<1>6. CASE Process
  BY <1>3, <1>6 DEF Process, Crash, LoadNothing, Load, DeclareBuiltin, Serve, ghosts
<1>7. CASE UNCHANGED vars  BY <1>3, <1>7 DEF vars, ghosts
<1>. QED  BY <1>4, <1>5, <1>6, <1>7 DEF Next

(* The invariant about attempts is inductive. *)
LEMMA AckStep == DiskInv /\ AckInv /\ [Next]_vars => AckInv'
<1>. SUFFICES ASSUME DiskInv, AckInv, [Next]_vars PROVE AckInv'  OBVIOUS
<1>0. IInv  BY DEF DiskInv
<1>1. ASSUME NEW t \in Threads, plan'[t] # None
      PROVE  pc'[t] \in {"prepared", "saved"}
  <2>1. ThreadMoves(t)  BY <1>0, ThreadStep
  <2>. QED  BY <1>1, <2>1 DEF ThreadMoves, Keeps, Returns, Saves, Reads, Prepares, AckInv
<1>2. ASSUME NEW t \in Threads, pc'[t] = "saved", plan'[t] # None
      PROVE  disk'.attempts[plan'[t].attempt] # None
  <2>1. ThreadMoves(t)  BY <1>0, ThreadStep
  <2>2. CASE Keeps(t)
    <3>1. /\ pc[t] = "saved" /\ plan[t] # None /\ plan'[t] = plan[t]
          /\ disk.attempts[plan[t].attempt] # None
      BY <1>2, <2>2 DEF Keeps, AckInv
    <3>2. plan[t].attempt \in Attempts
      BY <1>0, <3>1 DEF IInv, TypeOK, Plan
    <3>. QED  BY <3>1, <3>2, AttemptsStay
  <2>3. CASE Saves(t)
    <3>1. pc[t] = "prepared" /\ plan'[t] = plan[t]  BY <1>2, <2>3 DEF Saves, AckInv
    <3>. QED  BY <2>3, <3>1, SavedIsRecorded DEF Saves
  <2>. QED  BY <1>2, <2>1, <2>2, <2>3 DEF ThreadMoves, Returns, Reads, Prepares
<1>3. ASSUME NEW a \in acked' PROVE disk'.attempts[a] # None
  <2>1. a \in Attempts /\ disk.attempts[a] # None
    <3>1. CASE a \in acked
      BY <1>0, <3>1 DEF AckInv, AckedIsDurable, IInv, TypeOK
    <3>2. CASE a \notin acked
      <4>1. CASE \E t \in Threads : pc[t] = "saved" /\ plan[t] # None /\ a = plan[t].attempt
        BY <1>0, <4>1 DEF AckInv, IInv, TypeOK, Plan
      <4>. QED  BY <1>0, <3>2, <4>1, AcksMove
    <3>. QED  BY <3>1, <3>2
  <2>. QED  BY <2>1, AttemptsStay
<1>. QED  BY <1>1, <1>2, <1>3 DEF AckInv, AckedIsDurable

(* An acknowledged mutation is never forgotten: whatever is retried, raced *)
(* or crashed between saving and swapping, its attempt is in the state     *)
(* file, so that a retry replays it and does not apply it again.           *)
THEOREM AcknowledgedStays == Spec => []AckedIsDurable
<1>1. Init => AckInv  BY DEF Init, AckInv, AckedIsDurable
<1>2. AckInv => AckedIsDurable  BY DEF AckInv
<1>. QED  BY <1>1, <1>2, AckStep, DiskInvariance, PTL DEF Spec
--------------------------------------------------------------------------------
(* The live tables and the evidence only move forward while a coordinator  *)
(* runs; a revision or watermark that has not moved says so.               *)
TablesGrow ==
    /\ \A x \in RegistryDeps : registry.gen[x] <= registry'.gen[x]
    /\ registry.rev <= registry'.rev
    /\ registry'.rev = registry.rev => registry' = registry
    /\ LiveBoots \subseteq LiveBoots' \cup {None}
    /\ fencedBoots \subseteq fencedBoots'

EvidenceGrows ==
    /\ evidence.rev <= evidence'.rev
    /\ evidence'.rev = evidence.rev => evidence' = evidence

(* A registration, or the advance of a generation, moves one generation of *)
(* the registry and its revision.                                          *)
LEMMA RegistryGrows ==
    ASSUME TypeOK, NEW x \in RegistryDeps, NEW g \in Nat, registry.gen[x] <= g,
           registry' = [rev |-> registry.rev + 1, gen |-> [registry.gen EXCEPT ![x] = g]],
           UNCHANGED <<publishers, fencedBoots>>
    PROVE  TablesGrow
<1>1. registry.rev \in Nat /\ registry.gen \in [RegistryDeps -> Nat]  BY DEF TypeOK
<1>2. /\ registry'.rev = registry.rev + 1
      /\ \A y \in RegistryDeps : registry'.gen[y] = IF y = x THEN g ELSE registry.gen[y]
  BY <1>1
<1>3. LiveBoots' = LiveBoots  BY DEF LiveBoots
<1>. QED  BY <1>1, <1>2, <1>3 DEF TablesGrow

(* A publisher keeps the boot it is registered under, and a fenced boot    *)
(* stays fenced, as long as the process lives.                             *)
LEMMA AuthorityGrows ==
    ASSUME TypeOK, registry' = registry, fencedBoots \subseteq fencedBoots',
           \A p \in Publishers :
               publishers[p].boot = None \/ publishers'[p].boot = publishers[p].boot
    PROVE  TablesGrow
<1>1. registry.rev \in Nat /\ registry.gen \in [RegistryDeps -> Nat]  BY DEF TypeOK
<1>2. ASSUME NEW b \in LiveBoots, b # None PROVE b \in LiveBoots'
  <2>1. CASE b \in fencedBoots  BY <2>1 DEF LiveBoots
  <2>2. CASE b \notin fencedBoots
    <3>1. PICK p \in Publishers : b = publishers[p].boot  BY <1>2, <2>2 DEF LiveBoots
    <3>2. b = publishers'[p].boot  BY <1>2, <3>1
    <3>. QED  BY <3>2 DEF LiveBoots
  <2>. QED  BY <2>1, <2>2
<1>. QED  BY <1>1, <1>2 DEF TablesGrow

(* Nothing but the end of the process empties the tables. *)
LEMMA TablesStep ==
    ASSUME IInv, [Next]_vars, ~ Crash, ~ Load
    PROVE  TablesGrow
<1>0. TypeOK /\ publishers \in [Publishers -> Publisher] /\ registry.gen \in [RegistryDeps -> Nat]
  BY DEF IInv, TypeOK
<1>1. CASE UNCHANGED <<registry, publishers, fencedBoots>>  BY <1>0, <1>1, AuthorityGrows
<1>2. ASSUME NEW x \in RegistryDeps, NEW g \in Nat, registry.gen[x] <= g,
             registry' = [rev |-> registry.rev + 1, gen |-> [registry.gen EXCEPT ![x] = g]],
             UNCHANGED <<publishers, fencedBoots>>
      PROVE  TablesGrow
  BY <1>0, <1>2, RegistryGrows
<1>3. CASE \E t \in Threads : Call(t)
  <2>1. PICK t \in Threads : Call(t)  BY <1>3
  <2>2. CASE \E x \in RegistryDeps : Register(t, x)
    <3>1. PICK x \in RegistryDeps : Register(t, x)  BY <2>2
    <3>2. registry.gen[x] \in Nat  BY <1>0
    <3>3. registry.gen[x] + 1 \in Nat /\ registry.gen[x] <= registry.gen[x] + 1  BY <3>2
    <3>. QED  BY <1>2, <3>1, <3>3 DEF Register, authority
  <2>3. CASE Mutate(t) \/ Revalidate(t) \/ Transition(t)
    <3>1. ASSUME NEW q, Prepare(t, q) PROVE UNCHANGED <<upstream, authority>>
      BY <3>1 DEF Prepare
    <3>2. \E q : Prepare(t, q)
      BY <2>3, ZenonT(40) DEF Mutate, Revalidate, Transition, PrepareCommit, PrepareTransition
    <3>. QED  BY <1>1, <3>1, <3>2 DEF upstream, authority
  <2>4. CASE \/ ReadWatermark(t) \/ ReadSnapshot(t) \/ Refuse(t) \/ RefuseCommit(t)
             \/ RefreshReadEvidence(t) \/ RefreshReadEpoch(t) \/ Swap(t)
             \/ \E a \in Attempts : Replay(t, a)
             \/ \E id \in Lists, e \in 0 .. MaxGeneration : RevalidateRead(t, id, e)
    BY <1>1, <2>4 DEF ReadWatermark, ReadSnapshot, Refuse, RefuseCommit, RefreshReadEvidence,
                      RefreshReadEpoch, Replay, Swap, RevalidateRead, upstream, authority
  <2>5. CASE Commit(t) \/ CommitTransition(t) \/ RefreshApply(t) \/ RegisterSave(t) \/ PersistNow(t)
    BY <1>1, <2>5 DEF Commit, CommitTransition, RefreshApply, RegisterSave, PersistNow,
                      upstream, authority
  <2>. QED  BY <2>1, <2>2, <2>3, <2>4, <2>5 DEF Call
<1>4. CASE Environment
  <2>1. CASE \E x \in RegistryDeps : AdvanceRegistry(x)
    <3>1. PICK x \in RegistryDeps : AdvanceRegistry(x)  BY <2>1
    <3>2. registry.gen[x] \in Nat  BY <1>0
    <3>3. registry.gen[x] + 1 \in Nat /\ registry.gen[x] <= registry.gen[x] + 1  BY <3>2
    <3>. QED  BY <1>2, <3>1, <3>3 DEF AdvanceRegistry, authority
  <2>2. CASE \/ AdvanceEpoch
             \/ \E x \in EvidenceDeps, g \in 0 .. MaxDepGeneration : ChangeEvidence(x, g)
    BY <1>1, <2>2 DEF AdvanceEpoch, ChangeEvidence, upstream, authority
  <2>3. CASE \E p \in Publishers, b \in Boots : RegisterPublisher(p, b)
    <3>1. PICK p \in Publishers, b \in Boots : RegisterPublisher(p, b)  BY <2>3
    <3>2. ASSUME NEW q \in Publishers
          PROVE  publishers[q].boot = None \/ publishers'[q].boot = publishers[q].boot
      BY <1>0, <3>1 DEF RegisterPublisher
    <3>. QED  BY <1>0, <3>1, <3>2, AuthorityGrows DEF RegisterPublisher, upstream
  <2>4. CASE \E p \in Publishers : MarkDead(p)
    <3>1. PICK p \in Publishers : MarkDead(p)  BY <2>4
    <3>2. ASSUME NEW q \in Publishers PROVE publishers'[q].boot = publishers[q].boot
      BY <1>0, <3>1 DEF MarkDead, Publisher
    <3>. QED  BY <1>0, <3>1, <3>2, AuthorityGrows DEF MarkDead, upstream
  <2>5. CASE \E b \in Boots : FenceBoot(b)
    <3>1. PICK b \in Boots : FenceBoot(b)  BY <2>5
    <3>2. ASSUME NEW q \in Publishers PROVE publishers'[q].boot = publishers[q].boot
      BY <1>0, <3>1 DEF FenceBoot, Publisher
    <3>. QED  BY <1>0, <3>1, <3>2, AuthorityGrows DEF FenceBoot, upstream
  <2>. QED  BY <1>4, <2>1, <2>2, <2>3, <2>4, <2>5 DEF Environment
<1>5. CASE Process
  <2>1. CASE \E x \in Builtins : DeclareBuiltin(x)
    <3>1. PICK x \in RegistryDeps : DeclareBuiltin(x)  BY <2>1, ConstantsAssumption
    <3>. QED  BY <1>2, <3>1, SMTT(30) DEF DeclareBuiltin, authority
  <2>. QED  BY <1>1, <1>5, <2>1 DEF Process, LoadNothing, Serve, upstream, authority
<1>6. CASE UNCHANGED vars  BY <1>1, <1>6 DEF vars, upstream, authority
<1>. QED  BY <1>3, <1>4, <1>5, <1>6 DEF Next

(* The fabric survives the process, and its watermark never goes back. *)
LEMMA EvidenceStep ==
    ASSUME IInv, [Next]_vars
    PROVE  EvidenceGrows
<1>0. evidence.rev \in Nat  BY DEF IInv, TypeOK
<1>1. CASE \E x \in EvidenceDeps, g \in 0 .. MaxDepGeneration : ChangeEvidence(x, g)
  <2>1. evidence'.rev = evidence.rev + 1  BY <1>1 DEF ChangeEvidence
  <2>. QED  BY <1>0, <2>1 DEF EvidenceGrows
<1>2. CASE UNCHANGED evidence  BY <1>0, <1>2 DEF EvidenceGrows
<1>3. CASE \E t \in Threads : Call(t)
  <2>1. PICK t \in Threads : Call(t)  BY <1>3
  <2>2. CASE Mutate(t) \/ Revalidate(t) \/ Transition(t)
    <3>1. ASSUME NEW q, Prepare(t, q) PROVE UNCHANGED evidence  BY <3>1 DEF Prepare, upstream
    <3>2. \E q : Prepare(t, q)
      BY <2>2, ZenonT(40) DEF Mutate, Revalidate, Transition, PrepareCommit, PrepareTransition
    <3>. QED  BY <1>2, <3>1, <3>2
  <2>3. CASE \/ ReadWatermark(t) \/ ReadSnapshot(t) \/ Refuse(t) \/ RefuseCommit(t)
             \/ RefreshReadEvidence(t) \/ RefreshReadEpoch(t) \/ Swap(t)
             \/ \E a \in Attempts : Replay(t, a)
             \/ \E id \in Lists, e \in 0 .. MaxGeneration : RevalidateRead(t, id, e)
             \/ \E x \in RegistryDeps : Register(t, x)
    BY <1>2, <2>3 DEF ReadWatermark, ReadSnapshot, Refuse, RefuseCommit, RefreshReadEvidence,
                      RefreshReadEpoch, Replay, Swap, RevalidateRead, Register, upstream
  <2>4. CASE Commit(t) \/ CommitTransition(t) \/ RefreshApply(t) \/ RegisterSave(t) \/ PersistNow(t)
    BY <1>2, <2>4 DEF Commit, CommitTransition, RefreshApply, RegisterSave, PersistNow, upstream
  <2>. QED  BY <2>1, <2>2, <2>3, <2>4 DEF Call
<1>4. CASE Environment
  BY <1>1, <1>2, <1>4 DEF Environment, AdvanceRegistry, AdvanceEpoch, RegisterPublisher,
                          MarkDead, FenceBoot, upstream
<1>5. CASE Process
  BY <1>2, <1>5 DEF Process, Crash, LoadNothing, Load, DeclareBuiltin, Serve, upstream
<1>6. CASE UNCHANGED vars  BY <1>2, <1>6 DEF vars, upstream
<1>. QED  BY <1>3, <1>4, <1>5, <1>6 DEF Next

(* The watermark is read before the evidence, so a watermark that has not  *)
(* moved vouches for what was read.                                        *)
LEMMA WatermarkStep == IInv /\ EvidenceInv /\ [Next]_vars => EvidenceInv'
<1>. SUFFICES ASSUME IInv, EvidenceInv, [Next]_vars, NEW t \in Threads
              PROVE  /\ pc'[t] \in {"watermark", "snapshot", "prepared"} =>
                            seen'[t].wm <= evidence'.rev
                     /\ pc'[t] \in {"snapshot", "prepared"} /\ seen'[t].wm = evidence'.rev =>
                            seen'[t].gen = evidence'.gen
  BY DEF EvidenceInv
<1>1. EvidenceGrows  BY EvidenceStep
<1>2. ThreadMoves(t)  BY ThreadStep
<1>3. evidence.rev \in Nat /\ evidence'.rev \in Nat /\ seen[t].wm \in Nat
  <2>1. IInv'  BY NextStep
  <2>. QED  BY <2>1 DEF IInv, TypeOK, Observation
<1>4. CASE Keeps(t) \/ Prepares(t)
  <2>1. /\ seen'[t] = seen[t]
        /\ pc'[t] \in {"watermark", "snapshot", "prepared"} =>
               pc[t] \in {"watermark", "snapshot", "prepared"}
        /\ pc'[t] \in {"snapshot", "prepared"} => pc[t] \in {"snapshot", "prepared"}
    BY <1>4 DEF Keeps, Prepares
  <2>. QED  BY <1>1, <1>3, <2>1 DEF EvidenceGrows, EvidenceInv
<1>5. CASE Reads(t)  BY <1>3, <1>5 DEF Reads, EvidenceInv
<1>. QED  BY <1>2, <1>4, <1>5 DEF ThreadMoves, Returns, Saves

(* What a prepared call read of the fabric is in force as long as the      *)
(* watermark it read first is.                                             *)
THEOREM WatermarkVouches == Spec => []EvidenceInv
<1>1. Init => EvidenceInv  BY DEF Init, EvidenceInv
<1>. QED  BY <1>1, WatermarkStep, Invariance, PTL DEF Spec
--------------------------------------------------------------------------------
(* Images made from the one callers see: with the live tables copied in,   *)
(* with the lists re-evaluated, or with a prepared call applied.           *)
FromTables(i) ==
    /\ i.lists = store.lists /\ i.attempts = store.attempts /\ i.history = store.history
    /\ i.regs = registry'.gen /\ i.pubs = publishers' /\ i.fenced = fencedBoots'
    /\ i.epoch \in {store.epoch, epoch'}

FromRefresh(i) ==
    /\ i.attempts = store.attempts /\ i.history = store.history /\ i.epoch = store.epoch
    /\ i.regs = store.regs /\ i.pubs = store.pubs /\ i.fenced = store.fenced
    /\ \E view, e : i.lists = [l \in Lists |-> Refreshed(store.lists[l], view, e)]

FromPlan(t, i) ==
    /\ pc[t] = "prepared" /\ Verified(t)
    /\ i = disk'
    /\ CommitsPlan(t) \/ TransitionsPlan(t)

Made(i) == FromTables(i) \/ FromRefresh(i) \/ \E t \in Threads : FromPlan(t, i)

(* What a step does to the images. *)
Still ==
    /\ UNCHANGED <<store, disk, lock, pending>>
    /\ phase' = phase \/ LoadNothing
    /\ EpochAdvances \/ UNCHANGED <<epoch, served>>

SavesImage ==
    /\ phase = "serving" /\ lock = None
    /\ UNCHANGED <<phase, store, registry, authority, served>>
    /\ Made(disk') /\ Made(pending')

Starts ==
    /\ phase = "loaded" /\ FromTables(disk') /\ FromTables(store')
    /\ UNCHANGED <<lock, fencedBoots>>
    /\ \/ /\ phase' = "loaded" /\ UNCHANGED <<epoch, served>>
          /\ disk'.epoch = store.epoch /\ store'.epoch = store.epoch
       \/ /\ phase' = "serving" /\ epoch' = epoch + 1 /\ served' = epoch'
          /\ disk'.epoch = epoch' /\ store'.epoch = epoch'

ImagesMove ==
    Still \/ SavesImage \/ (\E t \in Threads : Swap(t)) \/ Crash \/ Load \/ Starts

(* Every save of a mutation carries the registry and the authority table. *)
LEMMA WithTablesFields ==
    ASSUME NEW i \in Image
    PROVE  /\ WithTables(i).regs = registry.gen /\ WithTables(i).pubs = publishers
           /\ WithTables(i).fenced = fencedBoots /\ WithTables(i).epoch = i.epoch
           /\ WithTables(i).history = i.history
BY DEF WithTables, Image

(* A step that fails to save leaves the images alone; the authority table  *)
(* and the registry have locks of their own.                               *)
LEMMA SaveImages ==
    ASSUME IInv, NEW t \in Threads, phase = "serving", NEW image, NEW after,
           Save(t, image, after), UNCHANGED <<phase, store, upstream, authority, ghosts>>,
           disk' = image => Made(image) /\ Made(after)
    PROVE  ImagesMove
<1>1. CASE Return(t) /\ UNCHANGED <<disk, pending, lock>>
  BY <1>1 DEF ImagesMove, Still, authority, ghosts
<1>2. CASE ~ (Return(t) /\ UNCHANGED <<disk, pending, lock>>)
  <2>1. lock = None /\ disk' = image /\ pending' = after  BY <1>2 DEF Save
  <2>. QED  BY <2>1 DEF ImagesMove, SavesImage, upstream, ghosts
<1>. QED  BY <1>1, <1>2

(* The images a call saves. *)
LEMMA CallImages ==
    ASSUME IInv, NEW t \in Threads, Call(t)
    PROVE  ImagesMove
<1>0. store \in Image /\ store.revision \in Nat  BY DEF IInv, TypeOK, Image
<1>1. CASE Swap(t)  BY <1>1 DEF ImagesMove
<1>2. CASE Mutate(t) \/ Revalidate(t) \/ Transition(t)
  <2>1. ASSUME NEW q, Prepare(t, q) PROVE Still
    BY <2>1 DEF Prepare, Still, authority, ghosts
  <2>2. \E q : Prepare(t, q)
    BY <1>2, ZenonT(40) DEF Mutate, Revalidate, Transition, PrepareCommit, PrepareTransition
  <2>. QED  BY <2>1, <2>2 DEF ImagesMove
<1>3. CASE \/ ReadWatermark(t) \/ ReadSnapshot(t) \/ Refuse(t) \/ RefuseCommit(t)
           \/ RefreshReadEvidence(t) \/ RefreshReadEpoch(t)
           \/ \E a \in Attempts : Replay(t, a)
           \/ \E id \in Lists, e \in 0 .. MaxGeneration : RevalidateRead(t, id, e)
           \/ \E x \in RegistryDeps : Register(t, x)
  BY <1>3 DEF ReadWatermark, ReadSnapshot, Refuse, RefuseCommit, RefreshReadEvidence,
              RefreshReadEpoch, Replay, RevalidateRead, Register, ImagesMove, Still,
              authority, ghosts
<1>4. CASE Commit(t)
  <2>1. /\ Save(t, CommitImage(plan[t]), CommitImage(plan[t])) /\ pc[t] = "prepared"
        /\ phase = "serving" /\ plan[t].event \in CommitEvents /\ Verified(t)
        /\ UNCHANGED <<phase, store, upstream, authority, ghosts>>
    BY <1>4 DEF Commit, At
  <2>2. lock = None  BY <2>1, SaveMoves
  <2>3. plan[t] \in Plan /\ StillHolds(plan[t])  BY <2>1 DEF Verified, IInv, PlanInv
  <2>4. disk' = CommitImage(plan[t]) => CommitsPlan(t)
    BY <2>1, <2>2, <2>3 DEF CommitsPlan, SavesPlan, IInv, DurableInv
  <2>5. disk' = CommitImage(plan[t]) => Made(CommitImage(plan[t]))
    BY <2>1, <2>4 DEF Made, FromPlan
  <2>. QED  BY <2>1, <2>5, SaveImages
<1>5. CASE CommitTransition(t)
  <2>1. /\ Save(t, TransitionImage(plan[t]), TransitionImage(plan[t])) /\ pc[t] = "prepared"
        /\ phase = "serving" /\ plan[t].event \in TransitionEvents /\ Verified(t)
        /\ UNCHANGED <<phase, store, upstream, authority, ghosts>>
    BY <1>5 DEF CommitTransition, At
  <2>2. lock = None  BY <2>1, SaveMoves
  <2>3. plan[t] \in Plan /\ StillHolds(plan[t])  BY <2>1 DEF Verified, IInv, PlanInv
  <2>4. disk' = TransitionImage(plan[t]) => TransitionsPlan(t)
    BY <2>1, <2>2, <2>3 DEF TransitionsPlan, SavesPlan, IInv, DurableInv
  <2>5. disk' = TransitionImage(plan[t]) => Made(TransitionImage(plan[t]))
    BY <2>1, <2>4 DEF Made, FromPlan
  <2>. QED  BY <2>1, <2>5, SaveImages
<1>6. CASE RefreshApply(t)
  <2>. DEFINE lists == [l \in Lists |-> Refreshed(store.lists[l], CapturedView(t), seen[t].epoch)]
              image == [store EXCEPT !.lists = lists, !.revision = @ + 1]
  <2>1. FromRefresh(image)
    <3>1. /\ image.attempts = store.attempts /\ image.history = store.history
          /\ image.epoch = store.epoch /\ image.regs = store.regs /\ image.pubs = store.pubs
          /\ image.fenced = store.fenced /\ image.lists = lists
      BY <1>0 DEF Image
    <3>. HIDE DEF image
    <3>. QED  BY <3>1 DEF FromRefresh
  <2>2. phase = "serving" /\ UNCHANGED <<phase, store, upstream, authority, ghosts>>
    BY <1>6 DEF RefreshApply, At
  <2>3. CASE Return(t) /\ UNCHANGED <<disk, pending, lock>>
    BY <2>2, <2>3 DEF ImagesMove, Still, authority, ghosts
  <2>4. CASE Save(t, image, image)
    <3>. HIDE DEF image
    <3>. QED  BY <2>1, <2>2, <2>4, SaveImages DEF Made
  <2>. QED  BY <1>6, <2>3, <2>4 DEF RefreshApply
<1>7. CASE RegisterSave(t)
  <2>. DEFINE image == WithTables(store)
              after == [image EXCEPT !.revision = @ + 1]
  <2>1. /\ Save(t, image, after) /\ phase = "serving"
        /\ UNCHANGED <<phase, store, upstream, authority, ghosts>>
    BY <1>7 DEF RegisterSave, At
  <2>2. /\ image \in Image /\ image.lists = store.lists /\ image.attempts = store.attempts
        /\ image.regs = registry.gen /\ image.pubs = publishers /\ image.fenced = fencedBoots
        /\ image.epoch = store.epoch /\ image.history = store.history
    BY <1>0, WithTablesType, WithTablesFields DEF IInv
  <2>. HIDE DEF image
  <2>3. /\ after.lists = image.lists /\ after.attempts = image.attempts
        /\ after.regs = image.regs /\ after.pubs = image.pubs /\ after.fenced = image.fenced
        /\ after.epoch = image.epoch /\ after.history = image.history
    BY <2>2 DEF Image
  <2>. HIDE DEF after
  <2>4. FromTables(image) /\ FromTables(after)
    BY <2>1, <2>2, <2>3 DEF FromTables, upstream, authority
  <2>. QED  BY <2>1, <2>4, SaveImages DEF Made
<1>8. CASE PersistNow(t)
  <2>. DEFINE base == WithTables(store)
              image == [base EXCEPT !.revision = @ + 1, !.epoch = epoch]
  <2>1. /\ Save(t, image, image) /\ phase = "serving"
        /\ UNCHANGED <<phase, store, upstream, authority, ghosts>>
    BY <1>8 DEF PersistNow, At
  <2>2. /\ base \in Image /\ base.lists = store.lists /\ base.attempts = store.attempts
        /\ base.regs = registry.gen /\ base.pubs = publishers /\ base.fenced = fencedBoots
        /\ base.history = store.history
    BY <1>0, WithTablesType, WithTablesFields DEF IInv
  <2>. HIDE DEF base
  <2>3. /\ image.lists = base.lists /\ image.attempts = base.attempts
        /\ image.regs = base.regs /\ image.pubs = base.pubs /\ image.fenced = base.fenced
        /\ image.epoch = epoch /\ image.history = base.history
    BY <2>2 DEF Image
  <2>. HIDE DEF image
  <2>4. FromTables(image)  BY <2>1, <2>2, <2>3 DEF FromTables, upstream, authority
  <2>. QED  BY <2>1, <2>4, SaveImages DEF Made
<1>. QED
  BY <1>1, <1>2, <1>3, <1>4, <1>5, <1>6, <1>7, <1>8 DEF Call

(* The images the start of a coordinator saves. *)
LEMMA StartImages ==
    ASSUME IInv, (\E x \in Builtins : DeclareBuiltin(x)) \/ Serve
    PROVE  Starts
<1>. DEFINE base == WithTables(store)
<1>1. store \in Image  BY DEF IInv, TypeOK
<1>2. /\ base \in Image /\ base.lists = store.lists /\ base.attempts = store.attempts
      /\ base.regs = registry.gen /\ base.pubs = publishers /\ base.fenced = fencedBoots
      /\ base.history = store.history /\ base.epoch = store.epoch
  BY <1>1, WithTablesType, WithTablesFields DEF IInv
<1>3. CASE \E x \in Builtins : DeclareBuiltin(x)
  <2>1. PICK x \in Builtins : DeclareBuiltin(x)  BY <1>3
  <2>2. /\ disk' = [base EXCEPT !.regs = registry'.gen]
        /\ store' = [disk' EXCEPT !.revision = @ + 1]
        /\ phase = "loaded" /\ phase' = phase
        /\ UNCHANGED <<epoch, publishers, fencedBoots, lock, served>>
    BY <2>1 DEF DeclareBuiltin, authority, ghosts
  <2>. HIDE DEF base
  <2>3. /\ disk'.lists = base.lists /\ disk'.attempts = base.attempts
        /\ disk'.regs = registry'.gen /\ disk'.pubs = base.pubs /\ disk'.fenced = base.fenced
        /\ disk'.epoch = base.epoch /\ disk'.history = base.history
    BY <1>2, <2>2 DEF Image
  <2>4. disk' \in Image
    <3>1. IInv'  BY <2>1, DeclareBuiltinStep, ConstantsAssumption
    <3>. QED  BY <3>1 DEF IInv, TypeOK
  <2>5. /\ store'.lists = disk'.lists /\ store'.attempts = disk'.attempts
        /\ store'.regs = disk'.regs /\ store'.pubs = disk'.pubs /\ store'.fenced = disk'.fenced
        /\ store'.epoch = disk'.epoch /\ store'.history = disk'.history
    BY <2>2, <2>4 DEF Image
  <2>6. FromTables(disk') /\ FromTables(store')
    BY <1>2, <2>2, <2>3, <2>5 DEF FromTables
  <2>. QED  BY <1>2, <2>2, <2>3, <2>5, <2>6 DEF Starts
<1>4. CASE Serve
  <2>1. /\ disk' = [base EXCEPT !.epoch = epoch', !.revision = @ + 1] /\ store' = disk'
        /\ phase = "loaded" /\ phase' = "serving" /\ epoch' = epoch + 1 /\ served' = epoch'
        /\ UNCHANGED <<registry, publishers, fencedBoots, lock>>
    BY <1>4 DEF Serve, upstream
  <2>. HIDE DEF base
  <2>2. /\ disk'.lists = base.lists /\ disk'.attempts = base.attempts
        /\ disk'.regs = base.regs /\ disk'.pubs = base.pubs /\ disk'.fenced = base.fenced
        /\ disk'.epoch = epoch' /\ disk'.history = base.history
    BY <1>2, <2>1 DEF Image
  <2>3. FromTables(disk')  BY <1>2, <2>1, <2>2 DEF FromTables
  <2>. QED  BY <2>1, <2>2, <2>3 DEF Starts
<1>. QED  BY <1>3, <1>4

(* What a step does to the images. *)
LEMMA ImageStep ==
    ASSUME IInv, [Next]_vars
    PROVE  ImagesMove
<1>1. CASE \E t \in Threads : Call(t)  BY <1>1, CallImages
<1>2. CASE Environment
  BY <1>2 DEF Environment, AdvanceRegistry, ChangeEvidence, AdvanceEpoch, RegisterPublisher,
              MarkDead, FenceBoot, ImagesMove, Still, authority, ghosts
<1>3. CASE Process
  BY <1>3, StartImages DEF Process, LoadNothing, ImagesMove, Still, authority, ghosts
<1>4. CASE UNCHANGED vars  BY <1>4 DEF vars, ImagesMove, Still, authority, ghosts
<1>. QED  BY <1>1, <1>2, <1>3, <1>4 DEF Next
--------------------------------------------------------------------------------
(* The parts of an image, one kind of image after another. *)

(* What neither recovery nor a refresh changes of a list. *)
SameBinding(l, m) ==
    /\ m.gen = l.gen /\ m.needs = l.needs /\ m.bound = l.bound
    /\ m.boot = l.boot /\ m.epoch = l.epoch

(* Recovery keeps who wrote a list and what it is bound to. *)
LEMMA RecoveredBinding ==
    ASSUME NEW l \in List
    PROVE  SameBinding(l, Recovered(l))
BY DEF Recovered, List, SameBinding

(* Recovery leaves nothing active. *)
LEMMA RecoveredInactive ==
    ASSUME NEW l \in List, WellFormed(l)
    PROVE  ~ Available(Recovered(l))
<1>1. l.state \in LifecycleState  BY DEF List
<1>2. Advance(l.state, "RecoveryLoad") # "Active"  BY <1>1 DEF Advance, kTable, LifecycleState
<1>3. CASE l.gen = 0  BY <1>3 DEF Recovered, WellFormed, Available
<1>4. CASE l.gen # 0
  <2>1. Recovered(l).state = Advance(l.state, "RecoveryLoad")  BY <1>4 DEF Recovered, List
  <2>. QED  BY <1>2, <2>1 DEF Available
<1>. QED  BY <1>3, <1>4

(* A refresh keeps who wrote a list and what it is bound to. *)
LEMMA RefreshedBinding ==
    ASSUME NEW l \in List, NEW view, NEW e
    PROVE  SameBinding(l, Refreshed(l, view, e))
<1>1. CASE l.gen = 0 \/ l.state \in TerminalForActivation
  BY <1>1 DEF Refreshed, SameBinding
<1>2. CASE ~ (l.gen = 0 \/ l.state \in TerminalForActivation)
  <2>. DEFINE c == Evaluate(l, view, e)
              s == IF c # "Current" /\ l.state = "Active" THEN "RevalidationRequired" ELSE l.state
              m == [l EXCEPT !.cur = c, !.state = s]
  <2>1. Refreshed(l, view, e) = m  BY <1>2 DEF Refreshed, List
  <2>. HIDE DEF c, s
  <2>. QED  BY <2>1 DEF SameBinding, List
<1>. QED  BY <1>1, <1>2

(* append_history_locked keeps the history gapless: a full history loses   *)
(* its oldest entry, and the new entry takes the next identifier.          *)
LEMMA AppendGapless ==
    ASSUME NEW h \in Seq(HistoryEntry), Gapless(h), NEW id, NEW l, NEW rev
    PROVE  /\ Gapless(AppendHistory(h, id, l, rev))
           /\ Len(AppendHistory(h, id, l, rev)) \in Nat \ {0}
           /\ AppendHistory(h, id, l, rev)[Len(AppendHistory(h, id, l, rev))] =
                  [id |-> NextHistoryId(h), list |-> id, gen |-> l.gen,
                   state |-> l.state, rev |-> rev + 1]
<1>. DEFINE new == [id |-> NextHistoryId(h), list |-> id, gen |-> l.gen,
                    state |-> l.state, rev |-> rev + 1]
            kept == IF Len(h) >= MaxHistory THEN Tail(h) ELSE h
            all == Append(kept, new)
<1>0. MaxHistory \in Nat \ {0} /\ Len(h) \in Nat  BY ConstantsAssumption
<1>1. AppendHistory(h, id, l, rev) = all  BY DEF AppendHistory
<1>2. /\ kept \in Seq(HistoryEntry) /\ Len(kept) \in Nat
      /\ Len(kept) = IF Len(h) >= MaxHistory THEN Len(h) - 1 ELSE Len(h)
      /\ \A k \in 1 .. Len(kept) : kept[k] = IF Len(h) >= MaxHistory THEN h[k + 1] ELSE h[k]
  <2>1. CASE Len(h) >= MaxHistory
    <3>1. h # <<>>  BY <1>0, <2>1
    <3>. QED  BY <1>0, <2>1, <3>1, HeadTailProperties
  <2>2. CASE ~ (Len(h) >= MaxHistory)  BY <1>0, <2>2
  <2>. QED  BY <2>1, <2>2
<1>3. /\ Len(all) = Len(kept) + 1 /\ all[Len(all)] = new
      /\ \A k \in 1 .. Len(kept) : all[k] = kept[k]
  BY <1>2 DEF all
<1>4. new.id = NextHistoryId(h)  OBVIOUS
<1>. HIDE DEF kept, all, new
<1>5. Len(all) <= MaxHistory /\ Len(all) \in Nat \ {0}  BY <1>0, <1>2, <1>3 DEF Gapless
<1>6. ASSUME NEW k \in 1 .. Len(all) - 1 PROVE all[k + 1].id = all[k].id + 1
  <2>1. k \in 1 .. Len(kept)  BY <1>2, <1>3
  <2>2. CASE k < Len(kept)
    <3>1. k + 1 \in 1 .. Len(kept)  BY <1>2, <2>1, <2>2
    <3>2. all[k] = kept[k] /\ all[k + 1] = kept[k + 1]  BY <1>3, <2>1, <3>1
    <3>3. CASE Len(h) >= MaxHistory
      <4>1. k + 1 \in 1 .. Len(h) - 1  BY <1>0, <1>2, <2>2, <2>1, <3>3
      <4>2. kept[k] = h[k + 1] /\ kept[k + 1] = h[(k + 1) + 1]  BY <1>2, <2>1, <3>1, <3>3
      <4>. QED  BY <3>2, <4>1, <4>2 DEF Gapless
    <3>4. CASE ~ (Len(h) >= MaxHistory)
      <4>1. k \in 1 .. Len(h) - 1  BY <1>0, <1>2, <2>2, <2>1, <3>4
      <4>2. kept[k] = h[k] /\ kept[k + 1] = h[k + 1]  BY <1>2, <2>1, <3>1, <3>4
      <4>. QED  BY <3>2, <4>1, <4>2 DEF Gapless
    <3>. QED  BY <3>3, <3>4
  <2>3. CASE k = Len(kept)
    <3>1. all[k + 1] = new /\ all[k] = kept[k]  BY <1>2, <1>3, <2>1, <2>3
    <3>2. kept[k] = h[Len(h)]  BY <1>0, <1>2, <2>1, <2>3
    <3>3. h # <<>>  BY <1>0, <1>2, <2>1, <2>3
    <3>4. NextHistoryId(h) = h[Len(h)].id + 1  BY <3>3 DEF NextHistoryId
    <3>. QED  BY <1>4, <3>1, <3>2, <3>4
  <2>. QED  BY <1>2, <2>1, <2>2, <2>3
<1>7. Gapless(all)  BY <1>5, <1>6 DEF Gapless
<1>. QED  BY <1>1, <1>3, <1>5, <1>7 DEF new

(* The entry appended last is still there after one more.                  *)
LEMMA AppendKeepsLast ==
    ASSUME NEW h \in Seq(HistoryEntry), Gapless(h), Len(h) # 0, MaxHistory > 1,
           NEW id, NEW l, NEW rev
    PROVE  \E k \in 1 .. Len(AppendHistory(h, id, l, rev)) :
               AppendHistory(h, id, l, rev)[k] = h[Len(h)]
<1>. DEFINE new == [id |-> NextHistoryId(h), list |-> id, gen |-> l.gen,
                    state |-> l.state, rev |-> rev + 1]
            kept == IF Len(h) >= MaxHistory THEN Tail(h) ELSE h
            all == Append(kept, new)
<1>0. MaxHistory \in Nat \ {0} /\ Len(h) \in Nat  BY ConstantsAssumption
<1>1. AppendHistory(h, id, l, rev) = all  BY DEF AppendHistory
<1>2. /\ kept \in Seq(HistoryEntry) /\ Len(kept) \in Nat \ {0}
      /\ kept[Len(kept)] = h[Len(h)]
  <2>1. CASE Len(h) >= MaxHistory
    <3>1. h # <<>>  BY <1>0, <2>1
    <3>2. /\ Tail(h) \in Seq(HistoryEntry) /\ Len(Tail(h)) = Len(h) - 1
          /\ \A k \in 1 .. Len(Tail(h)) : Tail(h)[k] = h[k + 1]
      BY <3>1, HeadTailProperties
    <3>. QED  BY <1>0, <2>1, <3>2
  <2>2. CASE ~ (Len(h) >= MaxHistory)  BY <1>0, <2>2
  <2>. QED  BY <2>1, <2>2
<1>. HIDE DEF new, kept
<1>3. Len(kept) \in 1 .. Len(all) /\ all[Len(kept)] = kept[Len(kept)]  BY <1>2
<1>. QED  BY <1>1, <1>2, <1>3

(* The image a commit saves: its list is the one make_list builds, the     *)
(* superseded list keeps its writer and what it is bound to, the others    *)
(* are as they were, and the tables are the live ones.                     *)
LEMMA CommitFields ==
    ASSUME IInv, NEW t \in Threads, CommitsPlan(t)
    PROVE  LET p == plan[t] IN
           /\ disk'.lists[p.draft.id] = MakeList(p)
           /\ \A l \in Lists \ {p.draft.id} :
                  /\ SameBinding(store.lists[l], disk'.lists[l])
                  /\ Available(disk'.lists[l]) => Available(store.lists[l])
           /\ disk'.attempts = [store.attempts EXCEPT ![p.attempt] = p.draft]
           /\ disk'.regs = registry.gen /\ disk'.pubs = publishers
           /\ disk'.fenced = fencedBoots /\ disk'.epoch = p.epoch
<1>. DEFINE p     == plan[t]
            id    == p.draft.id
            sup   == p.draft.sup
            lists == IF sup = None THEN store.lists
                     ELSE [store.lists EXCEPT ![sup] = Supersede(@, p)]
<1>1. /\ p \in Plan /\ StillHolds(p) /\ disk' = CommitImage(p)
  BY DEF CommitsPlan, SavesPlan
<1>2. /\ id \in Lists /\ sup \in Lists \cup {None} /\ p.attempt \in Attempts
      /\ p.draft \in Draft
  BY <1>1 DEF Plan, Draft
<1>3. store \in Image /\ store.lists \in [Lists -> List]  BY DEF IInv, TypeOK, Image
<1>4. disk'.lists = [lists EXCEPT ![id] = MakeList(p)]
  BY <1>1, <1>3 DEF CommitImage, DraftApplied, WithTables, Image
<1>5. /\ disk'.attempts = [store.attempts EXCEPT ![p.attempt] = p.draft]
      /\ disk'.regs = registry.gen /\ disk'.pubs = publishers
      /\ disk'.fenced = fencedBoots /\ disk'.epoch = p.epoch
  BY <1>1, <1>3 DEF CommitImage, DraftApplied, WithTables, Image
<1>6. /\ DOMAIN lists = Lists
      /\ sup \in Lists => lists[sup] = Supersede(store.lists[sup], p)
      /\ \A l \in Lists \ {sup} : lists[l] = store.lists[l]
  BY <1>2, <1>3, ConstantsAssumption
<1>7. ASSUME NEW l \in Lists \ {id}
      PROVE  /\ SameBinding(store.lists[l], disk'.lists[l])
             /\ Available(disk'.lists[l]) => Available(store.lists[l])
  <2>1. disk'.lists[l] = lists[l]  BY <1>4, <1>6
  <2>2. CASE l # sup  BY <1>6, <2>1, <2>2 DEF SameBinding
  <2>3. CASE l = sup
    <3>0. store.lists[sup] \in List /\ lists[l] = Supersede(store.lists[sup], p)
      BY <1>3, <1>6, <2>3
    <3>1. store.lists[sup].state \in LifecycleState  BY <3>0 DEF List
    <3>2. Permits(store.lists[sup].state, "SupersedeBegin")
      BY <1>1, <2>3, ConstantsAssumption DEF StillHolds, SupersedeOk
    <3>3. Advance(store.lists[sup].state, "SupersedeBegin") = "Superseded"
      BY <3>1, <3>2, SupersedeLeads
    <3>4. /\ SameBinding(store.lists[sup], Supersede(store.lists[sup], p))
          /\ Supersede(store.lists[sup], p).state = "Superseded"
      BY <3>0, <3>3 DEF Supersede, SameBinding, List
    <3>. QED  BY <2>1, <2>3, <3>0, <3>4 DEF Available
  <2>. QED  BY <2>2, <2>3
<1>8. disk'.lists[id] = MakeList(p)  BY <1>2, <1>4, <1>6
<1>. QED  BY <1>5, <1>7, <1>8

(* The history a commit saves: the superseded list, the replaced revision  *)
(* and the new one are appended, in this order.                            *)
LEMMA CommitHistory ==
    ASSUME IInv, Gapless(store.history), NEW t \in Threads, CommitsPlan(t)
    PROVE  LET p == plan[t] IN
           /\ Gapless(disk'.history)
           /\ store.lists[p.draft.id].gen # 0 /\ MaxHistory > 1 =>
                  \E i \in 1 .. Len(disk'.history) :
                      /\ disk'.history[i].list = p.draft.id
                      /\ disk'.history[i].gen = store.lists[p.draft.id].gen
                      /\ disk'.history[i].state = "Superseded"
<1>. DEFINE p     == plan[t]
            id    == p.draft.id
            sup   == p.draft.sup
            rev   == store.revision + 1
            lists == IF sup = None THEN store.lists
                     ELSE [store.lists EXCEPT ![sup] = Supersede(@, p)]
            h1    == IF sup = None THEN store.history
                     ELSE AppendHistory(store.history, sup, lists[sup], rev)
            old   == [lists[id] EXCEPT !.state = "Superseded"]
            h2    == IF lists[id].gen = 0 THEN h1 ELSE AppendHistory(h1, id, old, rev)
            new   == MakeList(p)
            h3    == AppendHistory(h2, id, new, rev)
<1>1. /\ p \in Plan /\ StillHolds(p) /\ disk' = CommitImage(p)
  BY DEF CommitsPlan, SavesPlan
<1>2. /\ id \in Lists /\ sup \in Lists \cup {None} /\ p \in Plan
  BY <1>1 DEF Plan, Draft
<1>3. /\ store \in Image /\ store.lists \in [Lists -> List] /\ store.history \in Seq(HistoryEntry)
      /\ rev \in Nat
  BY DEF IInv, TypeOK, Image
<1>4. disk'.history = h3
  BY <1>1, <1>3 DEF CommitImage, DraftApplied, WithTables, Image
<1>5. lists \in [Lists -> List] /\ lists[id].gen = store.lists[id].gen
  <2>1. CASE sup = None  BY <1>3, <2>1
  <2>2. CASE sup # None
    <3>1. sup \in Lists /\ store.lists[sup] \in List  BY <1>2, <1>3, <2>2
    <3>2. Permits(store.lists[sup].state, "SupersedeBegin")
      BY <1>1, <2>2 DEF StillHolds, SupersedeOk
    <3>3. store.lists[sup].state \in LifecycleState  BY <3>1 DEF List
    <3>4. Advance(store.lists[sup].state, "SupersedeBegin") \in LifecycleState
      BY <3>2, <3>3, EventTypes, AdvanceType
    <3>5. /\ Supersede(store.lists[sup], p) \in List
          /\ Supersede(store.lists[sup], p).gen = store.lists[sup].gen
      BY <1>2, <1>3, <3>1, <3>4 DEF Supersede, List, Currentness
    <3>. QED  BY <1>2, <1>3, <2>2, <3>1, <3>5
  <2>. QED  BY <2>1, <2>2
<1>6. lists[id] \in List /\ MakeList(p) \in List  BY <1>2, <1>5, MakeListType
<1>7. old \in List /\ old.gen = lists[id].gen /\ old.state = "Superseded"
  BY <1>6 DEF List, LifecycleState
<1>. HIDE DEF lists, rev, old, p
<1>8. h1 \in Seq(HistoryEntry) /\ Gapless(h1)
  <2>1. CASE sup = None  BY <1>3, <2>1
  <2>2. CASE sup # None
    <3>1. sup \in Lists /\ lists[sup] \in List  BY <1>2, <1>5, <2>2
    <3>. QED  BY <1>3, <2>2, <3>1, AppendHistoryType, AppendGapless
  <2>. QED  BY <2>1, <2>2
<1>. HIDE DEF h1
<1>9. h2 \in Seq(HistoryEntry) /\ Gapless(h2)
  <2>1. CASE lists[id].gen = 0  BY <1>8, <2>1
  <2>2. CASE lists[id].gen # 0
    BY <1>2, <1>3, <1>7, <1>8, <2>2, AppendHistoryType, AppendGapless
  <2>. QED  BY <2>1, <2>2
<1>10. ASSUME lists[id].gen # 0
       PROVE  /\ Len(h2) # 0 /\ h2[Len(h2)].list = id /\ h2[Len(h2)].gen = lists[id].gen
              /\ h2[Len(h2)].state = "Superseded"
  <2>1. h2 = AppendHistory(h1, id, old, rev)  BY <1>10
  <2>2. /\ Len(h2) \in Nat \ {0}
        /\ h2[Len(h2)] = [id |-> NextHistoryId(h1), list |-> id, gen |-> old.gen,
                          state |-> old.state, rev |-> rev + 1]
    BY <1>8, <2>1, AppendGapless
  <2>. HIDE DEF h2
  <2>. QED  BY <1>7, <2>2
<1>. HIDE DEF h2, new, id
<1>11. Gapless(h3) /\ Len(h3) \in Nat  BY <1>9, AppendGapless
<1>12. ASSUME lists[id].gen # 0, MaxHistory > 1
       PROVE  \E i \in 1 .. Len(h3) :
                  /\ h3[i].list = id /\ h3[i].gen = lists[id].gen /\ h3[i].state = "Superseded"
  <2>0. Len(h2) # 0  BY <1>10, <1>12
  <2>1. \E k \in 1 .. Len(h3) : h3[k] = h2[Len(h2)]  BY <1>9, <1>12, <2>0, AppendKeepsLast
  <2>. HIDE DEF h3
  <2>. QED  BY <1>10, <1>12, <2>1
<1>. HIDE DEF h3
<1>. QED  BY <1>4, <1>5, <1>11, <1>12 DEF p, id

(* The image a transition saves: its list keeps what it is bound to and    *)
(* gets a new writer; the others are as they were, and the tables are the  *)
(* live ones.                                                              *)
LEMMA TransitionFields ==
    ASSUME IInv, Gapless(store.history), NEW t \in Threads, TransitionsPlan(t)
    PROVE  LET p == plan[t]
               new == disk'.lists[p.draft.id]
           IN
           /\ new.boot = p.boot /\ new.needs = store.lists[p.draft.id].needs
           /\ new.bound = store.lists[p.draft.id].bound
           /\ new.gen = store.lists[p.draft.id].gen /\ ~ Available(new)
           /\ \A l \in Lists \ {p.draft.id} : disk'.lists[l] = store.lists[l]
           /\ disk'.attempts = [store.attempts EXCEPT ![p.attempt] = p.draft]
           /\ disk'.regs = registry.gen /\ disk'.pubs = publishers
           /\ disk'.fenced = fencedBoots /\ disk'.epoch = p.epoch
           /\ Gapless(disk'.history)
<1>. DEFINE p    == plan[t]
            id   == p.draft.id
            s    == Advance(store.lists[id].state, p.event)
            rev  == store.revision + 1
            list == [store.lists[id] EXCEPT
                        !.state = s, !.cur = "Unknown", !.rev = rev,
                        !.boot = p.boot, !.epoch = p.epoch, !.attempt = p.attempt]
<1>1. p \in Plan /\ StillHolds(p) /\ p.event \in TransitionEvents /\ disk' = TransitionImage(p)
  BY DEF TransitionsPlan, SavesPlan
<1>2. id \in Lists /\ p.attempt \in Attempts /\ p.draft \in Draft  BY <1>1 DEF Plan, Draft
<1>3. /\ store \in Image /\ store.lists \in [Lists -> List] /\ store.history \in Seq(HistoryEntry)
  BY DEF IInv, TypeOK, Image
<1>4. disk'.lists = [store.lists EXCEPT ![id] = list]
  BY <1>1, <1>3 DEF TransitionImage, WithTables, Image
<1>5. /\ disk'.attempts = [store.attempts EXCEPT ![p.attempt] = p.draft]
      /\ disk'.regs = registry.gen /\ disk'.pubs = publishers
      /\ disk'.fenced = fencedBoots /\ disk'.epoch = p.epoch
      /\ disk'.history = AppendHistory(store.history, id, list, rev)
  BY <1>1, <1>3 DEF TransitionImage, WithTables, Image
<1>6. store.lists[id] \in List  BY <1>2, <1>3
<1>7. store.lists[id].state \in LifecycleState  BY <1>6 DEF List
<1>8. s \in Closed
  BY <1>1, <1>7, TransitionsClose DEF StillHolds
<1>. HIDE DEF s
<1>9. /\ list.boot = p.boot /\ list.needs = store.lists[id].needs
      /\ list.bound = store.lists[id].bound /\ list.gen = store.lists[id].gen /\ list.state = s
  BY <1>6 DEF List
<1>10. ~ Available(list)  BY <1>8, <1>9 DEF Available, Closed, TerminalForActivation
<1>. HIDE DEF list, p, rev
<1>11. Gapless(AppendHistory(store.history, id, list, rev))  BY <1>3, AppendGapless
<1>12. disk'.lists[id] = list /\ \A l \in Lists \ {id} : disk'.lists[l] = store.lists[l]
  BY <1>2, <1>3, <1>4
<1>13. Gapless(disk'.history)  BY <1>5, <1>11
<1>. QED  BY <1>5, <1>9, <1>10, <1>12, <1>13 DEF p
--------------------------------------------------------------------------------
(* Every image that is made is as good as the one callers see. *)

BehindNext(i) ==
    /\ \A x \in RegistryDeps : i.regs[x] <= registry'.gen[x]
    /\ BootsOf(i) \subseteq LiveBoots' \cup {None}

(* What was behind the tables stays behind them. *)
LEMMA BehindStays ==
    ASSUME TypeOK, TypeOK', TablesGrow, NEW i \in Image, Behind(i)
    PROVE  BehindNext(i)
<1>1. /\ i.regs \in [RegistryDeps -> Nat] /\ registry.gen \in [RegistryDeps -> Nat]
      /\ registry'.gen \in [RegistryDeps -> Nat]
  BY DEF TypeOK, Image
<1>. QED  BY <1>1 DEF Behind, BehindNext, TablesGrow

(* The types the following lemmas need. *)
LEMMA StoreTypes ==
    ASSUME TypeOK
    PROVE  /\ store.lists \in [Lists -> List] /\ store.history \in Seq(HistoryEntry)
           /\ store.attempts \in [Attempts -> Draft \cup {None}]
           /\ store.regs \in [RegistryDeps -> Nat]
           /\ registry.gen \in [RegistryDeps -> Nat]
           /\ \A l \in Lists : store.lists[l] \in List /\ store.lists[l].bound \in View
BY DEF TypeOK, Image, List

(* Copying the live tables in. *)
LEMMA FromTablesOk ==
    ASSUME TypeOK, TypeOK', ImageOk(store), Behind(store), TablesGrow, NEW i, FromTables(i)
    PROVE  ImageOk(i) /\ BehindNext(i)
<1>1. BootsOf(i) = LiveBoots'  BY DEF BootsOf, LiveBoots, FromTables
<1>2. /\ i.lists = store.lists /\ i.attempts = store.attempts /\ i.history = store.history
      /\ i.regs = registry'.gen
  BY DEF FromTables
<1>3. registry'.gen \in [RegistryDeps -> Nat]  BY DEF TypeOK
<1>4. BehindNext(store)
  <2>1. store \in Image  BY DEF TypeOK
  <2>. QED  BY <2>1, BehindStays
<1>5. WritersKnown(i)  BY <1>1, <1>2, <1>4 DEF ImageOk, WritersKnown, BehindNext
<1>6. BoundRegistered(i)
  <2>1. ASSUME NEW l \in Lists, NEW x \in RegistryDeps
        PROVE  store.lists[l].bound[x] <= registry'.gen[x]
    <3>1. store.lists[l].bound[x] \in Nat /\ store.regs[x] \in Nat /\ registry'.gen[x] \in Nat
      BY <1>3, StoreTypes DEF View, Deps
    <3>2. store.lists[l].bound[x] <= store.regs[x]  BY DEF ImageOk, BoundRegistered
    <3>3. store.regs[x] <= registry'.gen[x]  BY <1>4 DEF BehindNext
    <3>. QED  BY <3>1, <3>2, <3>3
  <2>. QED  BY <1>2, <2>1 DEF BoundRegistered
<1>7. Gapless(i.history)  BY <1>2 DEF ImageOk
<1>8. TableBounded(i)  BY <1>2 DEF ImageOk, TableBounded, UsedIn
<1>9. \A l \in Lists : Tight(i.lists[l].needs, i.lists[l].bound)  BY <1>2 DEF ImageOk
<1>10. BehindNext(i)  BY <1>1, <1>2, <1>3 DEF BehindNext
<1>. QED  BY <1>5, <1>6, <1>7, <1>8, <1>9, <1>10 DEF ImageOk

(* Re-evaluating the lists. *)
LEMMA FromRefreshOk ==
    ASSUME TypeOK, TypeOK', ImageOk(store), Behind(store), TablesGrow, NEW i, FromRefresh(i)
    PROVE  ImageOk(i) /\ BehindNext(i)
<1>1. PICK view, e : i.lists = [l \in Lists |-> Refreshed(store.lists[l], view, e)]
  BY DEF FromRefresh
<1>2. \A l \in Lists : SameBinding(store.lists[l], i.lists[l])
  BY <1>1, StoreTypes, RefreshedBinding
<1>3. BootsOf(i) = BootsOf(store)  BY DEF BootsOf, FromRefresh
<1>4. BehindNext(store)
  <2>1. store \in Image  BY DEF TypeOK
  <2>. QED  BY <2>1, BehindStays
<1>5. WritersKnown(i)  BY <1>2, <1>3 DEF ImageOk, WritersKnown, SameBinding
<1>6. BoundRegistered(i)  BY <1>2 DEF ImageOk, BoundRegistered, SameBinding, FromRefresh
<1>7. Gapless(i.history)  BY DEF ImageOk, FromRefresh
<1>8. TableBounded(i)  BY DEF ImageOk, TableBounded, UsedIn, FromRefresh
<1>9. \A l \in Lists : Tight(i.lists[l].needs, i.lists[l].bound)
  BY <1>2 DEF ImageOk, SameBinding
<1>10. BehindNext(i)  BY <1>3, <1>4 DEF BehindNext, FromRefresh
<1>. QED  BY <1>5, <1>6, <1>7, <1>8, <1>9, <1>10 DEF ImageOk

(* The replay table has room for the attempt of a call that was prepared   *)
(* on this revision of the store.                                          *)
LEMMA TableHasRoom ==
    ASSUME TypeOK, TableBounded(store), NEW a \in Attempts, AttemptTableAccepts(a),
           NEW d \in Draft, NEW i, i.attempts = [store.attempts EXCEPT ![a] = d]
    PROVE  TableBounded(i)
<1>1. UsedIn(i) = UsedIn(store) \cup {a}
  BY StoreTypes, NoneAssumption DEF UsedIn
<1>2. IsFiniteSet(UsedIn(store)) /\ Cardinality(UsedIn(store)) <= MaxAttemptRecords
  BY DEF TableBounded
<1>3. MaxAttemptRecords \in Nat /\ Cardinality(UsedIn(store)) \in Nat
  BY <1>2, ConstantsAssumption, FS_CardinalityType
<1>4. CASE a \in UsedIn(store)
  <2>1. UsedIn(i) = UsedIn(store)  BY <1>1, <1>4
  <2>. QED  BY <1>2, <2>1 DEF TableBounded
<1>5. CASE a \notin UsedIn(store)
  <2>1. Cardinality(UsedIn(store)) < MaxAttemptRecords
    BY <1>5 DEF UsedIn, AttemptTableAccepts
  <2>2. IsFiniteSet(UsedIn(i)) /\ Cardinality(UsedIn(i)) = Cardinality(UsedIn(store)) + 1
    BY <1>1, <1>2, <1>5, FS_AddElement
  <2>. QED  BY <1>3, <2>1, <2>2 DEF TableBounded
<1>. QED  BY <1>4, <1>5

(* What make_list takes from the plan.                                     *)
LEMMA MakeListFields ==
    ASSUME NEW p
    PROVE  /\ MakeList(p).bound = Bind(p.draft, p.view) /\ MakeList(p).needs = p.draft.needs
           /\ MakeList(p).boot = p.boot /\ MakeList(p).epoch = p.epoch
           /\ MakeList(p).attempt = p.attempt /\ MakeList(p).gen = p.draft.expected + 1
BY DEF MakeList

(* make_list binds exactly the generations of the view that was resolved:  *)
(* whatever the content needs, and whatever it demands.                    *)
LEMMA BindResolves ==
    ASSUME NEW d \in Draft, NEW view \in View, Resolves(d, view), Tight(d.needs, d.bind)
    PROVE  /\ Tight(d.needs, Bind(d, view))
           /\ \A x \in Deps : x \in d.needs \/ Bind(d, view)[x] # 0 => Bind(d, view)[x] = view[x]
<1>1. \A x \in Deps :
        Bind(d, view)[x] = IF x \in d.needs \cap (RegistryDeps \cup FabricDeps) /\ d.bind[x] = 0
                           THEN view[x] ELSE d.bind[x]
  BY DEF Bind
<1>2. Tight(d.needs, Bind(d, view))  BY <1>1 DEF Tight
<1>3. ASSUME NEW x \in Deps, x \in d.needs \/ Bind(d, view)[x] # 0
      PROVE  Bind(d, view)[x] = view[x]
  <2>1. CASE x \in RegistryDeps \cup FabricDeps
    <3>1. d.bind[x] \in {0, view[x]}  BY <2>1 DEF Resolves
    <3>. QED  BY <1>1, <1>3, <2>1, <3>1
  <2>2. CASE x \notin RegistryDeps \cup FabricDeps
    <3>1. x \in PinnedDeps \cup DeclaredDeps  BY <2>2 DEF Deps, EvidenceDeps
    <3>2. Bind(d, view)[x] = d.bind[x]  BY <1>1, <2>2
    <3>3. x \in d.needs  BY <1>3, <2>2, <3>2 DEF Tight
    <3>. QED  BY <3>1, <3>2, <3>3 DEF Resolves
  <2>. QED  BY <2>1, <2>2
<1>. QED  BY <1>2, <1>3

(* Phase E of run_batch: if nothing it verifies has moved, everything that *)
(* was captured is in force.                                               *)
LEMMA VerifiedIsCurrent ==
    ASSUME TypeOK, CapturedInv, EvidenceInv, NEW t \in Threads, pc[t] = "prepared",
           plan[t].event \in CommitEvents, Verified(t), NEW x \in Deps
    PROVE  plan[t].view[x] = CurrentView[x]
<1>1. registry.rev = plan[t].regRev /\ evidence.rev = seen[t].wm  BY DEF Verified
<1>2. CASE x \in RegistryDeps
  <2>1. plan[t].view[x] = registry.gen[x]  BY <1>1, <1>2 DEF CapturedInv
  <2>. QED  BY <1>2, <2>1 DEF CurrentView
<1>3. CASE x \notin RegistryDeps
  <2>1. x \in EvidenceDeps  BY <1>3 DEF Deps
  <2>2. seen[t].gen = evidence.gen  BY <1>1 DEF EvidenceInv
  <2>3. plan[t].view[x] = seen[t].gen[x]  BY <2>1 DEF CapturedInv
  <2>. QED  BY <1>3, <2>2, <2>3 DEF CurrentView
<1>. QED  BY <1>2, <1>3

(* Applying a prepared call. *)
LEMMA FromPlanOk ==
    ASSUME IInv, TypeOK', ImageOk(store), Behind(store), CapturedInv, EvidenceInv,
           UNCHANGED <<registry, publishers, fencedBoots>>, NEW t \in Threads, FromPlan(t, disk')
    PROVE  ImageOk(disk') /\ BehindNext(disk')
<1>. DEFINE p == plan[t]
            id == p.draft.id
<1>0. TypeOK  BY DEF IInv
<1>1. pc[t] = "prepared" /\ Verified(t) /\ (CommitsPlan(t) \/ TransitionsPlan(t))  BY DEF FromPlan
<1>2. p \in Plan /\ StillHolds(p) /\ p.event \in CommitEvents \cup TransitionEvents
  BY <1>1 DEF CommitsPlan, TransitionsPlan, SavesPlan
<1>3. /\ id \in Lists /\ p.boot \in Boots /\ p.attempt \in Attempts /\ p.draft \in Draft
      /\ p.view \in View
  BY <1>2 DEF Plan, Draft
<1>4. Gapless(store.history)  BY DEF ImageOk
<1>5. disk'.regs = registry.gen /\ disk'.pubs = publishers /\ disk'.fenced = fencedBoots
  BY <1>0, <1>1, <1>4, CommitFields, TransitionFields
<1>6. BootsOf(disk') = LiveBoots /\ LiveBoots' = LiveBoots  BY <1>5 DEF BootsOf, LiveBoots
<1>7. disk'.attempts = [store.attempts EXCEPT ![p.attempt] = p.draft]
  BY <1>0, <1>1, <1>4, CommitFields, TransitionFields
<1>8. ASSUME NEW l \in Lists, l # id PROVE SameBinding(store.lists[l], disk'.lists[l])
  <2>1. CASE CommitsPlan(t)  BY <1>0, <1>8, <2>1, CommitFields
  <2>2. CASE TransitionsPlan(t)
    <3>1. disk'.lists[l] = store.lists[l]  BY <1>0, <1>4, <1>8, <2>2, TransitionFields
    <3>. QED  BY <3>1 DEF SameBinding
  <2>. QED  BY <1>1, <2>1, <2>2
<1>9. p.boot \in LiveBoots \ {None}  BY <1>1, <1>3, ConstantsAssumption DEF CapturedInv
<1>10. disk'.lists[id].boot = p.boot
  <2>1. CASE CommitsPlan(t)
    <3>1. disk'.lists[id] = MakeList(p)  BY <2>1, CommitFields
    <3>. QED  BY <3>1, MakeListFields
  <2>2. CASE TransitionsPlan(t)  BY <1>4, <2>2, TransitionFields
  <2>. QED  BY <1>1, <2>1, <2>2
<1>11. WritersKnown(disk')
  <2>1. ASSUME NEW l \in Lists, disk'.lists[l].gen # 0, l # id
        PROVE  disk'.lists[l].boot \in LiveBoots \ {None}
    <3>1. store.lists[l].gen # 0 /\ disk'.lists[l].boot = store.lists[l].boot
      BY <1>8, <2>1 DEF SameBinding
    <3>2. store.lists[l].boot \in BootsOf(store) \ {None}  BY <3>1 DEF ImageOk, WritersKnown
    <3>. QED  BY <3>1, <3>2 DEF Behind
  <2>. QED  BY <1>6, <1>9, <1>10, <2>1 DEF WritersKnown
<1>12. /\ \A x \in RegistryDeps : disk'.lists[id].bound[x] <= registry.gen[x]
       /\ Tight(disk'.lists[id].needs, disk'.lists[id].bound)
  <2>1. CASE CommitsPlan(t)
    <3>1. /\ disk'.lists[id].bound = Bind(p.draft, p.view)
          /\ disk'.lists[id].needs = p.draft.needs
      <4>1. disk'.lists[id] = MakeList(p)  BY <2>1, CommitFields
      <4>. QED  BY <4>1, MakeListFields
    <3>2. p.event \in CommitEvents  BY <2>1 DEF CommitsPlan
    <3>3. Resolves(p.draft, p.view) /\ Tight(p.draft.needs, p.draft.bind)
      BY <1>1, <3>2 DEF CapturedInv
    <3>4. /\ Tight(p.draft.needs, Bind(p.draft, p.view))
          /\ \A x \in Deps : Bind(p.draft, p.view)[x] # 0 => Bind(p.draft, p.view)[x] = p.view[x]
      BY <1>3, <3>3, BindResolves
    <3>5. ASSUME NEW x \in RegistryDeps PROVE Bind(p.draft, p.view)[x] <= registry.gen[x]
      <4>1. x \in Deps /\ registry.gen[x] \in Nat  BY <1>0, StoreTypes DEF Deps
      <4>2. p.view[x] = registry.gen[x]
        BY <1>0, <1>1, <3>2, <4>1, VerifiedIsCurrent DEF CurrentView
      <4>. QED  BY <3>4, <4>1, <4>2
    <3>. QED  BY <3>1, <3>4, <3>5
  <2>2. CASE TransitionsPlan(t)
    <3>1. /\ disk'.lists[id].bound = store.lists[id].bound
          /\ disk'.lists[id].needs = store.lists[id].needs
      BY <1>0, <1>4, <2>2, TransitionFields
    <3>2. ASSUME NEW x \in RegistryDeps PROVE store.lists[id].bound[x] <= registry.gen[x]
      <4>1. store.lists[id].bound[x] \in Nat /\ store.regs[x] \in Nat /\ registry.gen[x] \in Nat
        BY <1>0, <1>3, StoreTypes DEF View, Deps
      <4>. QED  BY <1>3, <4>1 DEF ImageOk, BoundRegistered, Behind
    <3>. QED  BY <1>3, <3>1, <3>2 DEF ImageOk
  <2>. QED  BY <1>1, <2>1, <2>2
<1>13. ASSUME NEW l \in Lists
       PROVE  /\ \A x \in RegistryDeps : disk'.lists[l].bound[x] <= registry.gen[x]
              /\ Tight(disk'.lists[l].needs, disk'.lists[l].bound)
  <2>1. CASE l = id  BY <1>12, <2>1
  <2>2. CASE l # id
    <3>1. /\ disk'.lists[l].bound = store.lists[l].bound
          /\ disk'.lists[l].needs = store.lists[l].needs
      BY <1>8, <2>2 DEF SameBinding
    <3>2. ASSUME NEW x \in RegistryDeps PROVE store.lists[l].bound[x] <= registry.gen[x]
      <4>1. store.lists[l].bound[x] \in Nat /\ store.regs[x] \in Nat /\ registry.gen[x] \in Nat
        BY <1>0, StoreTypes DEF View, Deps
      <4>. QED  BY <4>1 DEF ImageOk, BoundRegistered, Behind
    <3>. QED  BY <3>1, <3>2 DEF ImageOk
  <2>. QED  BY <2>1, <2>2
<1>14. BoundRegistered(disk')  BY <1>5, <1>13 DEF BoundRegistered
<1>15. Gapless(disk'.history)
  BY <1>0, <1>1, <1>4, CommitHistory, TransitionFields
<1>16. TableBounded(disk')
  <2>1. AttemptTableAccepts(p.attempt)  BY <1>1 DEF CapturedInv, Verified
  <2>. QED  BY <1>0, <1>3, <1>7, <2>1, TableHasRoom DEF ImageOk
<1>17. BehindNext(disk')
  <2>1. registry.gen \in [RegistryDeps -> Nat]  BY <1>0, StoreTypes
  <2>. QED  BY <1>5, <1>6, <2>1 DEF BehindNext
<1>. QED  BY <1>11, <1>13, <1>14, <1>15, <1>16, <1>17 DEF ImageOk
--------------------------------------------------------------------------------
(* The invariant of the images and of what calls have captured. *)

ImageInv == DiskInv /\ EvidenceInv /\ ImagesInv /\ CapturedInv /\ RequestInv

(* While a call is prepared, the process lives and the store either stays  *)
(* or moves to another revision.                                           *)
LEMMA PreparedStays ==
    ASSUME IInv, [Next]_vars, NEW t \in Threads, pc[t] = "prepared", pc'[t] = "prepared"
    PROVE  TablesGrow /\ (store' = store \/ store'.revision > store.revision)
<1>1. phase = "serving"  BY DEF IInv, LockInv
<1>2. ~ Crash  BY DEF Crash
<1>3. ~ Load  BY <1>1 DEF Load
<1>4. TablesGrow  BY <1>2, <1>3, TablesStep
<1>5. ImagesMove  BY ImageStep
<1>6. CASE \E u \in Threads : Swap(u)
  <2>1. PICK u \in Threads : Swap(u)  BY <1>6
  <2>2. lock = u /\ lock # None  BY <2>1, ConstantsAssumption DEF Swap, At, IInv, LockInv
  <2>. QED  BY <1>4, <2>1, <2>2 DEF Swap, IInv, LockInv
<1>. QED  BY <1>1, <1>2, <1>3, <1>4, <1>5, <1>6 DEF ImagesMove, Still, SavesImage, Starts

(* What a call captures when it is prepared. *)
LEMMA PreparesCaptured ==
    ASSUME TypeOK, RequestInv, NEW t \in Threads, Prepares(t)
    PROVE  /\ plan'[t].boot \in LiveBoots'
           /\ plan'[t].storeRev = store'.revision => AttemptTableAccepts(plan[t].attempt)'
           /\ plan'[t].event \in CommitEvents =>
                  /\ Tight(plan'[t].draft.needs, plan'[t].draft.bind)
                  /\ Resolves(plan'[t].draft, plan'[t].view)
                  /\ plan'[t].regRev <= registry'.rev
                  /\ plan'[t].regRev = registry'.rev =>
                         \A x \in RegistryDeps : plan'[t].view[x] = registry'.gen[x]
                  /\ \A x \in EvidenceDeps : plan'[t].view[x] = seen'[t].gen[x]
<1>1. PICK event \in CommitEvents \cup TransitionEvents, d \in Draft, a \in Attempts,
           p \in Publishers, b \in Boots :
        /\ plan'[t] = MakePlan(t, event, d, a, b)
        /\ AttemptTableAccepts(a) /\ publishers[p].boot = b
        /\ event \in CommitEvents =>
               /\ Resolves(d, CapturedView(t))
               /\ Tight(d.needs, d.bind) \/ (request[t] # None /\ d = request[t])
  BY DEF Prepares
<1>2. /\ plan'[t].boot = b /\ plan'[t].attempt = a /\ plan'[t].event = event
      /\ plan'[t].draft = d /\ plan'[t].view = CapturedView(t) /\ plan'[t].regRev = registry.rev
  BY <1>1 DEF MakePlan
<1>3. UNCHANGED <<store, evidence, registry, publishers, fencedBoots>> /\ seen'[t] = seen[t]
  BY DEF Prepares
<1>4. b \in LiveBoots'
  <2>1. LiveBoots' = LiveBoots  BY <1>3 DEF LiveBoots
  <2>. QED  BY <1>1, <2>1 DEF LiveBoots
<1>5. AttemptTableAccepts(plan[t].attempt)'  BY <1>1, <1>2, <1>3 DEF AttemptTableAccepts
<1>6. event \in CommitEvents => Tight(d.needs, d.bind)
  BY <1>1 DEF RequestInv
<1>7. /\ \A x \in RegistryDeps : CapturedView(t)[x] = registry.gen[x]
      /\ \A x \in EvidenceDeps : CapturedView(t)[x] = seen[t].gen[x]
  BY ConstantsAssumption DEF CapturedView, Deps
<1>8. registry.rev \in Nat  BY DEF TypeOK
<1>. QED  BY <1>1, <1>2, <1>3, <1>4, <1>5, <1>6, <1>7, <1>8

(* What a call has captured stays true of it. *)
LEMMA CapturedStep ==
    ASSUME ImageInv, [Next]_vars
    PROVE  CapturedInv'
<1>0. IInv /\ IInv' /\ TypeOK /\ TypeOK'
  <2>1. IInv  BY DEF ImageInv, DiskInv
  <2>2. IInv'  BY <2>1, NextStep
  <2>. QED  BY <2>1, <2>2 DEF IInv
<1>. SUFFICES ASSUME NEW t \in Threads, pc'[t] = "prepared"
              PROVE  /\ plan'[t].boot \in LiveBoots'
                     /\ plan'[t].storeRev = store'.revision => AttemptTableAccepts(plan[t].attempt)'
                     /\ plan'[t].event \in CommitEvents =>
                            /\ Tight(plan'[t].draft.needs, plan'[t].draft.bind)
                            /\ Resolves(plan'[t].draft, plan'[t].view)
                            /\ plan'[t].regRev <= registry'.rev
                            /\ plan'[t].regRev = registry'.rev =>
                                   \A x \in RegistryDeps : plan'[t].view[x] = registry'.gen[x]
                            /\ \A x \in EvidenceDeps : plan'[t].view[x] = seen'[t].gen[x]
  BY DEF CapturedInv, Tight, Resolves
<1>1. ThreadMoves(t)  BY <1>0, ThreadStep
<1>2. CASE Keeps(t)
  <2>1. pc[t] = "prepared" /\ plan'[t] = plan[t] /\ seen'[t] = seen[t]  BY <1>2 DEF Keeps
  <2>2. TablesGrow /\ (store' = store \/ store'.revision > store.revision)
    BY <1>0, <2>1, PreparedStays
  <2>3. plan[t] \in Plan /\ plan[t].storeRev <= store.revision  BY <1>0, <2>1 DEF IInv, PlanInv
  <2>4. plan'[t].boot \in LiveBoots'
    <3>1. plan[t].boot \in Boots /\ plan[t].boot \in LiveBoots
      BY <2>1, <2>3 DEF ImageInv, CapturedInv, Plan
    <3>. QED  BY <2>1, <2>2, <3>1, ConstantsAssumption DEF TablesGrow
  <2>5. plan'[t].storeRev = store'.revision => AttemptTableAccepts(plan[t].attempt)'
    <3>1. store.revision \in Nat /\ plan[t].storeRev \in Nat /\ store'.revision \in Nat
      BY <1>0, <2>3 DEF TypeOK, Image, Plan
    <3>2. plan[t].storeRev = store'.revision => store' = store  BY <2>2, <2>3, <3>1
    <3>3. plan[t].storeRev = store.revision => AttemptTableAccepts(plan[t].attempt)
      BY <2>1 DEF ImageInv, CapturedInv
    <3>. QED  BY <2>1, <3>2, <3>3 DEF AttemptTableAccepts
  <2>6. /\ plan[t].regRev \in Nat /\ registry.rev \in Nat /\ registry'.rev \in Nat
    BY <1>0, <2>3 DEF TypeOK, Plan
  <2>. QED  BY <2>1, <2>2, <2>4, <2>5, <2>6 DEF ImageInv, CapturedInv, TablesGrow
<1>3. CASE Prepares(t)  BY <1>0, <1>3, PreparesCaptured DEF ImageInv
<1>. QED  BY <1>1, <1>2, <1>3 DEF ThreadMoves, Returns, Saves, Reads

(* The draft of a revalidation gives a generation only for what the list   *)
(* it is built from refers to.                                             *)
LEMMA RequestStep ==
    ASSUME ImageInv, [Next]_vars
    PROVE  RequestInv'
<1>0. IInv  BY DEF ImageInv, DiskInv
<1>. SUFFICES ASSUME NEW t \in Threads, request'[t] # None
              PROVE  Tight(request'[t].needs, request'[t].bind)
  BY DEF RequestInv, Tight
<1>1. ThreadMoves(t)  BY <1>0, ThreadStep
<1>2. CASE request'[t] = request[t]  BY <1>2 DEF ImageInv, RequestInv
<1>3. CASE \E id \in Lists :
             /\ request'[t].needs = store.lists[id].needs
             /\ request'[t].bind = [x \in Deps |-> IF x \in PinnedDeps
                                                  THEN store.lists[id].bound[x] ELSE 0]
  <2>1. PICK id \in Lists :
             /\ request'[t].needs = store.lists[id].needs
             /\ request'[t].bind = [x \in Deps |-> IF x \in PinnedDeps
                                                  THEN store.lists[id].bound[x] ELSE 0]
    BY <1>3
  <2>2. Tight(store.lists[id].needs, store.lists[id].bound)
    BY DEF ImageInv, ImagesInv, ImageOk
  <2>. QED  BY <2>1, <2>2 DEF Tight
<1>. QED  BY <1>1, <1>2, <1>3 DEF ThreadMoves, Keeps, Returns, Saves, Reads, Prepares

(* The empty image. *)
LEMMA InitImageOk ==
    /\ ImageOk(InitImage) /\ ImageOk(NoImage)
    /\ BootsOf(InitImage) \subseteq {None}
<1>1. ASSUME NEW i, i.lists = [l \in Lists |-> NoList], i.attempts = [a \in Attempts |-> None],
             i.history = <<>>, i.regs = [d \in RegistryDeps |-> 0]
      PROVE  ImageOk(i)
  <2>1. \A l \in Lists : i.lists[l] = NoList  BY <1>1
  <2>2. NoList.gen = 0 /\ NoList.needs = {} /\ NoList.bound = [d \in Deps |-> 0]  BY DEF NoList
  <2>3. WritersKnown(i)  BY <2>1, <2>2 DEF WritersKnown
  <2>4. BoundRegistered(i)  BY <1>1, <2>1, <2>2 DEF BoundRegistered, Deps
  <2>5. Gapless(i.history)  BY <1>1, ConstantsAssumption DEF Gapless
  <2>6. TableBounded(i)
    <3>1. UsedIn(i) = {}  BY <1>1 DEF UsedIn
    <3>. QED  BY <3>1, FS_EmptySet, ConstantsAssumption DEF TableBounded
  <2>7. \A l \in Lists : Tight(i.lists[l].needs, i.lists[l].bound)  BY <2>1, <2>2 DEF Tight
  <2>. QED  BY <2>3, <2>4, <2>5, <2>6, <2>7 DEF ImageOk
<1>2. /\ InitImage.lists = [l \in Lists |-> NoList] /\ NoImage.lists = [l \in Lists |-> NoList]
      /\ InitImage.attempts = [a \in Attempts |-> None]
      /\ NoImage.attempts = [a \in Attempts |-> None]
      /\ InitImage.history = <<>> /\ NoImage.history = <<>>
      /\ InitImage.regs = [d \in RegistryDeps |-> 0] /\ NoImage.regs = [d \in RegistryDeps |-> 0]
  BY DEF InitImage, NoImage
<1>3. BootsOf(InitImage) \subseteq {None}  BY DEF BootsOf, InitImage
<1>4. ImageOk(InitImage)  BY <1>1, <1>2
<1>5. ImageOk(NoImage)  BY <1>1, <1>2
<1>. QED  BY <1>3, <1>4, <1>5

(* What load() builds from the state file. *)
LEMMA LoadFields ==
    ASSUME IInv, Load
    PROVE  /\ disk' \in {store', disk}
           /\ store'.attempts = disk.attempts /\ store'.history = disk.history
           /\ store'.regs = disk.regs /\ registry'.gen = disk.regs
           /\ store'.pubs = publishers' /\ store'.fenced = fencedBoots'
           /\ store'.epoch = epoch' /\ epoch' = disk.epoch + 1
           /\ \A l \in Lists : store'.lists[l] = Recovered(disk.lists[l])
           /\ \A p \in Publishers : publishers'[p].boot = disk.pubs[p].boot
           /\ fencedBoots' = disk.fenced \cup ({disk.pubs[p].boot : p \in Publishers} \ {None})
<1>. DEFINE lists == [l \in Lists |-> Recovered(disk.lists[l])]
            e == disk.epoch + 1
            rev == store.revision + disk.revision + 1
            image == [disk EXCEPT !.lists = lists, !.pubs = publishers', !.fenced = fencedBoots',
                                  !.epoch = e, !.revision = rev]
<1>1. disk \in Image /\ disk.pubs \in [Publishers -> Publisher]  BY DEF IInv, TypeOK, Image
<1>2. /\ store' = image /\ disk' \in {image, disk} /\ epoch' = e
      /\ publishers' = [p \in Publishers |-> [disk.pubs[p] EXCEPT !.alive = FALSE]]
      /\ registry' = [rev |-> 0, gen |-> disk.regs]
      /\ fencedBoots' = disk.fenced \cup ({disk.pubs[p].boot : p \in Publishers} \ {None})
  BY DEF Load
<1>3. \A p \in Publishers : publishers'[p].boot = disk.pubs[p].boot  BY <1>1, <1>2 DEF Publisher
<1>4. \A l \in Lists : lists[l] = Recovered(disk.lists[l])  OBVIOUS
<1>. HIDE DEF lists, e, rev
<1>5. /\ image.attempts = disk.attempts /\ image.history = disk.history
      /\ image.regs = disk.regs /\ image.pubs = publishers' /\ image.fenced = fencedBoots'
      /\ image.epoch = e /\ image.lists = lists
  BY <1>1 DEF Image
<1>. HIDE DEF image
<1>. QED  BY <1>2, <1>3, <1>4, <1>5 DEF e

(* A recovered image is as good as the one in the file, and every boot it  *)
(* names is fenced.                                                        *)
LEMMA LoadOk ==
    ASSUME IInv, ImageOk(disk), Load
    PROVE  /\ ImageOk(store') /\ BehindNext(store') /\ ImageOk(disk')
           /\ \A l \in Lists : store'.lists[l].gen # 0 => store'.lists[l].boot \in fencedBoots'
<1>1. /\ disk.lists \in [Lists -> List] /\ disk.regs \in [RegistryDeps -> Nat]
  BY DEF IInv, TypeOK, Image
<1>2. \A l \in Lists : SameBinding(disk.lists[l], store'.lists[l])
  BY <1>1, LoadFields, RecoveredBinding
<1>3. BootsOf(disk) \ {None} \subseteq fencedBoots'  BY LoadFields DEF BootsOf
<1>4. BootsOf(store') = LiveBoots'  BY LoadFields DEF BootsOf, LiveBoots
<1>5. ASSUME NEW l \in Lists, store'.lists[l].gen # 0
      PROVE  store'.lists[l].boot \in fencedBoots' /\ store'.lists[l].boot # None
  BY <1>2, <1>3, <1>5 DEF ImageOk, WritersKnown, SameBinding
<1>6. WritersKnown(store')  BY <1>4, <1>5 DEF WritersKnown, LiveBoots
<1>7. BoundRegistered(store')  BY <1>2, LoadFields DEF ImageOk, BoundRegistered, SameBinding
<1>8. Gapless(store'.history)  BY LoadFields DEF ImageOk
<1>9. TableBounded(store')  BY LoadFields DEF ImageOk, TableBounded, UsedIn
<1>10. \A l \in Lists : Tight(store'.lists[l].needs, store'.lists[l].bound)
  BY <1>2 DEF ImageOk, SameBinding
<1>11. ImageOk(store')  BY <1>6, <1>7, <1>8, <1>9, <1>10 DEF ImageOk
<1>12. BehindNext(store')  BY <1>1, <1>4, LoadFields DEF BehindNext
<1>13. ImageOk(disk')
  <2>1. disk' = store' \/ disk' = disk  BY LoadFields
  <2>. QED  BY <1>11, <2>1
<1>. QED  BY <1>5, <1>11, <1>12, <1>13

(* Every image stays good. *)
LEMMA ImagesStep ==
    ASSUME ImageInv, [Next]_vars
    PROVE  /\ ImageOk(disk') /\ ImageOk(store') /\ BehindNext(store')
           /\ lock' # None => ImageOk(pending') /\ BehindNext(pending')
<1>0. IInv /\ IInv' /\ TypeOK /\ TypeOK'
  <2>1. IInv  BY DEF ImageInv, DiskInv
  <2>2. IInv'  BY <2>1, NextStep
  <2>. QED  BY <2>1, <2>2 DEF IInv
<1>1. /\ ImageOk(disk) /\ ImageOk(store) /\ Behind(store)
      /\ lock # None => ImageOk(pending) /\ Behind(pending)
      /\ CapturedInv /\ EvidenceInv
  BY DEF ImageInv, ImagesInv
<1>2. store \in Image /\ (lock # None => pending \in Image)  BY <1>0 DEF TypeOK, IInv, LockInv
<1>3. CASE Crash
  <2>1. BehindNext(InitImage)
    <3>1. registry'.gen = InitImage.regs  BY <1>3 DEF Crash
    <3>2. InitImage.regs \in [RegistryDeps -> Nat]  BY InitImageType DEF Image
    <3>. QED  BY <3>1, <3>2, InitImageOk DEF BehindNext
  <2>. QED  BY <1>1, <1>3, <2>1, InitImageOk DEF Crash
<1>4. CASE Load
  <2>1. lock' = None  BY <1>0, <1>4 DEF Load, IInv, LockInv
  <2>. QED  BY <1>0, <1>1, <1>4, <2>1, LoadOk
<1>5. CASE ~ Crash /\ ~ Load
  <2>1. TablesGrow  BY <1>0, <1>5, TablesStep
  <2>2. BehindNext(store) /\ (lock # None => BehindNext(pending))
    BY <1>0, <1>1, <1>2, <2>1, BehindStays
  <2>3. ImagesMove  BY <1>0, ImageStep
  <2>4. CASE Still  BY <1>1, <2>2, <2>4 DEF Still
  <2>5. CASE SavesImage
    <3>1. ASSUME NEW i, Made(i) PROVE ImageOk(i) /\ BehindNext(i)
      <4>1. CASE FromTables(i)  BY <1>0, <1>1, <2>1, <4>1, FromTablesOk
      <4>2. CASE FromRefresh(i)  BY <1>0, <1>1, <2>1, <4>2, FromRefreshOk
      <4>3. CASE \E t \in Threads : FromPlan(t, i)
        <5>1. PICK t \in Threads : FromPlan(t, i)  BY <4>3
        <5>2. i = disk'  BY <5>1 DEF FromPlan
        <5>3. UNCHANGED <<registry, publishers, fencedBoots>>  BY <2>5 DEF SavesImage, authority
        <5>. QED  BY <1>0, <1>1, <5>1, <5>2, <5>3, FromPlanOk
      <4>. QED  BY <3>1, <4>1, <4>2, <4>3 DEF Made
    <3>2. store' = store /\ Made(disk') /\ Made(pending')  BY <2>5 DEF SavesImage
    <3>. QED  BY <1>1, <2>2, <3>1, <3>2
  <2>6. CASE \E t \in Threads : Swap(t)
    <3>1. PICK t \in Threads : Swap(t)  BY <2>6
    <3>2. lock # None  BY <1>0, <3>1, ConstantsAssumption DEF Swap, At, IInv, LockInv
    <3>. QED  BY <1>1, <2>2, <3>1, <3>2 DEF Swap
  <2>7. CASE Starts
    <3>1. FromTables(disk') /\ FromTables(store') /\ lock' = None
      BY <1>0, <2>7 DEF Starts, IInv, LockInv
    <3>. QED  BY <1>0, <1>1, <2>1, <3>1, FromTablesOk
  <2>. QED  BY <1>5, <2>3, <2>4, <2>5, <2>6, <2>7 DEF ImagesMove
<1>. QED  BY <1>3, <1>4, <1>5

(* The invariant is inductive. *)
LEMMA ImageInvStep == ImageInv /\ [Next]_vars => ImageInv'
<1>. SUFFICES ASSUME ImageInv, [Next]_vars PROVE ImageInv'  OBVIOUS
<1>1. DiskInv'  BY WellFormedStep DEF ImageInv
<1>2. EvidenceInv'  BY WatermarkStep DEF ImageInv, DiskInv
<1>3. CapturedInv' /\ RequestInv'  BY CapturedStep, RequestStep
<1>4. ImagesInv'
  BY ImagesStep DEF ImagesInv, ImageOk, Behind, BehindNext, WritersKnown, BoundRegistered, Gapless,
                    TableBounded, UsedIn, Tight, BootsOf
<1>. QED  BY <1>1, <1>2, <1>3, <1>4 DEF ImageInv

(* In every state of every behaviour the images are closed under what      *)
(* their lists refer to, the histories are gapless, the replay tables      *)
(* bounded, and what a prepared call has captured is true of it.           *)
THEOREM ImageInvariance == Spec => []ImageInv
<1>1. Init => ImageInv
  <2>. SUFFICES ASSUME Init PROVE ImageInv  OBVIOUS
  <2>1. IInv  BY InitInv
  <2>2. DiskInv
    <3>1. \A l \in Lists : disk.lists[l] = NoList  BY DEF Init, NoImage, InitImage
    <3>2. WellFormed(NoList)  BY DEF WellFormed, NoList
    <3>. QED  BY <2>1, <3>1, <3>2 DEF DiskInv
  <2>3. Behind(InitImage)
    <3>1. registry.gen = [d \in RegistryDeps |-> 0] /\ InitImage.regs = [d \in RegistryDeps |-> 0]
      BY DEF Init, InitImage
    <3>. QED  BY <3>1, InitImageOk DEF Behind
  <2>4. ImagesInv  BY <2>3, InitImageOk DEF Init, ImagesInv
  <2>5. CapturedInv /\ EvidenceInv /\ RequestInv  BY DEF Init, CapturedInv, EvidenceInv, RequestInv
  <2>. QED  BY <2>2, <2>4, <2>5 DEF ImageInv
<1>. QED  BY <1>1, ImageInvStep, PTL DEF Spec

(* The history is a gapless suffix of what was ever appended, also when it *)
(* is full and across restarts, for every bound on its length.             *)
THEOREM HistoryKeepsSuffix == Spec => []HistoryIsSuffix
<1>1. ImageInv => HistoryIsSuffix  BY DEF ImageInv, ImagesInv, ImageOk, Gapless, HistoryIsSuffix
<1>. QED  BY <1>1, ImageInvariance, PTL

(* The replay table never outgrows its limit: the room that phase B found  *)
(* is still there when phase E adds the record.                            *)
THEOREM ReplayTableStaysBounded == Spec => []ReplayTableIsBounded
<1>1. ImageInv => ReplayTableIsBounded
  BY DEF ImageInv, ImagesInv, ImageOk, TableBounded, UsedIn, ReplayTableIsBounded
<1>. QED  BY <1>1, ImageInvariance, PTL

(* Every profile and policy generation a saved list is bound to is saved   *)
(* with it, although the registry has a lock and a save of its own.        *)
THEOREM RegistryIsClosed == Spec => []BoundRegistryIsDurable
<1>1. ImageInv => BoundRegistryIsDurable
  BY DEF ImageInv, ImagesInv, ImageOk, BoundRegistered, BoundRegistryIsDurable
<1>. QED  BY <1>1, ImageInvariance, PTL

(* Recovery fences every writer of what it recovers, and nothing until the *)
(* coordinator serves brings one back.                                     *)
LEMMA FencedStep ==
    ASSUME ImageInv, WritersFencedOnRecovery, [Next]_vars
    PROVE  WritersFencedOnRecovery'
<1>. SUFFICES ASSUME phase' = "loaded"
              PROVE  \A l \in Lists :
                         store'.lists[l].gen # 0 => store'.lists[l].boot \in fencedBoots'
  BY DEF WritersFencedOnRecovery
<1>0. IInv  BY DEF ImageInv, DiskInv
<1>1. ImagesMove  BY <1>0, ImageStep
<1>2. CASE Load  BY <1>0, <1>2, LoadOk DEF ImageInv, ImagesInv
<1>3. CASE Still /\ ~ LoadNothing /\ ~ Load
  <2>1. store' = store /\ phase = "loaded"  BY <1>3 DEF Still
  <2>2. ~ Crash  BY DEF Crash
  <2>3. TablesGrow  BY <1>0, <1>3, <2>2, TablesStep
  <2>. QED  BY <2>1, <2>3 DEF TablesGrow, WritersFencedOnRecovery
<1>4. CASE LoadNothing
  <2>1. store' = InitImage  BY <1>0, <1>4 DEF LoadNothing, IInv, DurableInv
  <2>. QED  BY <2>1 DEF InitImage, NoList
<1>5. CASE Starts
  BY <1>5 DEF Starts, FromTables, WritersFencedOnRecovery
<1>6. CASE SavesImage \/ (\E t \in Threads : Swap(t)) \/ Crash
  BY <1>6 DEF SavesImage, Swap, At, Crash
<1>. QED  BY <1>1, <1>2, <1>3, <1>4, <1>5, <1>6 DEF ImagesMove

(* No writer of a recovered list is alive before the coordinator serves:   *)
(* the authority table that is saved with the lists names every one.       *)
THEOREM RecoveryFencesWriters == Spec => []WritersFencedOnRecovery
<1>1. Init => WritersFencedOnRecovery  BY DEF Init, WritersFencedOnRecovery
<1>2. ImageInv /\ WritersFencedOnRecovery /\ [Next]_vars => WritersFencedOnRecovery'
  BY FencedStep
<1>. QED  BY <1>1, <1>2, ImageInvariance, PTL DEF Spec
--------------------------------------------------------------------------------
(* What a commit has found out when it saves. *)

(* Only a prepared call that passes phase E gives a list a new generation: *)
(* nothing that recovery, a refresh, a registration or a start writes      *)
(* does.                                                                   *)
LEMMA CommitIsPlanned ==
    ASSUME ImageInv, [Next]_vars, NEW l \in Lists, Commits(l)
    PROVE  \E t \in Threads : /\ pc[t] = "prepared" /\ Verified(t) /\ CommitsPlan(t)
                              /\ plan[t].draft.id = l
<1>0. IInv /\ \A k \in Lists : disk.lists[k] \in List /\ store.lists[k] \in List
  BY DEF ImageInv, DiskInv, IInv, TypeOK, Image
<1>1. ImagesMove  BY <1>0, ImageStep
<1>2. ~ Still /\ ~ Crash /\ ~ \E t \in Threads : Swap(t)
  BY DEF Still, Crash, Swap, Commits
<1>3. ~ Load
  <2>1. Load => disk' = disk \/ disk'.lists[l] = Recovered(disk.lists[l])  BY <1>0, LoadFields
  <2>2. Recovered(disk.lists[l]).gen = disk.lists[l].gen
    BY <1>0, RecoveredBinding DEF SameBinding
  <2>. QED  BY <2>1, <2>2 DEF Commits
<1>4. ~ Starts
  <2>1. Starts => disk'.lists = store.lists /\ phase = "loaded"  BY DEF Starts, FromTables
  <2>2. phase = "loaded" => store.lists[l] \in {disk.lists[l], Recovered(disk.lists[l])}
    BY <1>0 DEF IInv, DurableInv
  <2>3. Recovered(disk.lists[l]).gen = disk.lists[l].gen
    BY <1>0, RecoveredBinding DEF SameBinding
  <2>. QED  BY <2>1, <2>2, <2>3 DEF Commits
<1>5. SavesImage  BY <1>1, <1>2, <1>3, <1>4 DEF ImagesMove
<1>6. store.lists = disk.lists /\ Made(disk')  BY <1>0, <1>5 DEF SavesImage, IInv, DurableInv
<1>7. ~ FromTables(disk')  BY <1>6 DEF FromTables, Commits
<1>8. ~ FromRefresh(disk')
  <2>. SUFFICES ASSUME FromRefresh(disk') PROVE FALSE  OBVIOUS
  <2>1. PICK view, e : disk'.lists = [k \in Lists |-> Refreshed(store.lists[k], view, e)]
    BY DEF FromRefresh
  <2>2. disk'.lists[l].gen = store.lists[l].gen
    BY <1>0, <2>1, RefreshedBinding DEF SameBinding
  <2>. QED  BY <1>6, <2>2 DEF Commits
<1>9. PICK t \in Threads : FromPlan(t, disk')  BY <1>6, <1>7, <1>8 DEF Made
<1>10. Gapless(store.history)  BY DEF ImageInv, ImagesInv, ImageOk
<1>11. ~ TransitionsPlan(t)
  <2>1. TransitionsPlan(t) => disk'.lists[l].gen = store.lists[l].gen
    BY <1>0, <1>10, TransitionFields
  <2>. QED  BY <1>6, <2>1 DEF Commits
<1>12. pc[t] = "prepared" /\ Verified(t) /\ CommitsPlan(t)  BY <1>9, <1>11 DEF FromPlan
<1>13. plan[t].draft.id = l
  <2>1. plan[t].draft.id # l => disk'.lists[l].gen = store.lists[l].gen
    BY <1>0, <1>12, CommitFields DEF SameBinding
  <2>. QED  BY <1>6, <2>1 DEF Commits
<1>. QED  BY <1>12, <1>13

(* A new generation that a single call saves is bound to what is in force. *)
LEMMA FreshStep ==
    ASSUME ImageInv, [Next]_vars, NEW l \in Lists, Commits(l)
    PROVE  /\ disk'.lists[l].epoch = epoch
           /\ \A x \in Deps : x \in disk'.lists[l].needs \/ disk'.lists[l].bound[x] # 0
                                  => disk'.lists[l].bound[x] = CurrentView[x]
<1>0. IInv /\ TypeOK /\ CapturedInv /\ EvidenceInv  BY DEF ImageInv, DiskInv, IInv
<1>1. PICK t \in Threads : /\ pc[t] = "prepared" /\ Verified(t) /\ CommitsPlan(t)
                           /\ plan[t].draft.id = l
  BY CommitIsPlanned
<1>2. plan[t] \in Plan /\ plan[t].event \in CommitEvents  BY <1>1 DEF CommitsPlan, SavesPlan
<1>3. plan[t].draft \in Draft /\ plan[t].view \in View  BY <1>2 DEF Plan
<1>4. /\ disk'.lists[l].needs = plan[t].draft.needs /\ disk'.lists[l].epoch = plan[t].epoch
      /\ disk'.lists[l].bound = Bind(plan[t].draft, plan[t].view)
  <2>1. disk'.lists[l] = MakeList(plan[t])  BY <1>0, <1>1, CommitFields
  <2>. QED  BY <2>1, MakeListFields
<1>5. Resolves(plan[t].draft, plan[t].view) /\ Tight(plan[t].draft.needs, plan[t].draft.bind)
  BY <1>0, <1>1, <1>2 DEF CapturedInv
<1>6. \A x \in Deps : plan[t].view[x] = CurrentView[x]
  BY <1>0, <1>1, <1>2, VerifiedIsCurrent
<1>7. plan[t].epoch = epoch  BY <1>1 DEF Verified
<1>. QED  BY <1>3, <1>4, <1>5, <1>6, <1>7, BindResolves

(* The stale-completion defence: whatever moved while a draft was          *)
(* validated outside the lock, what is saved is bound to the evidence, the *)
(* profiles, the policies and the epoch in force when it is.               *)
THEOREM CommitsAreFresh == Spec => CommittedIsFresh
<1>1. ImageInv /\ [Next]_vars =>
        \A l \in Lists : Commits(l) =>
          LET new == disk'.lists[l]
          IN  /\ new.epoch = epoch
              /\ \A x \in Deps : x \in new.needs \/ new.bound[x] # 0
                                     => new.bound[x] = CurrentView[x]
  BY FreshStep
<1>. QED  BY <1>1, ImageInvariance, PTL DEF Spec, CommittedIsFresh

(* Replacement preserves lineage: the revision that is replaced is in the  *)
(* history of the same image, whatever else that history had to drop.      *)
THEOREM ReplacementIsRecorded == Spec => ReplacedIsRecorded
<1>1. ImageInv /\ [Next]_vars =>
        \A l \in Lists :
          Commits(l) /\ disk.lists[l].gen # 0 /\ MaxHistory > 1 =>
              \E i \in 1 .. Len(disk'.history) :
                  /\ disk'.history[i].list = l
                  /\ disk'.history[i].gen = disk.lists[l].gen
                  /\ disk'.history[i].state = "Superseded"
  <2>. SUFFICES ASSUME ImageInv, [Next]_vars, NEW l \in Lists, Commits(l),
                       disk.lists[l].gen # 0, MaxHistory > 1
                PROVE  \E i \in 1 .. Len(disk'.history) :
                           /\ disk'.history[i].list = l
                           /\ disk'.history[i].gen = disk.lists[l].gen
                           /\ disk'.history[i].state = "Superseded"
    OBVIOUS
  <2>1. PICK t \in Threads : /\ pc[t] = "prepared" /\ Verified(t) /\ CommitsPlan(t)
                             /\ plan[t].draft.id = l
    BY CommitIsPlanned
  <2>2. store.lists = disk.lists  BY <2>1 DEF CommitsPlan, SavesPlan
  <2>3. IInv /\ Gapless(store.history)  BY DEF ImageInv, DiskInv, ImagesInv, ImageOk
  <2>. QED  BY <2>1, <2>2, <2>3, CommitHistory
<1>. QED  BY <1>1, ImageInvariance, PTL DEF Spec, ReplacedIsRecorded
--------------------------------------------------------------------------------
(* Restarts and epochs. *)

(* The epoch of a saved image is that of the image it is made from, or the *)
(* one in force.                                                           *)
LEMMA MadeEpoch ==
    ASSUME ImageInv, UNCHANGED epoch, NEW i, Made(i)
    PROVE  i.epoch \in {store.epoch, epoch}
<1>1. CASE FromTables(i)  BY <1>1 DEF FromTables
<1>2. CASE FromRefresh(i)  BY <1>2 DEF FromRefresh
<1>3. CASE \E t \in Threads : FromPlan(t, i)
  <2>1. PICK t \in Threads : FromPlan(t, i)  BY <1>3
  <2>2. IInv /\ Gapless(store.history)  BY DEF ImageInv, DiskInv, ImagesInv, ImageOk
  <2>3. i = disk' /\ (CommitsPlan(t) \/ TransitionsPlan(t)) /\ plan[t].epoch = epoch
    BY <2>1 DEF FromPlan, Verified
  <2>4. disk'.epoch = plan[t].epoch  BY <2>2, <2>3, CommitFields, TransitionFields
  <2>. QED  BY <2>3, <2>4
<1>. QED  BY <1>1, <1>2, <1>3 DEF Made

(* Unless the embedding program advances the epoch in service, no image is *)
(* behind the epochs that were served.                                     *)
LEMMA EpochStep == ImageInv /\ EpochInv /\ [Next]_vars => EpochInv'
<1>. SUFFICES ASSUME ImageInv, EpochInv, [Next]_vars, ~ EpochAdvances
              PROVE  /\ served' <= disk'.epoch
                     /\ phase' # "down" => served' <= store'.epoch /\ served' <= epoch'
                     /\ lock' # None => served' <= pending'.epoch
                     /\ phase' = "serving" => served' = epoch'
  BY DEF EpochInv
<1>0. IInv /\ IInv'
  <2>1. IInv  BY DEF ImageInv, DiskInv
  <2>. QED  BY <2>1, NextStep
<1>1. /\ served \in Nat /\ epoch \in Nat /\ store.epoch \in Nat /\ disk.epoch \in Nat
      /\ served' \in Nat /\ epoch' \in Nat /\ store'.epoch \in Nat /\ disk'.epoch \in Nat
  BY <1>0 DEF IInv, TypeOK, Image
<1>2. ImagesMove  BY <1>0, ImageStep
<1>3. /\ served <= disk.epoch
      /\ phase # "down" => served <= store.epoch /\ served <= epoch
      /\ lock # None => served <= pending.epoch
      /\ phase = "serving" => served = epoch
  BY DEF EpochInv
<1>4. CASE Still /\ phase' = phase  BY <1>3, <1>4 DEF Still
<1>5. CASE LoadNothing
  <2>1. disk.epoch = 0  BY <1>5 DEF LoadNothing, NoImage, InitImage
  <2>2. served = 0  BY <1>1, <1>3, <2>1
  <2>3. served' = served /\ lock' = None /\ phase' = "loaded"
    BY <1>0, <1>5 DEF LoadNothing, ghosts, IInv, LockInv
  <2>. QED  BY <1>1, <2>2, <2>3
<1>6. CASE SavesImage
  <2>1. /\ phase = "serving" /\ UNCHANGED <<phase, store, epoch, served>>
        /\ Made(disk') /\ Made(pending')
    BY <1>6 DEF SavesImage, authority
  <2>2. disk'.epoch \in {store.epoch, epoch} /\ pending'.epoch \in {store.epoch, epoch}
    BY <2>1, MadeEpoch
  <2>. QED  BY <1>1, <1>3, <2>1, <2>2
<1>7. CASE \E t \in Threads : Swap(t)
  <2>1. PICK t \in Threads : Swap(t)  BY <1>7
  <2>2. lock # None  BY <1>0, <2>1, ConstantsAssumption DEF Swap, At, IInv, LockInv
  <2>3. /\ phase = "serving" /\ store' = pending /\ lock' = None
        /\ UNCHANGED <<phase, disk, epoch, served>>
    BY <2>1 DEF Swap, At, authority
  <2>. QED  BY <1>3, <2>2, <2>3
<1>8. CASE Crash  BY <1>3, <1>8 DEF Crash, ghosts
<1>9. CASE Load
  <2>1. served' = served /\ lock' = None /\ phase' = "loaded"
    BY <1>0, <1>9 DEF Load, IInv, LockInv
  <2>2. store'.epoch = epoch' /\ epoch' = disk.epoch + 1 /\ disk' \in {store', disk}
    BY <1>0, <1>9, LoadFields
  <2>. QED  BY <1>1, <1>3, <2>1, <2>2
<1>10. CASE Starts
  <2>1. lock' = None  BY <1>0, <1>10 DEF Starts, IInv, LockInv
  <2>. QED  BY <1>1, <1>3, <1>10, <2>1 DEF Starts
<1>. QED  BY <1>2, <1>4, <1>5, <1>6, <1>7, <1>8, <1>9, <1>10 DEF ImagesMove, Still

(* No image is ever behind the epochs that were served.                    *)
THEOREM EpochInvariance == Spec => []EpochInv
<1>1. Init => EpochInv
  <2>. SUFFICES ASSUME Init PROVE EpochInv  OBVIOUS
  <2>1. /\ served = 0 /\ disk.epoch = 0 /\ phase = "down" /\ lock = None
    BY DEF Init, NoImage, InitImage
  <2>. QED  BY <2>1 DEF EpochInv
<1>. QED  BY <1>1, EpochStep, ImageInvariance, PTL DEF Spec

(* A coordinator starts to serve under an epoch that was not served. *)
LEMMA ServedStep ==
    ASSUME ImageInv, EpochInv, ~ EpochAdvances, [Next]_vars, phase = "loaded", phase' = "serving"
    PROVE  epoch' > served
<1>0. IInv  BY DEF ImageInv, DiskInv
<1>1. served \in Nat /\ epoch \in Nat  BY <1>0 DEF IInv, TypeOK
<1>2. ImagesMove  BY <1>0, ImageStep
<1>3. Starts
  BY <1>2 DEF ImagesMove, Still, LoadNothing, SavesImage, Swap, At, Crash, Load
<1>4. served <= epoch /\ epoch' = epoch + 1  BY <1>3 DEF EpochInv, Starts
<1>. QED  BY <1>1, <1>4

(* The epoch is durable before it is served: unless the embedding program  *)
(* advances it in service (the coordinator does not), no two incarnations  *)
(* serve under the same epoch.                                             *)
THEOREM EpochsAreFresh ==
    ASSUME ~ EpochAdvances
    PROVE  Spec => EpochNeverReused
<1>1. ImageInv /\ EpochInv /\ [Next]_vars =>
          (phase = "loaded" /\ phase' = "serving" => epoch' > served)
  BY ServedStep
<1>. QED  BY <1>1, ImageInvariance, EpochInvariance, PTL DEF Spec, EpochNeverReused

(* What a save makes available was validated under the epoch in force, or  *)
(* was available before.                                                   *)
LEMMA MadeAvailable ==
    ASSUME ImageInv, UNCHANGED epoch, store.lists = disk.lists, NEW i, Made(i), NEW l \in Lists,
           Available(i.lists[l])
    PROVE  \/ i.lists[l].epoch = epoch
           \/ Available(store.lists[l]) /\ i.lists[l].epoch = store.lists[l].epoch
<1>0. /\ IInv /\ Gapless(store.history) /\ store.lists[l] \in List /\ WellFormed(store.lists[l])
  BY DEF ImageInv, DiskInv, ImagesInv, ImageOk, IInv, TypeOK, Image
<1>1. CASE FromTables(i)  BY <1>1 DEF FromTables
<1>2. CASE FromRefresh(i)
  <2>1. PICK view, e : i.lists = [k \in Lists |-> Refreshed(store.lists[k], view, e)]
    BY <1>2 DEF FromRefresh
  <2>2. i.lists[l] = Refreshed(store.lists[l], view, e)  BY <2>1
  <2>3. Weakens(store.lists[l], i.lists[l])  BY <1>0, <2>2, RefreshedWeakens
  <2>4. SameBinding(store.lists[l], i.lists[l])  BY <1>0, <2>2, RefreshedBinding
  <2>. QED  BY <2>3, <2>4 DEF Weakens, SameBinding
<1>3. CASE \E t \in Threads : FromPlan(t, i)
  <2>1. PICK t \in Threads : FromPlan(t, i)  BY <1>3
  <2>2. i = disk' /\ (CommitsPlan(t) \/ TransitionsPlan(t)) /\ plan[t].epoch = epoch
    BY <2>1 DEF FromPlan, Verified
  <2>3. CASE CommitsPlan(t)
    <3>1. CASE l = plan[t].draft.id
      <4>1. disk'.lists[l] = MakeList(plan[t])  BY <1>0, <2>3, <3>1, CommitFields
      <4>. QED  BY <2>2, <4>1, MakeListFields
    <3>2. CASE l # plan[t].draft.id
      <4>1. /\ SameBinding(store.lists[l], disk'.lists[l])
            /\ Available(disk'.lists[l]) => Available(store.lists[l])
        BY <1>0, <2>3, <3>2, CommitFields
      <4>. QED  BY <2>2, <4>1 DEF SameBinding
    <3>. QED  BY <3>1, <3>2
  <2>4. CASE TransitionsPlan(t)
    <3>1. /\ ~ Available(disk'.lists[plan[t].draft.id])
          /\ \A k \in Lists \ {plan[t].draft.id} : disk'.lists[k] = store.lists[k]
      BY <1>0, <2>4, TransitionFields
    <3>. QED  BY <2>2, <3>1
  <2>. QED  BY <2>2, <2>3, <2>4
<1>. QED  BY <1>1, <1>2, <1>3 DEF Made

(* What is available stays validated by this incarnation. *)
LEMMA AvailableStep == ImageInv /\ AvailableInv /\ [Next]_vars => AvailableInv'
<1>. SUFFICES ASSUME ImageInv, AvailableInv, [Next]_vars, NEW l \in Lists
              PROVE  /\ Available(store'.lists[l]) =>
                            phase' = "serving" /\ (~ EpochAdvances => store'.lists[l].epoch = epoch')
                     /\ lock' # None /\ Available(pending'.lists[l]) =>
                            (~ EpochAdvances => pending'.lists[l].epoch = epoch')
  BY DEF AvailableInv, Available
<1>0. IInv /\ \A k \in Lists : disk.lists[k] \in List /\ WellFormed(disk.lists[k])
  BY DEF ImageInv, DiskInv, IInv, TypeOK, Image
<1>1. ImagesMove  BY <1>0, ImageStep
<1>2. ~ Available(InitImage.lists[l])  BY DEF InitImage, NoList, Available
<1>3. CASE Still /\ phase' = phase  BY <1>3 DEF Still, AvailableInv
<1>4. CASE LoadNothing
  BY <1>0, <1>2, <1>4 DEF LoadNothing, IInv, DurableInv, LockInv
<1>5. CASE SavesImage
  <2>1. /\ phase = "serving" /\ UNCHANGED <<phase, store, epoch>> /\ Made(pending')
        /\ store.lists = disk.lists
    BY <1>0, <1>5 DEF SavesImage, authority, IInv, DurableInv
  <2>2. Available(pending'.lists[l]) =>
            \/ pending'.lists[l].epoch = epoch
            \/ Available(store.lists[l]) /\ pending'.lists[l].epoch = store.lists[l].epoch
    BY <2>1, MadeAvailable
  <2>. QED  BY <2>1, <2>2 DEF AvailableInv
<1>6. CASE \E t \in Threads : Swap(t)
  <2>1. PICK t \in Threads : Swap(t)  BY <1>6
  <2>2. lock # None  BY <1>0, <2>1, ConstantsAssumption DEF Swap, At, IInv, LockInv
  <2>3. phase = "serving" /\ store' = pending /\ lock' = None /\ UNCHANGED <<phase, epoch>>
    BY <2>1 DEF Swap, At, authority
  <2>. QED  BY <2>2, <2>3 DEF AvailableInv
<1>7. CASE Crash  BY <1>2, <1>7 DEF Crash
<1>8. CASE Load
  <2>1. lock' = None  BY <1>0, <1>8 DEF Load, IInv, LockInv
  <2>2. store'.lists[l] = Recovered(disk.lists[l])  BY <1>0, <1>8, LoadFields
  <2>. QED  BY <1>0, <2>1, <2>2, RecoveredInactive
<1>9. CASE Starts
  <2>1. lock' = None /\ phase = "loaded"  BY <1>0, <1>9 DEF Starts, IInv, LockInv
  <2>2. store'.lists = store.lists  BY <1>9 DEF Starts, FromTables
  <2>. QED  BY <2>1, <2>2 DEF AvailableInv
<1>. QED  BY <1>1, <1>3, <1>4, <1>5, <1>6, <1>7, <1>8, <1>9 DEF ImagesMove, Still

(* Recovery is conservative: nothing is available before the coordinator   *)
(* serves, and while it serves under one epoch everything available was    *)
(* validated under it, whatever races with the restart.                    *)
THEOREM RecoveryStaysConservative == Spec => []RecoveryIsConservative
<1>1. Init => AvailableInv  BY DEF Init, AvailableInv, InitImage, NoList, Available
<1>2. AvailableInv => RecoveryIsConservative  BY DEF AvailableInv, RecoveryIsConservative
<1>. QED  BY <1>1, <1>2, AvailableStep, ImageInvariance, PTL DEF Spec
================================================================================
