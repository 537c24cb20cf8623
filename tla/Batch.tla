--------------------------------- MODULE Batch ---------------------------------
(***************************************************************************)
(* SegmentListStore::batch (src/store.cpp): one call commits several       *)
(* drafts under one attempt, one revision and one save.  SegmentStore has  *)
(* run_batch for a single draft; this module has it for more than one.     *)
(*                                                                         *)
(* Every draft is validated against the state phase B captured, not        *)
(* against what the drafts before it make of it, and phase E applies them  *)
(* in turn.  So drafts that touch the same list meet in phase E only.      *)
(***************************************************************************)
EXTENDS SegmentStore

CONSTANTS
    MaxBatch,       \* the largest batch callers submit
    BatchBodies     \* the contents of the drafts in a batch

ASSUME BatchAssumption == MaxBatch \in Nat /\ BatchBodies \subseteq Bodies

VARIABLES
    rest,           \* [Threads -> Seq(Draft)]: the drafts of a batch after the first,
                    \* which is in plan
    payload         \* [Attempts -> Seq(Draft)]: the drafts behind the recorded digest of
                    \* a batch

batchVars == <<vars, rest, payload>>

NoBatch == [t \in Threads |-> <<>>]

BatchInit == Init /\ rest = NoBatch /\ payload = [a \in Attempts |-> <<>>]

Touches(d) == {d.id, d.sup} \ {None}

(* No two drafts touch the same list. *)
Disjoint(ds) ==
    \A i, j \in 1 .. Len(ds) : i # j => Touches(ds[i]) \cap Touches(ds[j]) = {}
--------------------------------------------------------------------------------
(* Phases B and C: every draft is accepted for itself. *)
PrepareBatch(t, ds, a, p, b) ==
    /\ At(t, "snapshot")
    /\ lock = None
    /\ request[t] = None
    /\ store.attempts[a] = None
    /\ AttemptTableAccepts(a)
    /\ CallerOk(p, b)
    /\ \A i \in 1 .. Len(ds) :
           /\ LifecycleOk(store.lists[ds[i].id], IntentFor(ds[i].id), ds[i].expected)
           /\ Resolves(ds[i], CapturedView(t))
           /\ SupersedeOk(ds[i], store.lists)
    /\ Prepare(t, MakePlan(t, IntentFor(ds[1].id), ds[1], a, b))
    /\ rest' = [rest EXCEPT ![t] = Tail(ds)]
    /\ UNCHANGED payload

Drafts(t) == <<plan[t].draft>> \o rest[t]

PlanOf(t, d) == [plan[t] EXCEPT !.draft = d]

(* Phase E checks the generations of every draft again. *)
BatchVerified(t) ==
    /\ Verified(t)
    /\ \A i \in 1 .. Len(rest[t]) :
           /\ store.lists[rest[t][i].id].gen = rest[t][i].expected
           /\ rest[t][i].sup # None => store.lists[rest[t][i].sup].gen = rest[t][i].supGen

(* The drafts without a list count as new ones, also those for one list;   *)
(* the segments of a replacement are not counted.                          *)
BatchWithinLimits(t) ==
    LET ds  == Drafts(t)
        new == {i \in 1 .. Len(ds) : store.lists[ds[i].id].gen = 0}
    IN  /\ Cardinality({l \in Lists : store.lists[l].gen # 0}) + Cardinality(new) <= MaxLists
        /\ TotalSegments(store.lists) + MapThenSumSet(LAMBDA i : ds[i].segs, new)
               <= MaxTotalSegments

(* The image being built, after the first i drafts. *)
ImageAfter(t) ==
    LET ds == Drafts(t)
        image[i \in 0 .. Len(ds)] ==
            IF i = 0 THEN store ELSE DraftApplied(image[i - 1], PlanOf(t, ds[i]))
    IN  image

(* A list may no longer be superseded when the turn of its draft comes. *)
Denied(t) ==
    LET ds == Drafts(t)
    IN  \E i \in 1 .. Len(ds) :
            /\ ds[i].sup # None
            /\ ~ Permits(ImageAfter(t)[i - 1].lists[ds[i].sup].state, "SupersedeBegin")

(* Mutant: each draft is applied to a copy of its own. *)
BatchImage_Copies(t) ==
    WithTables([DraftApplied(store, PlanOf(t, rest[t][Len(rest[t])])) EXCEPT
        !.attempts[plan[t].attempt] = [@ EXCEPT !.segs = 0]])

(* The image a batch saves.  What is recorded for the attempt is a digest  *)
(* of all drafts, which no single draft has; a draft without segments,     *)
(* which the content of a single draft never is here, stands for it.       *)
BatchImage(t) ==
    WithTables([ImageAfter(t)[Len(rest[t]) + 1] EXCEPT
        !.attempts[plan[t].attempt] = [@ EXCEPT !.segs = 0]])

CommitBatch(t) ==
    /\ At(t, "prepared")
    /\ rest[t] # <<>>
    /\ BatchVerified(t) /\ BatchWithinLimits(t) /\ ~ Denied(t)
    /\ Save(t, BatchImage(t), BatchImage(t))
    /\ rest' = [rest EXCEPT ![t] = <<>>]
    /\ payload' = IF lock' = t THEN [payload EXCEPT ![plan[t].attempt] = Drafts(t)] ELSE payload
    /\ UNCHANGED <<phase, store, upstream, authority, ghosts>>

(* A draft that is refused in phase E refuses the batch: nothing is saved. *)
RefuseBatch(t) ==
    /\ At(t, "prepared")
    /\ lock = None
    /\ rest[t] # <<>>
    /\ ~ BatchVerified(t) \/ ~ BatchWithinLimits(t) \/ Denied(t)
    /\ Return(t)
    /\ rest' = [rest EXCEPT ![t] = <<>>]
    /\ UNCHANGED <<phase, store, disk, upstream, authority, lock, pending, ghosts, payload>>
--------------------------------------------------------------------------------
SubmittedDrafts ==
    {SubmittedDraft(id, body, sup) : id \in Lists, body \in BatchBodies, sup \in Lists \cup {None}}

SubmitBatch(t) ==
    /\ At(t, "snapshot")
    /\ \E a \in Attempts, p \in Publishers, b \in Boots, n \in 2 .. MaxBatch :
          \E ds \in [1 .. n -> SubmittedDrafts] :
              PrepareBatch(t, ds, a, p, b)

BatchNext ==
    \/ \E t \in Threads :
           \/ rest[t] = <<>> /\ Call(t) /\ UNCHANGED <<rest, payload>>
           \/ SubmitBatch(t)
           \/ CommitBatch(t)
           \/ RefuseBatch(t)
    \/ Environment /\ UNCHANGED <<rest, payload>>
    \/ Process /\ rest' = (IF phase' = "down" THEN NoBatch ELSE rest) /\ UNCHANGED payload

BatchSpec == BatchInit /\ [][BatchNext]_batchVars
--------------------------------------------------------------------------------
(* Properties. *)

(* The drafts that were committed under an attempt. *)
CommittedDrafts(a) ==
    IF payload[a] # <<>> THEN payload[a]
    ELSE IF disk.attempts[a] # None /\ disk.attempts[a].needs # {} THEN <<disk.attempts[a]>>
    ELSE <<>>

(* A mutation is durable as a whole or not at all, whatever races with it, *)
(* fails or crashes: under an attempt that is not recorded there is no     *)
(* list, and under one that is every draft was committed and, if no other  *)
(* draft of the batch touches it, every list it superseded is closed.      *)
BatchIsAtomic ==
    \A a \in Attempts :
        /\ disk.attempts[a] = None => \A l \in Lists : disk.lists[l].attempt # a
        /\ LET ds == CommittedDrafts(a)
           IN  \A i \in 1 .. Len(ds) :
                   /\ disk.lists[ds[i].id].gen > ds[i].expected
                   /\ Disjoint(ds) /\ ds[i].sup \notin {None, ds[i].id} =>
                          disk.lists[ds[i].sup].state \in Closed

(* "A `RETIRED`, `REVOKED`, `SUPERSEDED` or `WITHDRAWN` lineage can never  *)
(* reactivate through any path": a list that a committed draft superseded  *)
(* is closed from then on.                                                 *)
SupersededNeverReactivates ==
    \A a \in Attempts :
        LET ds == CommittedDrafts(a)
        IN  \A i \in 1 .. Len(ds) :
                ds[i].sup \notin {None, ds[i].id} => disk.lists[ds[i].sup].state \in Closed
================================================================================
