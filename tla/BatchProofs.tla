------------------------------ MODULE BatchProofs ------------------------------
(***************************************************************************)
(* Batches of any length: a batch is saved as a whole or not at all, and   *)
(* with batches among the calls an attempt is still applied once, closed   *)
(* lineages stay closed, revisions are immutable and what is visible is    *)
(* durable.  The image a batch saves is built draft by draft, and the      *)
(* argument follows it by induction: for lack of an induction rule the     *)
(* provers can use, as the least draft at which a statement fails.         *)
(***************************************************************************)
EXTENDS Batch, SegmentStoreProofs, WellFoundedInduction, NaturalsInduction

(* What phase B found out about the other drafts of a batch holds as long  *)
(* as the store has not moved.                                             *)
RestInv ==
    \A t \in Threads : rest[t] # <<>> =>
        /\ pc[t] = "prepared" /\ plan[t].event \in CommitEvents
        /\ plan[t].storeRev = store.revision =>
               \A i \in 1 .. Len(rest[t]) : StillHolds(PlanOf(t, rest[t][i]))

(* What is recorded for a transition refers to nothing, so that it is not  *)
(* taken for a commit.                                                     *)
TransitionsInv ==
    \A t \in Threads :
        pc[t] = "prepared" /\ plan[t].event \in TransitionEvents => plan[t].draft.needs = {}

(* The drafts last submitted under an attempt. *)
PayloadInv == payload \in [Attempts -> Seq(Draft)]

(* The inductive invariant. *)
BatchInv ==
    /\ DiskInv
    /\ rest \in [Threads -> Seq(Draft)] /\ RestInv
    /\ TransitionsInv
    /\ PayloadInv
    /\ BatchIsAtomic
--------------------------------------------------------------------------------
(* Induction. *)

(* A set of numbers has a least one. *)
LEMMA Least ==
    ASSUME NEW S \in SUBSET Nat, S # {}
    PROVE  \E n \in S : \A k \in S : n <= k
<1>. DEFINE R == {ss \in Nat \X Nat : ss[1] < ss[2]}
<1>1. IsWellFoundedOn(R, Nat)  BY NatLessThanWellFounded DEF OpToRel
<1>2. \A k, n \in Nat : <<k, n>> \notin R => n <= k  OBVIOUS
<1>. HIDE DEF R
<1>3. PICK n \in S : \A k \in S : ~ (<<k, n>> \in R)  BY <1>1, WFMin
<1>. QED  BY <1>2, <1>3

(* The drafts of a batch. *)
LEMMA DraftsAre ==
    ASSUME NEW t \in Threads, plan[t] \in Plan, rest[t] \in Seq(Draft)
    PROVE  /\ Drafts(t) \in Seq(Draft)
           /\ Len(Drafts(t)) = Len(rest[t]) + 1
           /\ Drafts(t)[1] = plan[t].draft
           /\ \A i \in 1 .. Len(rest[t]) : Drafts(t)[i + 1] = rest[t][i]
<1>1. plan[t].draft \in Draft  BY DEF Plan
<1>. QED  BY <1>1 DEF Drafts

(* The images that are built, one for every draft. *)
LEMMA ImagesAre ==
    ASSUME NEW t \in Threads, Drafts(t) \in Seq(Draft)
    PROVE  /\ ImageAfter(t)[0] = store
           /\ \A i \in 1 .. Len(Drafts(t)) :
                  ImageAfter(t)[i] = DraftApplied(ImageAfter(t)[i - 1], PlanOf(t, Drafts(t)[i]))
<1>. DEFINE ds == Drafts(t)
            Next1(x, i) == DraftApplied(x, PlanOf(t, ds[i]))
            Built(f, n) == f = [i \in 0 .. n |-> IF i = 0 THEN store ELSE Next1(f[i - 1], i)]
            S == {n \in Nat : ~ \E f : Built(f, n)}
<1>. HIDE DEF Next1
<1>1. S = {}
  <2>. SUFFICES ASSUME S # {} PROVE FALSE  OBVIOUS
  <2>1. S \in SUBSET Nat  OBVIOUS
  <2>2. PICK n \in S : \A k \in S : n <= k
    <3>. HIDE DEF S
    <3>. QED  BY <2>1, Least
  <2>3. n \in Nat /\ ~ \E f : Built(f, n)  OBVIOUS
  <2>4. CASE n = 0
    <3>. DEFINE f == [i \in 0 .. 0 |-> store]
    <3>1. Built(f, 0)  OBVIOUS
    <3>. QED  BY <2>3, <2>4, <3>1
  <2>5. CASE n # 0
    <3>1. n - 1 \in Nat /\ n - 1 \notin S
      <4>1. n - 1 \in Nat /\ ~ (n <= n - 1)  BY <2>3, <2>5
      <4>. HIDE DEF S
      <4>. QED  BY <2>2, <4>1
    <3>2. PICK f : Built(f, n - 1)  BY <3>1
    <3>. DEFINE g == [i \in 0 .. n |-> IF i = n THEN Next1(f[n - 1], n) ELSE f[i]]
    <3>3. ASSUME NEW i \in 0 .. n
          PROVE  g[i] = IF i = 0 THEN store ELSE Next1(g[i - 1], i)
      <4>1. CASE i = n
        <5>1. g[i] = Next1(f[n - 1], n)  BY <4>1
        <5>2. n - 1 \in 0 .. n /\ n - 1 # n  BY <2>3, <2>5
        <5>3. g[n - 1] = f[n - 1]  BY <5>2
        <5>. QED  BY <2>5, <4>1, <5>1, <5>3
      <4>2. CASE i # n
        <5>1. i \in 0 .. n - 1  BY <2>3, <4>2
        <5>2. f[i] = IF i = 0 THEN store ELSE Next1(f[i - 1], i)  BY <3>2, <5>1
        <5>3. g[i] = f[i]  BY <4>2
        <5>4. i # 0 => i - 1 \in 0 .. n /\ i - 1 # n  BY <2>3, <5>1
        <5>5. i # 0 => g[i - 1] = f[i - 1]  BY <5>4
        <5>. QED  BY <5>2, <5>3, <5>5
      <4>. QED  BY <4>1, <4>2
    <3>4. Built(g, n)
      <4>1. g = [i \in 0 .. n |-> g[i]]  OBVIOUS
      <4>. HIDE DEF g
      <4>. QED  BY <3>3, <4>1
    <3>. QED  BY <2>3, <3>4
  <2>. QED  BY <2>4, <2>5
<1>2. Len(ds) \in Nat  OBVIOUS
<1>3. \E f : Built(f, Len(ds))  BY <1>1, <1>2
<1>4. ImageAfter(t) = CHOOSE f : Built(f, Len(ds))  BY DEF ImageAfter, Next1
<1>5. Built(ImageAfter(t), Len(ds))
  <2>. HIDE DEF Built
  <2>. QED  BY <1>3, <1>4
<1>6. ImageAfter(t)[0] = store  BY <1>2, <1>5
<1>7. ASSUME NEW i \in 1 .. Len(ds)
      PROVE  ImageAfter(t)[i] = Next1(ImageAfter(t)[i - 1], i)
  <2>1. i \in 0 .. Len(ds) /\ i # 0  BY <1>2
  <2>. DEFINE f == ImageAfter(t)
  <2>2. f = [j \in 0 .. Len(ds) |-> IF j = 0 THEN store ELSE Next1(f[j - 1], j)]  BY <1>5
  <2>. HIDE DEF f
  <2>. QED  BY <2>1, <2>2 DEF f
<1>. QED  BY <1>6, <1>7 DEF Next1
--------------------------------------------------------------------------------
(* Building an image. *)

(* What applying one draft changes: its list is the one make_list builds,  *)
(* the list it supersedes is closed, and the attempt is recorded.          *)
LEMMA DraftMoves ==
    ASSUME TypeOK, NEW base \in Image, NEW p \in Plan,
           p.draft.sup # None => Permits(base.lists[p.draft.sup].state, "SupersedeBegin")
    PROVE  LET new == DraftApplied(base, p)
               id  == p.draft.id
               sup == p.draft.sup
           IN  /\ new.lists[id] = MakeList(p)
               /\ sup \in Lists \ {id} =>
                      /\ new.lists[sup].gen = base.lists[sup].gen
                      /\ Content(new.lists[sup]) = Content(base.lists[sup])
                      /\ new.lists[sup].state = "Superseded"
                      /\ new.lists[sup].attempt = base.lists[sup].attempt
               /\ \A l \in Lists \ {id, sup} : new.lists[l] = base.lists[l]
               /\ new.attempts = [base.attempts EXCEPT ![p.attempt] = p.draft]
<1>. DEFINE id    == p.draft.id
            sup   == p.draft.sup
            new   == DraftApplied(base, p)
            lists == IF sup = None THEN base.lists
                     ELSE [base.lists EXCEPT ![sup] = Supersede(@, p)]
<1>1. /\ id \in Lists /\ sup \in Lists \cup {None} /\ p.attempt \in Attempts
  BY DEF Plan, Draft
<1>2. base.lists \in [Lists -> List]  BY DEF Image
<1>3. new.lists = [lists EXCEPT ![id] = MakeList(p)]  BY DEF DraftApplied, Image
<1>4. new.attempts = [base.attempts EXCEPT ![p.attempt] = p.draft]  BY DEF DraftApplied, Image
<1>5. /\ DOMAIN lists = Lists
      /\ sup \in Lists => lists[sup] = Supersede(base.lists[sup], p)
      /\ \A l \in Lists \ {sup} : lists[l] = base.lists[l]
  BY <1>1, <1>2, ConstantsAssumption
<1>6. ASSUME sup \in Lists
      PROVE  /\ Supersede(base.lists[sup], p).gen = base.lists[sup].gen
             /\ Content(Supersede(base.lists[sup], p)) = Content(base.lists[sup])
             /\ Supersede(base.lists[sup], p).state = "Superseded"
             /\ Supersede(base.lists[sup], p).attempt = base.lists[sup].attempt
  <2>1. base.lists[sup] \in List  BY <1>2, <1>6
  <2>2. base.lists[sup].state \in LifecycleState  BY <2>1 DEF List
  <2>3. Permits(base.lists[sup].state, "SupersedeBegin")  BY <1>6, ConstantsAssumption
  <2>4. Advance(base.lists[sup].state, "SupersedeBegin") = "Superseded"
    BY <2>2, <2>3 DEF Advance, Permits, kTable, LifecycleState
  <2>. QED  BY <2>1, <2>4 DEF Supersede, Content, List
<1>. HIDE DEF new, lists
<1>. QED  BY <1>1, <1>3, <1>4, <1>5, <1>6 DEF new

(* The plan of a draft of a batch. *)
LEMMA PlanOfIs ==
    ASSUME NEW t \in Threads, plan[t] \in Plan, NEW d \in Draft
    PROVE  /\ PlanOf(t, d) \in Plan /\ PlanOf(t, d).draft = d
           /\ PlanOf(t, d).attempt = plan[t].attempt
           /\ PlanOf(t, d).event = plan[t].event
BY DEF PlanOf, Plan

(* Thread t is about to save a batch: what was found out about each draft  *)
(* holds, and no draft is denied.                                          *)
Ready(t) ==
    /\ plan[t] \in Plan /\ plan[t].event \in CommitEvents
    /\ rest[t] \in Seq(Draft)
    /\ \A i \in 1 .. Len(Drafts(t)) : StillHolds(PlanOf(t, Drafts(t)[i]))
    /\ ~ Denied(t)
    /\ \A l \in Lists : WellFormed(store.lists[l])

(* What the lists are after the first k drafts: those with a draft have    *)
(* their next generation, the others keep their content; what was closed   *)
(* is closed; and what a draft superseded is, unless another touches it.   *)
ListsAfter(t, k, image) ==
    /\ \A l \in Lists :
           /\ WellFormed(image.lists[l])
           /\ store.lists[l].state \in Closed => image.lists[l].state \in Closed
           /\ IF \E i \in 1 .. k : Drafts(t)[i].id = l
              THEN /\ store.lists[l].state \notin Closed
                   /\ image.lists[l].gen = store.lists[l].gen + 1
                   /\ image.lists[l].attempt = plan[t].attempt
              ELSE /\ image.lists[l].gen = store.lists[l].gen
                   /\ image.lists[l].attempt = store.lists[l].attempt
                   /\ Content(image.lists[l]) = Content(store.lists[l])
    /\ Disjoint(Drafts(t)) =>
           \A i \in 1 .. k :
               LET d == Drafts(t)[i]
               IN  d.sup \notin {None, d.id} => image.lists[d.sup].state \in Closed

(* The attempt of the batch is recorded with its first draft, and nothing  *)
(* else is.                                                                *)
AttemptsAfter(t, k, image) ==
    /\ k > 0 => image.attempts[plan[t].attempt] \in Draft /\ image.revision = store.revision + 1
    /\ \A a \in Attempts \ {plan[t].attempt} : image.attempts[a] = store.attempts[a]

After(t, k) ==
    LET image == ImageAfter(t)[k]
    IN  image \in Image /\ ListsAfter(t, k, image) /\ AttemptsAfter(t, k, image)

(* One more draft. *)
LEMMA AfterStep ==
    ASSUME TypeOK, NEW t \in Threads, Ready(t),
           NEW k \in 1 .. Len(Drafts(t)), After(t, k - 1)
    PROVE  After(t, k)
<1>. DEFINE ds   == Drafts(t)
            base == ImageAfter(t)[k - 1]
            new  == ImageAfter(t)[k]
            d    == ds[k]
            p    == PlanOf(t, d)
            a    == plan[t].attempt
<1>1. plan[t] \in Plan /\ rest[t] \in Seq(Draft) /\ a \in Attempts  BY DEF Ready, Plan
<1>2. ds \in Seq(Draft) /\ Len(ds) \in Nat /\ \A i \in 1 .. Len(ds) : ds[i] \in Draft
  BY <1>1, DraftsAre
<1>3. d \in Draft /\ d.id \in Lists /\ d.sup \in Lists \cup {None} /\ d.expected \in Nat
  BY <1>2 DEF Draft
<1>4. p \in Plan /\ p.draft = d /\ p.attempt = a /\ p.event \in CommitEvents
  BY <1>1, <1>3, PlanOfIs DEF Ready
<1>5. base \in Image /\ ListsAfter(t, k - 1, base) /\ AttemptsAfter(t, k - 1, base)
  BY DEF After
<1>6. new = DraftApplied(base, p)  BY <1>2, ImagesAre
<1>7. d.sup # None => Permits(base.lists[d.sup].state, "SupersedeBegin")
  BY DEF Ready, Denied
<1>8. StillHolds(p)  BY DEF Ready
<1>9. /\ store.lists[d.id].gen = d.expected
      /\ store.lists[d.id].gen # 0 => store.lists[d.id].state \notin Closed
      /\ d.sup # None => store.lists[d.sup].gen # 0
  BY <1>4, <1>8 DEF StillHolds, SupersedeOk
<1>. HIDE DEF ds, base, new, d, p, a
<1>10. new \in Image /\ new.revision = store.revision + 1
  BY <1>4, <1>5, <1>6, <1>7, DraftAppliedType
<1>11. /\ new.lists[d.id] = MakeList(p)
       /\ d.sup \in Lists \ {d.id} =>
              /\ new.lists[d.sup].gen = base.lists[d.sup].gen
              /\ Content(new.lists[d.sup]) = Content(base.lists[d.sup])
              /\ new.lists[d.sup].state = "Superseded"
              /\ new.lists[d.sup].attempt = base.lists[d.sup].attempt
       /\ \A l \in Lists \ {d.id, d.sup} : new.lists[l] = base.lists[l]
       /\ new.attempts = [base.attempts EXCEPT ![a] = d]
  BY <1>4, <1>5, <1>6, <1>7, DraftMoves
<1>12. /\ MakeList(p).gen = d.expected + 1 /\ MakeList(p).attempt = a
       /\ MakeList(p).state = "Active" /\ MakeList(p).cur = "Current"
  BY <1>4 DEF MakeList, Advance, kTable
<1>13. \A l \in Lists : store.lists[l].gen \in Nat /\ WellFormed(store.lists[l])
  BY DEF TypeOK, Image, List, Ready
<1>14. ASSUME NEW l \in Lists
       PROVE  /\ WellFormed(new.lists[l])
              /\ store.lists[l].state \in Closed => new.lists[l].state \in Closed
              /\ IF \E i \in 1 .. k : ds[i].id = l
                 THEN /\ store.lists[l].state \notin Closed
                      /\ new.lists[l].gen = store.lists[l].gen + 1
                      /\ new.lists[l].attempt = a
                 ELSE /\ new.lists[l].gen = store.lists[l].gen
                      /\ new.lists[l].attempt = store.lists[l].attempt
                      /\ Content(new.lists[l]) = Content(store.lists[l])
  <2>0. k \in Nat /\ k \in 1 .. k /\ (1 .. k) = (1 .. k - 1) \cup {k}  BY <1>2 DEF ds
  <2>1. /\ WellFormed(base.lists[l])
        /\ store.lists[l].state \in Closed => base.lists[l].state \in Closed
        /\ IF \E i \in 1 .. k - 1 : ds[i].id = l
           THEN /\ store.lists[l].state \notin Closed
                /\ base.lists[l].gen = store.lists[l].gen + 1
                /\ base.lists[l].attempt = a
           ELSE /\ base.lists[l].gen = store.lists[l].gen
                /\ base.lists[l].attempt = store.lists[l].attempt
                /\ Content(base.lists[l]) = Content(store.lists[l])
    BY <1>5 DEF ListsAfter, ds, a
  <2>2. CASE l = d.id
    <3>1. \E i \in 1 .. k : ds[i].id = l  BY <2>0, <2>2 DEF d
    <3>2. new.lists[l].gen = store.lists[l].gen + 1 /\ new.lists[l].gen # 0
      BY <1>9, <1>11, <1>12, <1>13, <2>2
    <3>3. store.lists[l].state \notin Closed
      BY <1>9, <1>13, <2>2 DEF WellFormed, Closed, TerminalForActivation
    <3>. QED  BY <1>11, <1>12, <2>2, <3>1, <3>2, <3>3 DEF WellFormed
  <2>3. CASE l # d.id
    <3>1. (\E i \in 1 .. k : ds[i].id = l) <=> (\E i \in 1 .. k - 1 : ds[i].id = l)
      BY <2>0, <2>3 DEF d
    <3>2. CASE l = d.sup
      <4>1. store.lists[l].gen # 0  BY <1>9, <3>2, ConstantsAssumption
      <4>2. base.lists[l].gen # 0  BY <1>13, <2>1, <4>1
      <4>3. /\ new.lists[l].gen = base.lists[l].gen
            /\ Content(new.lists[l]) = Content(base.lists[l])
            /\ new.lists[l].state = "Superseded"
            /\ new.lists[l].attempt = base.lists[l].attempt
        BY <1>11, <2>3, <3>2
      <4>4. "Superseded" \in Closed  BY DEF Closed, TerminalForActivation
      <4>. QED  BY <2>1, <3>1, <4>2, <4>3, <4>4 DEF WellFormed
    <3>3. CASE l # d.sup
      <4>1. new.lists[l] = base.lists[l]  BY <1>11, <2>3, <3>3
      <4>. QED  BY <2>1, <3>1, <4>1
    <3>. QED  BY <3>2, <3>3
  <2>. QED  BY <2>2, <2>3
<1>15. ASSUME Disjoint(ds), NEW i \in 1 .. k, ds[i].sup \notin {None, ds[i].id}
       PROVE  new.lists[ds[i].sup].state \in Closed
  <2>0. i \in 1 .. Len(ds) /\ k \in 1 .. Len(ds)  BY <1>2 DEF ds
  <2>1. ds[i].sup \in Lists  BY <1>2, <1>15, <2>0 DEF Draft
  <2>2. CASE i = k
    <3>1. d.sup \in Lists \ {d.id}  BY <1>15, <2>1, <2>2 DEF d
    <3>. QED  BY <1>11, <2>2, <3>1 DEF Closed, TerminalForActivation, d
  <2>3. CASE i # k
    <3>1. i \in 1 .. k - 1  BY <2>0, <2>3
    <3>2. base.lists[ds[i].sup].state \in Closed
      BY <1>5, <1>15, <3>1 DEF ListsAfter, ds
    <3>3. Touches(ds[i]) \cap Touches(d) = {}  BY <1>15, <2>0, <2>3 DEF Disjoint, d
    <3>4. ds[i].sup \notin {d.id, d.sup}
      BY <1>3, <1>15, <3>3, ConstantsAssumption DEF Touches
    <3>. QED  BY <1>11, <2>1, <3>2, <3>4
  <2>. QED  BY <2>2, <2>3
<1>16. ListsAfter(t, k, new)  BY <1>14, <1>15 DEF ListsAfter, ds, a
<1>17. AttemptsAfter(t, k, new)
  <2>1. base.attempts \in [Attempts -> Draft \cup {None}]  BY <1>5 DEF Image
  <2>. QED  BY <1>1, <1>3, <1>5, <1>10, <1>11, <2>1 DEF AttemptsAfter, a
<1>. QED  BY <1>10, <1>16, <1>17 DEF After, new

(* All drafts. *)
LEMMA AfterAll ==
    ASSUME TypeOK, NEW t \in Threads, Ready(t)
    PROVE  \A k \in 0 .. Len(Drafts(t)) : After(t, k)
<1>. DEFINE S == {k \in 0 .. Len(Drafts(t)) : ~ After(t, k)}
<1>. SUFFICES ASSUME S # {} PROVE FALSE  OBVIOUS
<1>1. Drafts(t) \in Seq(Draft) /\ Len(Drafts(t)) \in Nat  BY DraftsAre DEF Ready
<1>2. S \in SUBSET Nat  BY <1>1
<1>3. PICK k \in S : \A j \in S : k <= j
  <2>. HIDE DEF S
  <2>. QED  BY <1>2, Least
<1>4. k \in 0 .. Len(Drafts(t)) /\ ~ After(t, k)  OBVIOUS
<1>5. CASE k = 0
  <2>1. ImageAfter(t)[0] = store  BY <1>1, ImagesAre
  <2>2. store \in Image  BY DEF TypeOK
  <2>3. ListsAfter(t, 0, store)  BY DEF ListsAfter, Ready
  <2>4. AttemptsAfter(t, 0, store)  BY DEF AttemptsAfter
  <2>5. After(t, 0)  BY <2>1, <2>2, <2>3, <2>4 DEF After
  <2>. QED  BY <1>4, <1>5, <2>5
<1>6. CASE k # 0
  <2>1. k \in 1 .. Len(Drafts(t)) /\ k - 1 \in 0 .. Len(Drafts(t)) /\ ~ (k <= k - 1)
    BY <1>1, <1>4, <1>6
  <2>2. k - 1 \notin S
    <3>. HIDE DEF S
    <3>. QED  BY <1>3, <2>1
  <2>3. After(t, k - 1)  BY <2>1, <2>2
  <2>. QED  BY <1>4, <2>1, <2>3, AfterStep
<1>. QED  BY <1>5, <1>6

(* The image a batch saves: that of all its drafts, with the attempt's     *)
(* digest and the live tables.                                             *)
LEMMA BatchImageIs ==
    ASSUME TypeOK, NEW t \in Threads, Ready(t)
    PROVE  /\ BatchImage(t) \in Image /\ BatchImage(t).revision = store.revision + 1
           /\ ListsAfter(t, Len(Drafts(t)), BatchImage(t))
           /\ BatchImage(t).attempts[plan[t].attempt] # None
           /\ \A a \in Attempts \ {plan[t].attempt} :
                  BatchImage(t).attempts[a] = store.attempts[a]
<1>. DEFINE n     == Len(Drafts(t))
            a     == plan[t].attempt
            built == ImageAfter(t)[n]
            image == [built EXCEPT !.attempts[a] = [@ EXCEPT !.segs = 0]]
<1>1. plan[t] \in Plan /\ rest[t] \in Seq(Draft) /\ a \in Attempts  BY DEF Ready, Plan
<1>2. n = Len(rest[t]) + 1 /\ n \in Nat /\ n > 0 /\ n \in 0 .. n  BY <1>1, DraftsAre
<1>3. After(t, n)  BY <1>2, AfterAll
<1>4. built \in Image /\ ListsAfter(t, n, built) /\ AttemptsAfter(t, n, built)
  BY <1>3 DEF After
<1>5. BatchImage(t) = WithTables(image)  BY <1>2 DEF BatchImage
<1>. HIDE DEF n, a, built
<1>6. /\ built.attempts[a] \in Draft /\ built.revision = store.revision + 1
      /\ \A b \in Attempts \ {a} : built.attempts[b] = store.attempts[b]
  BY <1>2, <1>4 DEF AttemptsAfter, a
<1>7. [built.attempts[a] EXCEPT !.segs = 0] \in Draft  BY <1>6 DEF Draft
<1>8. /\ image \in Image /\ image.lists = built.lists /\ image.revision = built.revision
      /\ image.attempts = [built.attempts EXCEPT ![a] = [built.attempts[a] EXCEPT !.segs = 0]]
  BY <1>1, <1>4, <1>7 DEF Image
<1>9. built.attempts \in [Attempts -> Draft \cup {None}]  BY <1>4 DEF Image
<1>10. /\ image.attempts[a] # None
       /\ \A b \in Attempts \ {a} : image.attempts[b] = store.attempts[b]
  BY <1>1, <1>6, <1>7, <1>8, <1>9, NoneAssumption
<1>. HIDE DEF image
<1>11. /\ BatchImage(t) \in Image /\ BatchImage(t).lists = image.lists
       /\ BatchImage(t).attempts = image.attempts /\ BatchImage(t).revision = image.revision
  BY <1>5, <1>8, WithTablesType
<1>12. ListsAfter(t, n, BatchImage(t))  BY <1>4, <1>8, <1>11 DEF ListsAfter
<1>. QED  BY <1>6, <1>8, <1>10, <1>11, <1>12 DEF n, a
--------------------------------------------------------------------------------
(* The steps of a batch. *)

(* Phase E finds every draft as phase B left it, and saves all or nothing. *)
LEMMA CommitBatchMoves ==
    ASSUME BatchInv, NEW t \in Threads, CommitBatch(t)
    PROVE  /\ Ready(t) /\ pc[t] = "prepared" /\ phase = "serving"
           /\ store.lists = disk.lists /\ store.attempts = disk.attempts
           /\ IInv'
           /\ \/ UNCHANGED <<disk, payload>>
              \/ /\ disk' = BatchImage(t)
                 /\ payload' = [payload EXCEPT ![plan[t].attempt] = Drafts(t)]
<1>0. IInv /\ TypeOK  BY DEF BatchInv, DiskInv, IInv
<1>1. /\ phase = "serving" /\ pc[t] = "prepared" /\ rest[t] # <<>> /\ ~ Denied(t)
      /\ Verified(t) /\ Save(t, BatchImage(t), BatchImage(t))
  BY DEF CommitBatch, At, BatchVerified
<1>2. lock = None  BY <1>1 DEF Save
<1>3. plan[t] \in Plan /\ plan[t].storeRev = store.revision /\ StillHolds(plan[t])
  BY <1>0, <1>1 DEF Verified, IInv, PlanInv
<1>4. /\ rest[t] \in Seq(Draft) /\ plan[t].event \in CommitEvents
      /\ \A i \in 1 .. Len(rest[t]) : StillHolds(PlanOf(t, rest[t][i]))
  BY <1>1, <1>3 DEF BatchInv, RestInv
<1>5. store.lists = disk.lists /\ store.attempts = disk.attempts
  BY <1>0, <1>1, <1>2 DEF IInv, DurableInv
<1>6. Ready(t)
  <2>1. /\ Len(Drafts(t)) = Len(rest[t]) + 1 /\ Drafts(t)[1] = plan[t].draft
        /\ \A i \in 1 .. Len(rest[t]) : Drafts(t)[i + 1] = rest[t][i]
    BY <1>3, <1>4, DraftsAre
  <2>2. PlanOf(t, plan[t].draft) = plan[t]  BY <1>3 DEF PlanOf, Plan
  <2>3. ASSUME NEW i \in 1 .. Len(Drafts(t)) PROVE StillHolds(PlanOf(t, Drafts(t)[i]))
    <3>0. Len(rest[t]) \in Nat  BY <1>4
    <3>1. CASE i = 1  BY <1>3, <2>1, <2>2, <3>1
    <3>2. CASE i # 1
      <4>1. i - 1 \in 1 .. Len(rest[t]) /\ (i - 1) + 1 = i  BY <2>1, <3>0, <3>2
      <4>2. Drafts(t)[i] = rest[t][i - 1]  BY <2>1, <4>1
      <4>. QED  BY <1>4, <4>1, <4>2
    <3>. QED  BY <3>1, <3>2
  <2>4. \A l \in Lists : WellFormed(store.lists[l])  BY <1>5 DEF BatchInv, DiskInv
  <2>. QED  BY <1>1, <1>3, <1>4, <2>3, <2>4 DEF Ready
<1>7. BatchImage(t) \in Image /\ BatchImage(t).revision = store.revision + 1
  BY <1>0, <1>6, BatchImageIs
<1>8. store.revision \in Nat  BY <1>0 DEF TypeOK, Image
<1>9. UNCHANGED <<phase, store, upstream, authority, ghosts>>  BY DEF CommitBatch
<1>10. IInv'
  <2>. DEFINE image == BatchImage(t)
  <2>1. image \in Image /\ image.revision > store.revision /\ Save(t, image, image)
    BY <1>1, <1>7, <1>8
  <2>. HIDE DEF image
  <2>. QED  BY <1>0, <1>1, <1>9, <2>1, SaveStep
<1>11. \/ UNCHANGED <<disk, lock>>
       \/ disk' = BatchImage(t) /\ lock' = t
  BY <1>1 DEF Save
<1>12. payload' = IF lock' = t THEN [payload EXCEPT ![plan[t].attempt] = Drafts(t)] ELSE payload
  BY DEF CommitBatch
<1>. QED  BY <1>1, <1>2, <1>5, <1>6, <1>10, <1>11, <1>12, ConstantsAssumption
--------------------------------------------------------------------------------
(* What is committed. *)

(* What was committed under an attempt is committed as a whole. *)
Whole(a) ==
    LET ds == CommittedDrafts(a)
    IN  \A i \in 1 .. Len(ds) :
            /\ disk.lists[ds[i].id].gen > ds[i].expected
            /\ Disjoint(ds) /\ ds[i].sup \notin {None, ds[i].id} =>
                   disk.lists[ds[i].sup].state \in Closed

(* The drafts committed under an attempt are drafts. *)
LEMMA CommittedAre ==
    ASSUME DiskInv, PayloadInv, NEW a \in Attempts
    PROVE  CommittedDrafts(a) \in Seq(Draft)
<1>1. payload[a] \in Seq(Draft)  BY DEF PayloadInv
<1>2. disk.attempts[a] \in Draft \cup {None}  BY DEF DiskInv, IInv, TypeOK, Image
<1>. QED  BY <1>1, <1>2 DEF CommittedDrafts

(* Generations grow and lineages stay closed. *)
ListsGrow ==
    \A l \in Lists :
        /\ disk'.lists[l].gen >= disk.lists[l].gen
        /\ disk.lists[l].state \in Closed => disk'.lists[l].state \in Closed

(* So what was committed as a whole stays so. *)
LEMMA WholeStays ==
    ASSUME DiskInv, DiskInv', PayloadInv, NEW a \in Attempts, Whole(a), ListsGrow,
           CommittedDrafts(a)' = CommittedDrafts(a)
    PROVE  Whole(a)'
<1>. DEFINE ds == CommittedDrafts(a)
<1>1. ds \in Seq(Draft) /\ ds' = ds  BY CommittedAre
<1>. SUFFICES ASSUME NEW i \in 1 .. Len(ds)
              PROVE  /\ disk'.lists[ds[i].id].gen > ds[i].expected
                     /\ Disjoint(ds) /\ ds[i].sup \notin {None, ds[i].id} =>
                            disk'.lists[ds[i].sup].state \in Closed
  BY <1>1, ZenonT(40) DEF Whole, Disjoint, Touches
<1>2. /\ disk.lists[ds[i].id].gen > ds[i].expected
      /\ Disjoint(ds) /\ ds[i].sup \notin {None, ds[i].id} =>
             disk.lists[ds[i].sup].state \in Closed
  BY DEF Whole
<1>. HIDE DEF ds
<1>3. ds[i] \in Draft  BY <1>1
<1>4. /\ ds[i].id \in Lists /\ ds[i].expected \in Nat /\ ds[i].sup \in Lists \cup {None}
  BY <1>3 DEF Draft
<1>5. disk.lists[ds[i].id].gen \in Nat /\ disk'.lists[ds[i].id].gen \in Nat
  BY <1>4 DEF DiskInv, IInv, TypeOK, Image, List
<1>6. disk'.lists[ds[i].id].gen >= disk.lists[ds[i].id].gen  BY <1>4 DEF ListsGrow
<1>7. disk'.lists[ds[i].id].gen > ds[i].expected  BY <1>2, <1>4, <1>5, <1>6
<1>. QED  BY <1>2, <1>4, <1>7 DEF ListsGrow

(* A step that saves nothing breaks nothing up. *)
LEMMA AtomicStays ==
    ASSUME DiskInv, DiskInv', PayloadInv, BatchIsAtomic, UNCHANGED <<disk, payload>>
    PROVE  BatchIsAtomic'
<1>1. ListsGrow
  <2>1. \A l \in Lists : disk.lists[l].gen \in Nat  BY DEF DiskInv, IInv, TypeOK, Image, List
  <2>. QED  BY <2>1 DEF ListsGrow
<1>2. ASSUME NEW a \in Attempts PROVE Whole(a)'
  <2>1. CommittedDrafts(a)' = CommittedDrafts(a)  BY DEF CommittedDrafts
  <2>2. Whole(a)  BY DEF BatchIsAtomic, Whole
  <2>. QED  BY <1>1, <2>1, <2>2, WholeStays
<1>3. \A a \in Attempts : disk'.attempts[a] = None => \A l \in Lists : disk'.lists[l].attempt # a
  BY DEF BatchIsAtomic
<1>. QED  BY <1>2, <1>3 DEF BatchIsAtomic, Whole

(* A step of the store. *)
LEMMA ListsGrowStep == ASSUME DiskInv, [Next]_vars PROVE ListsGrow
<1>1. \A l \in Lists : disk.lists[l].gen \in Nat  BY DEF DiskInv, IInv, TypeOK, Image, List
<1>2. \A l \in Lists : disk'.lists[l].gen >= disk.lists[l].gen
  BY <1>1, RevisionsStep
<1>3. \A l \in Lists : disk.lists[l].state \in Closed => disk'.lists[l].state \in Closed
  BY ClosedStep
<1>. QED  BY <1>2, <1>3 DEF ListsGrow

(* A batch is committed as a whole, and whatever was stays so. *)
LEMMA CommitBatchAtomic ==
    ASSUME BatchInv, NEW t \in Threads, CommitBatch(t)
    PROVE  DiskInv' /\ PayloadInv' /\ BatchIsAtomic'
<1>0. DiskInv /\ PayloadInv /\ BatchIsAtomic /\ TypeOK
  BY DEF BatchInv, DiskInv, IInv
<1>1. /\ Ready(t) /\ store.lists = disk.lists /\ store.attempts = disk.attempts /\ IInv'
      /\ \/ UNCHANGED <<disk, payload>>
         \/ /\ disk' = BatchImage(t)
            /\ payload' = [payload EXCEPT ![plan[t].attempt] = Drafts(t)]
  BY CommitBatchMoves
<1>2. CASE UNCHANGED <<disk, payload>>
  <2>1. DiskInv' /\ PayloadInv'  BY <1>0, <1>1, <1>2 DEF DiskInv, WellFormed, PayloadInv
  <2>. QED  BY <1>0, <1>2, <2>1, AtomicStays
<1>3. CASE /\ disk' = BatchImage(t)
           /\ payload' = [payload EXCEPT ![plan[t].attempt] = Drafts(t)]
  <2>0. plan[t] \in Plan /\ rest[t] \in Seq(Draft)  BY <1>1 DEF Ready
  <2>attempt. PICK a \in Attempts : a = plan[t].attempt  BY <2>0 DEF Plan
  <2>drafts. PICK ds \in Seq(Draft) : ds = Drafts(t)  BY <2>0, DraftsAre
  <2>. DEFINE n == Len(ds)
  <2>1. /\ n \in Nat /\ n > 0
        /\ \A i \in 1 .. n : StillHolds(PlanOf(t, ds[i])) /\ ds[i] \in Draft
    <3>1. n = Len(rest[t]) + 1  BY <2>0, <2>drafts, DraftsAre
    <3>. QED  BY <1>1, <2>0, <2>drafts, <3>1 DEF Ready
  <2>2. /\ ListsAfter(t, n, disk')
        /\ disk'.attempts[a] # None
        /\ \A b \in Attempts \ {a} : disk'.attempts[b] = disk.attempts[b]
    BY <1>0, <1>1, <1>3, <2>attempt, <2>drafts, BatchImageIs
  <2>3. \A i \in 1 .. n : PlanOf(t, ds[i]).draft = ds[i]
    BY <1>1, <2>1, PlanOfIs DEF Ready
  <2>. HIDE DEF n
  <2>4. ASSUME NEW l \in Lists
        PROVE  /\ WellFormed(disk'.lists[l])
               /\ disk'.lists[l].attempt \in {disk.lists[l].attempt, a}
               /\ disk.lists[l].state \in Closed => disk'.lists[l].state \in Closed
               /\ disk'.lists[l].gen = IF \E i \in 1 .. n : ds[i].id = l
                                       THEN disk.lists[l].gen + 1 ELSE disk.lists[l].gen
    BY <1>1, <2>2, <2>attempt, <2>drafts DEF ListsAfter, n
  <2>5. DiskInv'
    <3>1. \A l \in Lists : WellFormed(disk'.lists[l])  BY <2>4
    <3>. QED  BY <1>1, <3>1 DEF DiskInv, WellFormed
  <2>6. \A l \in Lists : disk.lists[l].gen \in Nat
    BY <1>0 DEF TypeOK, Image, List
  <2>7. ListsGrow  BY <2>4, <2>6 DEF ListsGrow
  <2>8. PayloadInv'  BY <1>0, <1>3, <2>drafts DEF PayloadInv
  <2>9. ASSUME NEW b \in Attempts, disk'.attempts[b] = None, NEW l \in Lists
        PROVE  disk'.lists[l].attempt # b
    <3>1. b # a /\ disk.attempts[b] = None  BY <2>1, <2>2, <2>9
    <3>2. disk.lists[l].attempt # b  BY <1>0, <3>1 DEF BatchIsAtomic
    <3>. QED  BY <2>4, <3>1, <3>2
  <2>10. ASSUME NEW b \in Attempts, b # a PROVE Whole(b)'
    <3>1. payload'[b] = payload[b]  BY <1>0, <1>3, <2>10, <2>attempt DEF PayloadInv
    <3>2. CommittedDrafts(b)' = CommittedDrafts(b)
      BY <2>2, <2>10, <3>1 DEF CommittedDrafts
    <3>3. Whole(b)  BY <1>0 DEF BatchIsAtomic, Whole
    <3>. QED  BY <1>0, <2>5, <2>7, <3>2, <3>3, WholeStays
  <2>11. Whole(a)'
    <3>1. payload'[a] = ds /\ ds # <<>>
      BY <1>0, <1>3, <2>1, <2>attempt, <2>drafts DEF PayloadInv, n
    <3>2. CommittedDrafts(a)' = ds  BY <3>1 DEF CommittedDrafts
    <3>. SUFFICES ASSUME NEW i \in 1 .. n
                  PROVE  /\ disk'.lists[ds[i].id].gen > ds[i].expected
                         /\ Disjoint(ds) /\ ds[i].sup \notin {None, ds[i].id} =>
                                disk'.lists[ds[i].sup].state \in Closed
      BY <3>2 DEF Whole, Disjoint, Touches, n
    <3>3. ds[i].id \in Lists /\ ds[i].expected \in Nat  BY <2>1 DEF Draft
    <3>4. disk.lists[ds[i].id].gen = ds[i].expected
      BY <1>1, <2>1, <2>3 DEF StillHolds
    <3>5. disk'.lists[ds[i].id].gen = disk.lists[ds[i].id].gen + 1  BY <2>4, <3>3
    <3>6. Disjoint(ds) /\ ds[i].sup \notin {None, ds[i].id} =>
              disk'.lists[ds[i].sup].state \in Closed
      BY <2>2, <2>drafts DEF ListsAfter, n
    <3>. QED  BY <3>3, <3>4, <3>5, <3>6
  <2>12. BatchIsAtomic'
    <3>1. \A b \in Attempts : Whole(b)'  BY <2>10, <2>11
    <3>. QED  BY <2>9, <3>1 DEF BatchIsAtomic, Whole
  <2>. QED  BY <2>5, <2>8, <2>12
<1>. QED  BY <1>1, <1>2, <1>3
--------------------------------------------------------------------------------
(* The steps of the store. *)

(* Recovery and refresh leave alone which attempt wrote a list. *)
LEMMA WeakeningAttempts ==
    ASSUME DiskInv, KeepsLists \/ Reevaluates
    PROVE  /\ disk'.attempts = disk.attempts
           /\ \A l \in Lists : disk'.lists[l].attempt = disk.lists[l].attempt
<1>1. \A l \in Lists : disk.lists[l] \in List  BY DEF DiskInv, IInv, TypeOK, Image
<1>2. ASSUME NEW l \in List PROVE Recovered(l).attempt = l.attempt
  BY <1>2 DEF Recovered, List
<1>3. ASSUME NEW l \in List, NEW view, NEW e PROVE Refreshed(l, view, e).attempt = l.attempt
  <2>. DEFINE c == Evaluate(l, view, e)
  <2>1. Refreshed(l, view, e) = IF l.gen = 0 \/ l.state \in TerminalForActivation THEN l
            ELSE [l EXCEPT !.cur = c, !.state = IF c # "Current" /\ @ = "Active"
                                                THEN "RevalidationRequired" ELSE @]
    BY DEF Refreshed
  <2>. HIDE DEF c
  <2>. QED  BY <2>1 DEF List
<1>4. CASE KeepsLists  BY <1>1, <1>2, <1>4 DEF KeepsLists
<1>5. CASE Reevaluates
  <2>1. PICK view, e : disk'.lists = [l \in Lists |-> Refreshed(disk.lists[l], view, e)]
    BY <1>5 DEF Reevaluates
  <2>. QED  BY <1>1, <1>3, <1>5, <2>1 DEF Reevaluates
<1>. QED  BY <1>4, <1>5

(* A commit of a single draft leaves alone which attempt wrote the list it *)
(* supersedes.                                                             *)
LEMMA CommitAttempts ==
    ASSUME DiskInv, NEW t \in Threads, CommitsPlan(t)
    PROVE  \A l \in Lists : disk'.lists[l].attempt \in {disk.lists[l].attempt, plan[t].attempt}
<1>. DEFINE p   == plan[t]
            new == DraftApplied(store, p)
<1>1. /\ p \in Plan /\ StillHolds(p) /\ disk' = CommitImage(p) /\ store.lists = disk.lists
  BY DEF CommitsPlan, SavesPlan
<1>2. TypeOK /\ store \in Image  BY DEF DiskInv, IInv, TypeOK
<1>3. p.draft.sup # None => Permits(store.lists[p.draft.sup].state, "SupersedeBegin")
  BY <1>1 DEF StillHolds, SupersedeOk
<1>4. new \in Image  BY <1>1, <1>2, <1>3, DraftAppliedType
<1>5. /\ new.lists[p.draft.id] = MakeList(p)
      /\ p.draft.sup \in Lists \ {p.draft.id} =>
             new.lists[p.draft.sup].attempt = store.lists[p.draft.sup].attempt
      /\ \A l \in Lists \ {p.draft.id, p.draft.sup} : new.lists[l] = store.lists[l]
  BY <1>1, <1>2, <1>3, DraftMoves
<1>6. MakeList(p).attempt = p.attempt  BY DEF MakeList
<1>. HIDE DEF p, new
<1>7. disk'.lists = new.lists  BY <1>1, <1>2, <1>4, WithTablesType DEF CommitImage, new
<1>. QED  BY <1>1, <1>5, <1>6, <1>7 DEF p

(* No step of the store breaks up what was committed as a whole, and a     *)
(* commit of a single draft is one.                                        *)
LEMMA AtomicStep ==
    ASSUME DiskInv, TransitionsInv, PayloadInv, BatchIsAtomic, [Next]_vars, UNCHANGED payload
    PROVE  BatchIsAtomic'
<1>0. DiskInv' /\ ListsGrow  BY WellFormedStep, ListsGrowStep
<1>1. disk.attempts \in [Attempts -> Draft \cup {None}]  BY DEF DiskInv, IInv, TypeOK, Image
<1>2. ASSUME NEW b \in Attempts, CommittedDrafts(b)' = CommittedDrafts(b) PROVE Whole(b)'
  <2>1. Whole(b)  BY DEF BatchIsAtomic, Whole
  <2>. QED  BY <1>0, <1>2, <2>1, WholeStays
<1>3. CASE KeepsLists \/ Reevaluates
  <2>1. /\ disk'.attempts = disk.attempts
        /\ \A l \in Lists : disk'.lists[l].attempt = disk.lists[l].attempt
    BY <1>3, WeakeningAttempts
  <2>2. \A b \in Attempts : CommittedDrafts(b)' = CommittedDrafts(b)
    BY <2>1 DEF CommittedDrafts
  <2>3. \A b \in Attempts : Whole(b)'  BY <1>2, <2>2
  <2>. QED  BY <2>1, <2>3 DEF BatchIsAtomic, Whole
<1>4. ASSUME NEW t \in Threads, CommitsPlan(t) \/ TransitionsPlan(t)
      PROVE  BatchIsAtomic'
  <2>1. plan[t] \in Plan /\ StillHolds(plan[t]) /\ store.lists = disk.lists /\ pc[t] = "prepared"
    BY <1>4 DEF CommitsPlan, TransitionsPlan, SavesPlan
  <2>2. PICK p \in Plan : p = plan[t]  BY <2>1
  <2>3. /\ p.attempt \in Attempts /\ p.draft \in Draft
        /\ p.draft.id \in Lists /\ p.draft.expected \in Nat
    BY DEF Plan, Draft
  <2>4. Publishes(p) \/ Closes(p)  BY <1>4, <2>2, CommitPublishes, TransitionCloses
  <2>5. p.draft # None /\ disk'.attempts = [disk.attempts EXCEPT ![p.attempt] = p.draft]
    BY <2>4 DEF Publishes, Closes
  <2>6. /\ disk'.attempts[p.attempt] = p.draft
        /\ \A b \in Attempts \ {p.attempt} : disk'.attempts[b] = disk.attempts[b]
    BY <1>1, <2>3, <2>5
  <2>7. ASSUME NEW l \in Lists
        PROVE  disk'.lists[l].attempt \in {disk.lists[l].attempt, p.attempt}
    <3>1. CASE CommitsPlan(t)  BY <2>2, <3>1, CommitAttempts
    <3>2. CASE TransitionsPlan(t)
      <4>1. store \in Image /\ store.lists \in [Lists -> List]  BY DEF DiskInv, IInv, TypeOK, Image
      <4>2. CASE l = p.draft.id
        <5>1. disk' = TransitionImage(p)  BY <2>2, <3>2 DEF TransitionsPlan
        <5>2. disk'.lists[l].attempt = p.attempt
          BY <2>3, <4>1, <4>2, <5>1 DEF TransitionImage, WithTables, Image, List
        <5>. QED  BY <5>2
      <4>3. CASE l # p.draft.id
        <5>1. Closes(p)  BY <2>2, <3>2, TransitionCloses
        <5>. QED  BY <4>3, <5>1 DEF Closes
      <4>. QED  BY <4>2, <4>3
    <3>. QED  BY <1>4, <3>1, <3>2
  <2>8. ASSUME NEW b \in Attempts, disk'.attempts[b] = None, NEW l \in Lists
        PROVE  disk'.lists[l].attempt # b
    <3>1. b # p.attempt /\ disk.attempts[b] = None  BY <2>5, <2>6, <2>8
    <3>2. disk.lists[l].attempt # b  BY <3>1 DEF BatchIsAtomic
    <3>. QED  BY <2>7, <3>1, <3>2
  <2>9. ASSUME NEW b \in Attempts, b # p.attempt \/ payload[b] # <<>> PROVE Whole(b)'
    <3>1. CommittedDrafts(b)' = CommittedDrafts(b)  BY <2>6, <2>9 DEF CommittedDrafts
    <3>. QED  BY <1>2, <3>1
  <2>10. ASSUME payload[p.attempt] = <<>>, p.draft.needs # {} PROVE Whole(p.attempt)'
    <3>0. p.event \in CommitEvents /\ CommitsPlan(t)
      <4>1. p.event \notin TransitionEvents  BY <2>1, <2>2, <2>10 DEF TransitionsInv
      <4>. QED  BY <1>4, <2>2, <4>1 DEF CommitsPlan, TransitionsPlan
    <3>1. CommittedDrafts(p.attempt)' = <<p.draft>>
      BY <2>5, <2>6, <2>10 DEF CommittedDrafts
    <3>2. Publishes(p)  BY <2>2, <3>0, CommitPublishes
    <3>3. disk'.lists[p.draft.id].gen > p.draft.expected
      <4>1. disk.lists[p.draft.id].gen = p.draft.expected  BY <2>1, <2>2 DEF StillHolds
      <4>2. disk'.lists[p.draft.id].gen = disk.lists[p.draft.id].gen + 1
        BY <3>2 DEF Publishes
      <4>. QED  BY <2>3, <4>1, <4>2
    <3>4. p.draft.sup \notin {None, p.draft.id} => disk'.lists[p.draft.sup].state \in Closed
      <4>1. p.draft.sup \in Lists \cup {None}  BY <2>3 DEF Draft
      <4>. QED  BY <3>2, <4>1 DEF Publishes, Closed, TerminalForActivation
    <3>5. Len(<<p.draft>>) = 1 /\ \A i \in 1 .. 1 : <<p.draft>>[i] = p.draft  OBVIOUS
    <3>. QED  BY <3>1, <3>3, <3>4, <3>5 DEF Whole
  <2>11. ASSUME payload[p.attempt] = <<>>, p.draft.needs = {} PROVE Whole(p.attempt)'
    <3>1. CommittedDrafts(p.attempt)' = <<>>  BY <2>5, <2>6, <2>11 DEF CommittedDrafts
    <3>2. Len(<<>>) = 0 /\ 1 .. 0 = {}  OBVIOUS
    <3>. QED  BY <3>1, <3>2 DEF Whole
  <2>12. \A b \in Attempts : Whole(b)'  BY <2>9, <2>10, <2>11
  <2>. QED  BY <2>8, <2>12 DEF BatchIsAtomic, Whole
<1>5. DiskMoves  BY DiskStep DEF DiskInv
<1>. QED  BY <1>3, <1>4, <1>5 DEF DiskMoves

(* A call leaves the other threads alone. *)
LEMMA OthersKept ==
    ASSUME IInv, NEW t \in Threads, Call(t), NEW u \in Threads, u # t
    PROVE  Keeps(u)
<1>0. /\ pc \in [Threads -> PCs] /\ seen \in [Threads -> Observation]
      /\ request \in [Threads -> Draft \cup {None}] /\ plan \in [Threads -> Plan \cup {None}]
  BY DEF IInv, TypeOK
<1>1. ASSUME Return(t) PROVE Keeps(u)  BY <1>0, <1>1 DEF Return, Keeps
<1>2. ASSUME NEW image, NEW after, Save(t, image, after) PROVE Keeps(u)
  BY <1>0, <1>1, <1>2 DEF Save, Keeps
<1>3. ASSUME NEW q, Prepare(t, q) PROVE Keeps(u)  BY <1>0, <1>3 DEF Prepare, Keeps
<1>4. CASE ReadWatermark(t) \/ ReadSnapshot(t)
  BY <1>0, <1>4 DEF ReadWatermark, ReadSnapshot, Keeps
<1>5. CASE (\E a \in Attempts : Replay(t, a)) \/ Refuse(t) \/ RefuseCommit(t) \/ Swap(t)
  <2>1. Return(t)  BY <1>5 DEF Replay, Refuse, RefuseCommit, Swap
  <2>. QED  BY <1>1, <2>1
<1>6. CASE Mutate(t) \/ Revalidate(t) \/ Transition(t)
  <2>1. \E q : Prepare(t, q)
    BY <1>6, ZenonT(40) DEF Mutate, Revalidate, Transition, PrepareCommit, PrepareTransition
  <2>. QED  BY <1>3, <2>1
<1>7. CASE Commit(t) \/ CommitTransition(t) \/ RefreshApply(t) \/ RegisterSave(t) \/ PersistNow(t)
  <2>1. Return(t) \/ \E image, after : Save(t, image, after)
    BY <1>7 DEF Commit, CommitTransition, RefreshApply, RegisterSave, PersistNow
  <2>. QED  BY <1>1, <1>2, <2>1
<1>8. CASE \E id \in Lists, e \in 0 .. MaxGeneration : RevalidateRead(t, id, e)
  BY <1>0, <1>8 DEF RevalidateRead, Keeps
<1>9. CASE RefreshReadEvidence(t) \/ RefreshReadEpoch(t) \/ \E x \in RegistryDeps : Register(t, x)
  BY <1>0, <1>9 DEF RefreshReadEvidence, RefreshReadEpoch, Register, Keeps
<1>. QED  BY <1>4, <1>5, <1>6, <1>7, <1>8, <1>9 DEF Call

(* The same for one thread. *)
RestOf(u) ==
    rest[u] # <<>> =>
        /\ pc[u] = "prepared" /\ plan[u].event \in CommitEvents
        /\ plan[u].storeRev = store.revision =>
               \A i \in 1 .. Len(rest[u]) : StillHolds(PlanOf(u, rest[u][i]))

(* What was found out for a batch stays true while its thread waits.       *)
LEMMA RestStays ==
    ASSUME IInv, IInv', RestInv, NEW u \in Threads, rest'[u] = rest[u],
           rest[u] # <<>> =>
               Keeps(u) /\ (store' = store \/ store'.revision > store.revision)
    PROVE  RestOf(u)'
<1>. SUFFICES ASSUME rest[u] # <<>>
              PROVE  /\ pc'[u] = "prepared" /\ plan'[u].event \in CommitEvents
                     /\ plan'[u].storeRev = store'.revision =>
                            \A i \in 1 .. Len(rest[u]) : StillHolds(PlanOf(u, rest[u][i]))'
  BY DEF RestOf
<1>1. /\ pc[u] = "prepared" /\ plan[u].event \in CommitEvents
      /\ plan[u].storeRev = store.revision =>
             \A i \in 1 .. Len(rest[u]) : StillHolds(PlanOf(u, rest[u][i]))
  BY DEF RestInv
<1>2. pc'[u] = pc[u] /\ plan'[u] = plan[u]  BY DEF Keeps
<1>3. plan[u].storeRev <= store.revision /\ plan[u].storeRev \in Nat
  BY <1>1 DEF IInv, PlanInv, Plan
<1>4. store.revision \in Nat /\ store'.revision \in Nat  BY DEF IInv, TypeOK, Image
<1>5. CASE store' = store  BY <1>1, <1>2, <1>5 DEF StillHolds, PlanOf
<1>6. CASE store'.revision > store.revision  BY <1>1, <1>2, <1>3, <1>4, <1>6
<1>. QED  BY <1>5, <1>6

(* A transition is prepared with a draft that refers to nothing. *)
LEMMA TransitionsStep ==
    ASSUME IInv, TransitionsInv, [Next]_vars
    PROVE  TransitionsInv'
<1>. SUFFICES ASSUME NEW t \in Threads, pc'[t] = "prepared", plan'[t].event \in TransitionEvents
              PROVE  plan'[t].draft.needs = {}
  BY DEF TransitionsInv
<1>1. ThreadMoves(t)  BY ThreadStep
<1>2. CASE Keeps(t)  BY <1>2 DEF Keeps, TransitionsInv
<1>3. CASE Prepares(t)
  <2>1. PICK event \in CommitEvents \cup TransitionEvents, d \in Draft, a \in Attempts,
             b \in Boots :
          /\ plan'[t] = MakePlan(t, event, d, a, b)
          /\ event \in TransitionEvents => d.needs = {}
    BY <1>3 DEF Prepares
  <2>. QED  BY <2>1 DEF MakePlan
<1>. QED  BY <1>1, <1>2, <1>3 DEF ThreadMoves, Returns, Saves, Reads

(* A step of the store keeps the invariant of a batch. *)
LEMMA StoreStep ==
    ASSUME BatchInv, [Next]_vars, UNCHANGED payload,
           \/ \E t \in Threads : rest[t] = <<>> /\ Call(t) /\ UNCHANGED rest
           \/ (Environment \/ UNCHANGED vars) /\ UNCHANGED rest
           \/ Process /\ rest' = IF phase' = "down" THEN NoBatch ELSE rest
    PROVE  BatchInv'
<1>0. DiskInv /\ IInv /\ RestInv /\ TransitionsInv /\ PayloadInv /\ BatchIsAtomic
      /\ rest \in [Threads -> Seq(Draft)]
  BY DEF BatchInv, DiskInv
<1>1. DiskInv' /\ IInv'  BY <1>0, WellFormedStep DEF DiskInv
<1>2. TransitionsInv'  BY <1>0, TransitionsStep
<1>3. PayloadInv'  BY <1>0 DEF PayloadInv
<1>4. BatchIsAtomic'  BY <1>0, AtomicStep
<1>5. rest' \in [Threads -> Seq(Draft)]
  <2>1. NoBatch \in [Threads -> Seq(Draft)]  BY DEF NoBatch
  <2>. QED  BY <1>0, <2>1
<1>6. ASSUME NEW u \in Threads, Keeps(u), rest'[u] = rest[u] PROVE RestOf(u)'
  <2>1. rest[u] # <<>> => pc[u] = "prepared"  BY <1>0 DEF RestInv
  <2>2. rest[u] # <<>> => store' = store \/ store'.revision > store.revision
    BY <1>0, <1>6, <2>1, PreparedStays DEF Keeps
  <2>. QED  BY <1>0, <1>1, <1>6, <2>2, RestStays
<1>7. ASSUME NEW u \in Threads, rest'[u] = <<>> PROVE RestOf(u)'  BY <1>7 DEF RestOf
<1>8. ASSUME NEW u \in Threads PROVE RestOf(u)'
  <2>1. CASE \E t \in Threads : rest[t] = <<>> /\ Call(t) /\ UNCHANGED rest
    <3>1. PICK t \in Threads : rest[t] = <<>> /\ Call(t) /\ UNCHANGED rest  BY <2>1
    <3>2. CASE u = t  BY <1>7, <3>1, <3>2
    <3>3. CASE u # t  BY <1>0, <1>6, <3>1, <3>3, OthersKept
    <3>. QED  BY <3>2, <3>3
  <2>2. CASE (Environment \/ UNCHANGED vars) /\ UNCHANGED rest
    <3>1. UNCHANGED threads
      BY <2>2 DEF Environment, AdvanceRegistry, ChangeEvidence, AdvanceEpoch, RegisterPublisher,
                  MarkDead, FenceBoot, vars
    <3>. QED  BY <1>6, <2>2, <3>1 DEF threads, Keeps
  <2>3. CASE Process /\ rest' = IF phase' = "down" THEN NoBatch ELSE rest
    <3>1. CASE phase' = "down"  BY <1>7, <2>3, <3>1 DEF NoBatch
    <3>2. CASE phase' # "down"
      <4>1. UNCHANGED threads
        BY <2>3, <3>2 DEF Process, Crash, LoadNothing, Load, DeclareBuiltin, Serve
      <4>. QED  BY <1>6, <2>3, <3>2, <4>1 DEF threads, Keeps
    <3>. QED  BY <3>1, <3>2
  <2>. QED  BY <2>1, <2>2, <2>3
<1>9. RestInv'  BY <1>8 DEF RestInv, RestOf
<1>. QED  BY <1>1, <1>2, <1>3, <1>4, <1>5, <1>9 DEF BatchInv
--------------------------------------------------------------------------------
(* The steps of a batch keep its invariant. *)

(* A step of thread t that ends its batch or starts one, and leaves the    *)
(* store and the other threads alone.                                      *)
LEMMA BatchThreads ==
    ASSUME BatchInv, IInv', NEW t \in Threads, NEW s \in Seq(Draft),
           rest' = [rest EXCEPT ![t] = s], UNCHANGED store,
           \A u \in Threads \ {t} : Keeps(u),
           RestOf(t)',
           pc'[t] = "prepared" => plan'[t].event \notin TransitionEvents
    PROVE  rest' \in [Threads -> Seq(Draft)] /\ RestInv' /\ TransitionsInv'
<1>0. IInv /\ RestInv /\ TransitionsInv /\ rest \in [Threads -> Seq(Draft)]
  BY DEF BatchInv, DiskInv
<1>1. rest' \in [Threads -> Seq(Draft)]  BY <1>0
<1>2. ASSUME NEW u \in Threads, u # t PROVE RestOf(u)'
  <2>1. rest'[u] = rest[u] /\ Keeps(u)  BY <1>0, <1>2
  <2>. QED  BY <1>0, <2>1, RestStays
<1>3. RestInv'  BY <1>2 DEF RestInv, RestOf
<1>4. TransitionsInv'  BY <1>0 DEF TransitionsInv, Keeps
<1>. QED  BY <1>1, <1>3, <1>4

(* Phase E of a batch keeps the invariant: what it saves is atomic, and    *)
(* the thread has nothing prepared afterwards.                             *)
LEMMA CommitBatchStep ==
    ASSUME BatchInv, NEW t \in Threads, CommitBatch(t)
    PROVE  BatchInv'
<1>0. /\ pc \in [Threads -> PCs] /\ seen \in [Threads -> Observation]
      /\ request \in [Threads -> Draft \cup {None}] /\ plan \in [Threads -> Plan \cup {None}]
      /\ rest \in [Threads -> Seq(Draft)]
  BY DEF BatchInv, DiskInv, IInv, TypeOK
<1>1. DiskInv' /\ PayloadInv' /\ BatchIsAtomic'  BY CommitBatchAtomic
<1>2. IInv'  BY <1>1 DEF DiskInv
<1>3. /\ rest' = [rest EXCEPT ![t] = <<>>] /\ UNCHANGED store
      /\ Save(t, BatchImage(t), BatchImage(t))
  BY DEF CommitBatch
<1>4. pc'[t] \in {"saved", "idle"} /\ \A u \in Threads \ {t} : Keeps(u)
  BY <1>0, <1>3 DEF Save, Return, Keeps
<1>5. RestOf(t)' /\ pc'[t] # "prepared"  BY <1>0, <1>3, <1>4 DEF RestOf
<1>6. <<>> \in Seq(Draft)  OBVIOUS
<1>7. rest' \in [Threads -> Seq(Draft)] /\ RestInv' /\ TransitionsInv'
  BY <1>2, <1>3, <1>4, <1>5, <1>6, BatchThreads
<1>. QED  BY <1>1, <1>7 DEF BatchInv

(* A batch that is refused has changed nothing. *)
LEMMA RefuseBatchStep ==
    ASSUME BatchInv, NEW t \in Threads, RefuseBatch(t)
    PROVE  BatchInv'
<1>0. /\ pc \in [Threads -> PCs] /\ seen \in [Threads -> Observation]
      /\ request \in [Threads -> Draft \cup {None}] /\ plan \in [Threads -> Plan \cup {None}]
      /\ rest \in [Threads -> Seq(Draft)] /\ IInv /\ acked \in SUBSET Attempts
  BY DEF BatchInv, DiskInv, IInv, TypeOK
<1>1. /\ phase = "serving" /\ pc[t] = "prepared" /\ Return(t) /\ rest' = [rest EXCEPT ![t] = <<>>]
      /\ UNCHANGED <<phase, store, disk, upstream, authority, lock, pending, ghosts, payload>>
  BY DEF RefuseBatch, At
<1>2. IInv'  BY <1>0, <1>1, ReturnStep DEF ghosts
<1>3. DiskInv' /\ PayloadInv'  BY <1>1, <1>2 DEF BatchInv, DiskInv, WellFormed, PayloadInv
<1>4. BatchIsAtomic'  BY <1>1, <1>3, AtomicStays DEF BatchInv
<1>5. pc'[t] = "idle" /\ \A u \in Threads \ {t} : Keeps(u)
  BY <1>0, <1>1 DEF Return, Keeps
<1>6. RestOf(t)' /\ pc'[t] # "prepared"  BY <1>0, <1>1, <1>5 DEF RestOf
<1>7. <<>> \in Seq(Draft)  OBVIOUS
<1>8. rest' \in [Threads -> Seq(Draft)] /\ RestInv' /\ TransitionsInv'
  BY <1>1, <1>2, <1>5, <1>6, <1>7, BatchThreads
<1>. QED  BY <1>3, <1>4, <1>8 DEF BatchInv

(* A draft that is accepted for itself holds as long as the store has not  *)
(* moved.                                                                  *)
LEMMA AcceptedHolds ==
    ASSUME IInv, NEW d \in Draft, NEW intent \in CommitEvents, NEW q,
           q.draft = d, q.event \in CommitEvents, store.attempts[q.attempt] = None,
           LifecycleOk(store.lists[d.id], intent, d.expected), SupersedeOk(d, store.lists)
    PROVE  StillHolds(q)
<1>1. store.lists[d.id] \in List  BY DEF Draft, IInv, TypeOK, Image
<1>2. store.lists[d.id].state \in LifecycleState  BY <1>1 DEF List
<1>3. store.lists[d.id].gen # 0 => store.lists[d.id].state \notin Closed
  BY <1>2, ClosedAcceptsNone DEF LifecycleOk
<1>4. q.event \notin TransitionEvents  BY EventTypes
<1>5. store.lists[d.id].gen = d.expected  BY DEF LifecycleOk
<1>. QED  BY <1>3, <1>4, <1>5 DEF StillHolds

(* What a caller submits. *)
LEMMA SubmittedAre == ASSUME IInv PROVE SubmittedDrafts \subseteq Draft
<1>1. \A l \in Lists : store.lists[l].gen \in Nat  BY DEF IInv, TypeOK, Image, List
<1>2. ASSUME NEW id \in Lists, NEW body \in BatchBodies, NEW sup \in Lists \cup {None}
      PROVE  SubmittedDraft(id, body, sup) \in Draft
  <2>1. body \in Body  BY ConstantsAssumption, BatchAssumption
  <2>. QED  BY <1>1, <2>1 DEF SubmittedDraft, Draft, Body
<1>. QED  BY <1>2 DEF SubmittedDrafts

(* Phase B of a batch keeps the invariant: what it captured holds of every *)
(* draft.                                                                  *)
LEMMA SubmitBatchStep ==
    ASSUME BatchInv, NEW t \in Threads, SubmitBatch(t)
    PROVE  BatchInv'
<1>0. /\ pc \in [Threads -> PCs] /\ seen \in [Threads -> Observation]
      /\ request \in [Threads -> Draft \cup {None}] /\ plan \in [Threads -> Plan \cup {None}]
      /\ rest \in [Threads -> Seq(Draft)] /\ IInv
  BY DEF BatchInv, DiskInv, IInv, TypeOK
<1>1. PICK a \in Attempts, p \in Publishers, b \in Boots, n \in 2 .. MaxBatch :
          \E ds \in [1 .. n -> SubmittedDrafts] : PrepareBatch(t, ds, a, p, b)
  BY DEF SubmitBatch
<1>2. PICK ds \in [1 .. n -> SubmittedDrafts] : PrepareBatch(t, ds, a, p, b)  BY <1>1
<1>3. n \in Nat /\ n >= 2  BY BatchAssumption
<1>4. /\ ds \in Seq(Draft) /\ Len(ds) = n /\ \A i \in 1 .. n : ds[i] \in Draft
  BY <1>0, <1>3, SubmittedAre
<1>5. /\ Tail(ds) \in Seq(Draft) /\ Len(Tail(ds)) = n - 1
      /\ \A i \in 1 .. n - 1 : Tail(ds)[i] = ds[i + 1] /\ i + 1 \in 1 .. n
  BY <1>3, <1>4
<1>6. PICK event \in CommitEvents : event = IntentFor(ds[1].id)
  BY DEF IntentFor, CommitEvents
<1>7. PICK q : q = MakePlan(t, event, ds[1], a, b)  OBVIOUS
<1>8. /\ At(t, "snapshot") /\ store.attempts[a] = None /\ Prepare(t, q)
      /\ rest' = [rest EXCEPT ![t] = Tail(ds)] /\ UNCHANGED payload
  BY <1>2, <1>6, <1>7 DEF PrepareBatch
<1>9. ASSUME NEW i \in 1 .. n
      PROVE  /\ LifecycleOk(store.lists[ds[i].id], IntentFor(ds[i].id), ds[i].expected)
             /\ SupersedeOk(ds[i], store.lists)
             /\ IntentFor(ds[i].id) \in CommitEvents
  BY <1>2, <1>4 DEF PrepareBatch, IntentFor, CommitEvents
<1>10. /\ q \in Plan /\ q.storeRev = store.revision
       /\ q.draft = ds[1] /\ q.event = event /\ q.attempt = a
  <2>1. 1 \in 1 .. n  BY <1>3
  <2>. QED  BY <1>0, <1>4, <1>7, <2>1, MakePlanType DEF IInv, MakePlan
<1>11. ASSUME NEW i \in 1 .. n PROVE StillHolds([q EXCEPT !.draft = ds[i]])
  <2>. DEFINE r == [q EXCEPT !.draft = ds[i]]
  <2>1. r.draft = ds[i] /\ r.event = event /\ r.attempt = a  BY <1>10 DEF Plan
  <2>. HIDE DEF r
  <2>2. StillHolds(r)  BY <1>0, <1>4, <1>8, <1>9, <2>1, AcceptedHolds
  <2>. QED  BY <2>2 DEF r
<1>12. StillHolds(q)
  <2>1. 1 \in 1 .. n  BY <1>3
  <2>2. [q EXCEPT !.draft = ds[1]] = q  BY <1>10 DEF Plan
  <2>. QED  BY <1>11, <2>1, <2>2
<1>13. IInv'  BY <1>0, <1>8, <1>10, <1>12, PrepareStep
<1>14. /\ plan'[t] = q /\ pc'[t] = "prepared" /\ UNCHANGED <<store, disk>>
       /\ \A u \in Threads \ {t} : Keeps(u)
  BY <1>0, <1>8 DEF Prepare, Keeps
<1>15. rest'[t] = Tail(ds)  BY <1>0, <1>8
<1>16. RestOf(t)'
  <2>1. ASSUME NEW i \in 1 .. Len(rest'[t]) PROVE StillHolds(PlanOf(t, rest[t][i]))'
    <3>1. rest'[t][i] = ds[i + 1] /\ i + 1 \in 1 .. n  BY <1>5, <1>15
    <3>2. StillHolds([q EXCEPT !.draft = ds[i + 1]])  BY <1>11, <3>1
    <3>. QED  BY <1>14, <3>1, <3>2 DEF StillHolds, PlanOf
  <2>. QED  BY <1>10, <1>14, <2>1 DEF RestOf
<1>17. plan'[t].event \notin TransitionEvents  BY <1>10, <1>14, EventTypes
<1>18. rest' \in [Threads -> Seq(Draft)] /\ RestInv' /\ TransitionsInv'
  BY <1>5, <1>8, <1>13, <1>14, <1>16, <1>17, BatchThreads
<1>19. DiskInv' /\ PayloadInv'  BY <1>8, <1>13, <1>14 DEF BatchInv, DiskInv, WellFormed, PayloadInv
<1>20. BatchIsAtomic'  BY <1>8, <1>14, <1>19, AtomicStays DEF BatchInv
<1>. QED  BY <1>18, <1>19, <1>20 DEF BatchInv
--------------------------------------------------------------------------------
(* The theorems. *)

(* Every step of the store with batches keeps the invariant. *)
LEMMA BatchStep == BatchInv /\ [BatchNext]_batchVars => BatchInv'
<1>. SUFFICES ASSUME BatchInv, [BatchNext]_batchVars PROVE BatchInv'  OBVIOUS
<1>1. CASE \E t \in Threads : rest[t] = <<>> /\ Call(t) /\ UNCHANGED <<rest, payload>>
  <2>1. [Next]_vars  BY <1>1 DEF Next
  <2>. QED  BY <1>1, <2>1, StoreStep
<1>2. CASE \E t \in Threads : SubmitBatch(t) \/ CommitBatch(t) \/ RefuseBatch(t)
  BY <1>2, SubmitBatchStep, CommitBatchStep, RefuseBatchStep
<1>3. CASE Environment /\ UNCHANGED <<rest, payload>>
  <2>1. [Next]_vars  BY <1>3 DEF Next
  <2>. QED  BY <1>3, <2>1, StoreStep
<1>4. CASE Process /\ rest' = (IF phase' = "down" THEN NoBatch ELSE rest) /\ UNCHANGED payload
  <2>1. [Next]_vars  BY <1>4 DEF Next
  <2>. QED  BY <1>4, <2>1, StoreStep
<1>5. CASE UNCHANGED batchVars
  <2>1. UNCHANGED vars /\ UNCHANGED <<rest, payload>>  BY <1>5 DEF batchVars
  <2>. QED  BY <2>1, StoreStep
<1>. QED  BY <1>1, <1>2, <1>3, <1>4, <1>5 DEF BatchNext

(* The store with batches keeps, from its first state on, the invariant of *)
(* the store and what batches add to it.                                   *)
THEOREM BatchInvariance == BatchSpec => []BatchInv
<1>1. BatchInit => BatchInv
  <2>. SUFFICES ASSUME BatchInit PROVE BatchInv  OBVIOUS
  <2>1. IInv  BY InitInv DEF BatchInit
  <2>2. /\ \A l \in Lists : disk.lists[l] = NoList
        /\ \A a \in Attempts : disk.attempts[a] = None
    BY DEF BatchInit, Init, NoImage, InitImage
  <2>3. WellFormed(NoList) /\ NoList.attempt = None  BY DEF WellFormed, NoList
  <2>4. DiskInv  BY <2>1, <2>2, <2>3 DEF DiskInv
  <2>5. /\ rest \in [Threads -> Seq(Draft)] /\ payload \in [Attempts -> Seq(Draft)]
        /\ \A t \in Threads : rest[t] = <<>> /\ pc[t] = "idle"
    BY DEF BatchInit, NoBatch, Init
  <2>6. ASSUME NEW a \in Attempts
        PROVE  /\ \A l \in Lists : disk.lists[l].attempt # a
               /\ CommittedDrafts(a) = <<>>
    <3>1. payload[a] = <<>>  BY DEF BatchInit
    <3>. QED  BY <2>2, <2>3, <3>1, ConstantsAssumption DEF CommittedDrafts
  <2>7. BatchIsAtomic
    <3>1. Len(<<>>) = 0 /\ 1 .. 0 = {}  OBVIOUS
    <3>. QED  BY <2>6, <3>1 DEF BatchIsAtomic
  <2>. QED  BY <2>4, <2>5, <2>7 DEF BatchInv, RestInv, TransitionsInv, PayloadInv
<1>. QED  BY <1>1, BatchStep, PTL DEF BatchSpec

(* A batch of any length is durable as a whole or not at all, with any     *)
(* number of other calls racing with it, saves failing and the coordinator *)
(* crashing anywhere: under an attempt that is recorded every draft was    *)
(* committed, and under one that is not none was.                          *)
THEOREM BatchesAreAtomic == BatchSpec => []BatchIsAtomic
<1>1. BatchInv => BatchIsAtomic  BY DEF BatchInv
<1>. QED  BY <1>1, BatchInvariance, PTL

(* Callers see what is durable, with batches too: what no crash can take   *)
(* back.                                                                   *)
THEOREM BatchesAreDurable == BatchSpec => [](TypeOK /\ VisibleIsDurable)
<1>1. BatchInv => TypeOK /\ VisibleIsDurable
  BY DEF BatchInv, DiskInv, IInv, DurableInv, VisibleIsDurable
<1>. QED  BY <1>1, BatchInvariance, PTL

(* What a step does to each list, with batches too: its attempt was not    *)
(* recorded if it has a new generation, which is the next one; and it      *)
(* stays closed if it was.                                                 *)
LEMMA BatchPromises ==
    BatchInv /\ [BatchNext]_batchVars =>
        \A l \in Lists :
            /\ Commits(l) => disk.attempts[disk'.lists[l].attempt] = None
            /\ disk.lists[l].state \in Closed =>
                   disk'.lists[l].state \in Closed /\ disk'.lists[l].gen = disk.lists[l].gen
            /\ \/ disk'.lists[l].gen = disk.lists[l].gen + 1
               \/ /\ disk'.lists[l].gen = disk.lists[l].gen
                  /\ Content(disk'.lists[l]) = Content(disk.lists[l])
<1>. SUFFICES ASSUME BatchInv, [BatchNext]_batchVars, NEW l \in Lists
              PROVE  /\ Commits(l) => disk.attempts[disk'.lists[l].attempt] = None
                     /\ disk.lists[l].state \in Closed =>
                            /\ disk'.lists[l].state \in Closed
                            /\ disk'.lists[l].gen = disk.lists[l].gen
                     /\ \/ disk'.lists[l].gen = disk.lists[l].gen + 1
                        \/ /\ disk'.lists[l].gen = disk.lists[l].gen
                           /\ Content(disk'.lists[l]) = Content(disk.lists[l])
  OBVIOUS
<1>0. DiskInv /\ TypeOK  BY DEF BatchInv, DiskInv, IInv
<1>1. CASE [Next]_vars  BY <1>0, <1>1, OnceStep, ClosedStep, RevisionsStep
<1>2. CASE UNCHANGED disk  BY <1>2 DEF Commits
<1>3. CASE \E t \in Threads : CommitBatch(t)
  <2>1. PICK t \in Threads : CommitBatch(t)  BY <1>3
  <2>2. /\ Ready(t) /\ store.lists = disk.lists /\ store.attempts = disk.attempts
        /\ UNCHANGED disk \/ disk' = BatchImage(t)
    BY <2>1, CommitBatchMoves
  <2>3. CASE disk' = BatchImage(t)
    <3>. DEFINE n == Len(Drafts(t))
    <3>1. ListsAfter(t, n, disk')  BY <1>0, <2>2, <2>3, BatchImageIs
    <3>2. /\ disk.lists[l].state \in Closed => disk'.lists[l].state \in Closed
          /\ IF \E i \in 1 .. n : Drafts(t)[i].id = l
             THEN /\ disk.lists[l].state \notin Closed
                  /\ disk'.lists[l].gen = disk.lists[l].gen + 1
                  /\ disk'.lists[l].attempt = plan[t].attempt
             ELSE /\ disk'.lists[l].gen = disk.lists[l].gen
                  /\ Content(disk'.lists[l]) = Content(disk.lists[l])
      BY <2>2, <3>1 DEF ListsAfter
    <3>3. store.attempts[plan[t].attempt] = None
      <4>1. plan[t] \in Plan /\ rest[t] \in Seq(Draft) /\ plan[t].event \in CommitEvents
        BY <2>2 DEF Ready
      <4>2. 1 \in 1 .. Len(Drafts(t)) /\ Drafts(t)[1] = plan[t].draft
        BY <4>1, DraftsAre
      <4>3. StillHolds(PlanOf(t, plan[t].draft))  BY <2>2, <4>2 DEF Ready
      <4>4. PlanOf(t, plan[t].draft) = plan[t]  BY <4>1 DEF PlanOf, Plan
      <4>. QED  BY <4>1, <4>3, <4>4 DEF StillHolds
    <3>. QED  BY <2>2, <3>2, <3>3 DEF Commits
  <2>. QED  BY <1>2, <2>2, <2>3
<1>4. CASE \E t \in Threads : SubmitBatch(t) \/ RefuseBatch(t)
  <2>1. UNCHANGED disk
    BY <1>4 DEF SubmitBatch, PrepareBatch, Prepare, RefuseBatch
  <2>. QED  BY <1>2, <2>1
<1>5. CASE \/ \E t \in Threads : Call(t)
           \/ Environment \/ Process \/ UNCHANGED batchVars
  BY <1>1, <1>5 DEF Next, batchVars
<1>. QED  BY <1>3, <1>4, <1>5 DEF BatchNext

(* What single commits promise, batches keep, also those whose drafts meet *)
(* in one list: nothing is committed twice under one attempt, a lineage    *)
(* that is closed in the state file stays closed, and generations advance  *)
(* one at a time and keep their content.                                   *)
THEOREM BatchesKeepPromises ==
    BatchSpec => AttemptAppliedOnce /\ LineagesStayClosed /\ RevisionsAreImmutable
<1>1. BatchInv /\ [BatchNext]_batchVars =>
          \A l \in Lists : Commits(l) => disk.attempts[disk'.lists[l].attempt] = None
  BY BatchPromises
<1>2. BatchInv /\ [BatchNext]_batchVars =>
          \A l \in Lists :
              disk.lists[l].state \in Closed =>
                  /\ disk'.lists[l].state \in Closed
                  /\ disk'.lists[l].gen = disk.lists[l].gen
  BY BatchPromises
<1>3. BatchInv /\ [BatchNext]_batchVars =>
          \A l \in Lists :
              \/ disk'.lists[l].gen = disk.lists[l].gen + 1
              \/ /\ disk'.lists[l].gen = disk.lists[l].gen
                 /\ Content(disk'.lists[l]) = Content(disk.lists[l])
  BY BatchPromises
<1>. QED
  BY <1>1, <1>2, <1>3, BatchInvariance, PTL
  DEF BatchSpec, AttemptAppliedOnce, LineagesStayClosed, RevisionsAreImmutable
--------------------------------------------------------------------------------
(***************************************************************************)
(* Images with batches among the calls.  What ImageInv says of a single    *)
(* draft, validated against what its call captured, is needed of every     *)
(* draft of a batch; then the image a batch saves is as good as the one it *)
(* is built from, and what follows from ImageInv follows with batches too. *)
(***************************************************************************)

(* The other drafts of a batch were validated against what its call        *)
(* captured, as the first was.                                             *)
RestCaptured ==
    \A t \in Threads : \A i \in 1 .. Len(rest[t]) :
        /\ Tight(rest[t][i].needs, rest[t][i].bind)
        /\ Resolves(rest[t][i], plan[t].view)

(* The inductive invariant. *)
BatchImageInv == BatchInv /\ ImageInv /\ RestCaptured

(* What make_list builds of draft d for thread t, as far as it matters     *)
(* here: what the list refers to, what it is bound to and who wrote it.    *)
BoundBy(t, d, l) ==
    /\ l.needs = d.needs /\ l.bound = Bind(d, plan[t].view)
    /\ l.boot = plan[t].boot /\ l.epoch = plan[t].epoch

(* What the lists are bound to after the first k drafts: those without a   *)
(* draft to what they were, the others to what a draft of theirs resolved; *)
(* and the history has no gap.                                             *)
BoundAfter(t, k, image) ==
    /\ Gapless(image.history)
    /\ k > 0 => image.epoch = plan[t].epoch
    /\ \A l \in Lists :
           \/ /\ SameBinding(store.lists[l], image.lists[l])
              /\ Available(image.lists[l]) => Available(store.lists[l])
           \/ \E i \in 1 .. k : Drafts(t)[i].id = l /\ BoundBy(t, Drafts(t)[i], image.lists[l])

(* Applying one draft: the superseded list keeps its binding and is not    *)
(* available, and up to three entries are appended to the history.         *)
LEMMA DraftBinds ==
    ASSUME TypeOK, NEW base \in Image, NEW p \in Plan,
           p.draft.sup # None => Permits(base.lists[p.draft.sup].state, "SupersedeBegin"),
           Gapless(base.history)
    PROVE  LET new == DraftApplied(base, p)
           IN  /\ Gapless(new.history) /\ new.epoch = p.epoch
               /\ new.lists[p.draft.id] = MakeList(p)
               /\ \A l \in Lists \ {p.draft.id} :
                      /\ SameBinding(base.lists[l], new.lists[l])
                      /\ Available(new.lists[l]) => Available(base.lists[l])
<1>. DEFINE id    == p.draft.id
            sup   == p.draft.sup
            rev   == store.revision + 1
            lists == IF sup = None THEN base.lists
                     ELSE [base.lists EXCEPT ![sup] = Supersede(@, p)]
            h1    == IF sup = None THEN base.history
                     ELSE AppendHistory(base.history, sup, lists[sup], rev)
            old   == [lists[id] EXCEPT !.state = "Superseded"]
            h2    == IF lists[id].gen = 0 THEN h1 ELSE AppendHistory(h1, id, old, rev)
            h3    == AppendHistory(h2, id, MakeList(p), rev)
            new   == DraftApplied(base, p)
<1>1. /\ id \in Lists /\ sup \in Lists \cup {None}  BY DEF Plan, Draft
<1>2. /\ base.lists \in [Lists -> List] /\ base.history \in Seq(HistoryEntry) /\ rev \in Nat
  BY DEF TypeOK, Image
<1>3. /\ new.history = h3 /\ new.epoch = p.epoch
      /\ new.lists = [lists EXCEPT ![id] = MakeList(p)]
  BY DEF DraftApplied, Image
<1>4. ASSUME sup # None
      PROVE  /\ Supersede(base.lists[sup], p) \in List
             /\ SameBinding(base.lists[sup], Supersede(base.lists[sup], p))
             /\ ~ Available(Supersede(base.lists[sup], p))
  <2>1. sup \in Lists /\ base.lists[sup] \in List  BY <1>1, <1>2, <1>4
  <2>2. base.lists[sup].state \in LifecycleState  BY <2>1 DEF List
  <2>3. Advance(base.lists[sup].state, "SupersedeBegin") = "Superseded"
    BY <1>4, <2>2, SupersedeLeads
  <2>4. "Superseded" \in LifecycleState /\ "Unknown" \in Currentness
    BY DEF LifecycleState, Currentness
  <2>. QED  BY <1>1, <1>2, <2>1, <2>3, <2>4 DEF Supersede, SameBinding, Available, List
<1>5. /\ lists \in [Lists -> List]
      /\ \A l \in Lists : /\ SameBinding(base.lists[l], lists[l])
                          /\ Available(lists[l]) => Available(base.lists[l])
  <2>1. CASE sup = None  BY <1>2, <2>1 DEF SameBinding
  <2>2. CASE sup # None
    <3>1. sup \in Lists  BY <1>1, <2>2
    <3>2. /\ lists \in [Lists -> List] /\ lists[sup] = Supersede(base.lists[sup], p)
          /\ \A l \in Lists \ {sup} : lists[l] = base.lists[l]
      BY <1>2, <1>4, <2>2, <3>1
    <3>. HIDE DEF lists
    <3>. QED  BY <1>4, <2>2, <3>2 DEF SameBinding
  <2>. QED  BY <2>1, <2>2
<1>6. lists[id] \in List /\ MakeList(p) \in List  BY <1>1, <1>5, MakeListType
<1>7. old \in List  BY <1>6 DEF List, LifecycleState
<1>. HIDE DEF lists, rev, old, new
<1>8. h1 \in Seq(HistoryEntry) /\ Gapless(h1)
  <2>1. CASE sup = None  BY <1>2, <2>1
  <2>2. CASE sup # None
    <3>1. sup \in Lists /\ lists[sup] \in List  BY <1>1, <1>5, <2>2
    <3>. QED  BY <1>2, <2>2, <3>1, AppendHistoryType, AppendGapless
  <2>. QED  BY <2>1, <2>2
<1>. HIDE DEF h1
<1>9. h2 \in Seq(HistoryEntry) /\ Gapless(h2)
  <2>1. CASE lists[id].gen = 0  BY <1>8, <2>1
  <2>2. CASE lists[id].gen # 0
    BY <1>1, <1>2, <1>7, <1>8, <2>2, AppendHistoryType, AppendGapless
  <2>. QED  BY <2>1, <2>2
<1>. HIDE DEF h2
<1>10. Gapless(h3)  BY <1>9, AppendGapless
<1>. HIDE DEF h3
<1>11. /\ new.lists[id] = MakeList(p)
       /\ \A l \in Lists \ {id} : new.lists[l] = lists[l]
  BY <1>1, <1>3, <1>5
<1>. QED  BY <1>3, <1>5, <1>10, <1>11 DEF new, id

(* What does not change from one image to the next and to a third. *)
LEMMA SameBindingOnce ==
    ASSUME NEW l, NEW m, NEW n, SameBinding(l, m), SameBinding(m, n)
    PROVE  SameBinding(l, n)
BY DEF SameBinding

(* One more draft. *)
LEMMA BoundStep ==
    ASSUME TypeOK, NEW t \in Threads, Ready(t), NEW k \in 1 .. Len(Drafts(t)),
           BoundAfter(t, k - 1, ImageAfter(t)[k - 1])
    PROVE  BoundAfter(t, k, ImageAfter(t)[k])
<1>. DEFINE ds   == Drafts(t)
            base == ImageAfter(t)[k - 1]
            new  == ImageAfter(t)[k]
            d    == ds[k]
            p    == PlanOf(t, d)
<1>1. plan[t] \in Plan /\ rest[t] \in Seq(Draft)  BY DEF Ready
<1>2. ds \in Seq(Draft) /\ Len(ds) \in Nat /\ \A i \in 1 .. Len(ds) : ds[i] \in Draft
  BY <1>1, DraftsAre
<1>3. d \in Draft /\ d.id \in Lists  BY <1>2 DEF Draft
<1>4. p \in Plan /\ p.draft = d  BY <1>1, <1>3, PlanOfIs
<1>5. p.view = plan[t].view /\ p.boot = plan[t].boot /\ p.epoch = plan[t].epoch
  BY <1>1, <1>3 DEF PlanOf, Plan
<1>6. base \in Image
  <2>1. k - 1 \in 0 .. Len(ds)  BY <1>2
  <2>. QED  BY <2>1, AfterAll DEF After
<1>7. new = DraftApplied(base, p)  BY <1>2, ImagesAre
<1>8. d.sup # None => Permits(base.lists[d.sup].state, "SupersedeBegin")
  BY DEF Ready, Denied
<1>9. BoundAfter(t, k - 1, base)  OBVIOUS
<1>. HIDE DEF base, new, d, p
<1>10. /\ Gapless(new.history) /\ new.epoch = plan[t].epoch
       /\ new.lists[d.id] = MakeList(p)
       /\ \A l \in Lists \ {d.id} :
              /\ SameBinding(base.lists[l], new.lists[l])
              /\ Available(new.lists[l]) => Available(base.lists[l])
  BY <1>4, <1>5, <1>6, <1>7, <1>8, <1>9, DraftBinds DEF BoundAfter
<1>11. BoundBy(t, d, new.lists[d.id])  BY <1>4, <1>5, <1>10, MakeListFields DEF BoundBy
<1>12. k \in Nat /\ k > 0 /\ k \in 1 .. k /\ (1 .. k - 1) \subseteq (1 .. k)  BY <1>2 DEF ds
<1>13. ASSUME NEW l \in Lists
       PROVE  \/ /\ SameBinding(store.lists[l], new.lists[l])
                 /\ Available(new.lists[l]) => Available(store.lists[l])
              \/ \E i \in 1 .. k : ds[i].id = l /\ BoundBy(t, ds[i], new.lists[l])
  <2>1. CASE l = d.id  BY <1>11, <1>12, <2>1 DEF d
  <2>2. CASE l # d.id
    <3>1. /\ SameBinding(base.lists[l], new.lists[l])
          /\ Available(new.lists[l]) => Available(base.lists[l])
      BY <1>10, <2>2
    <3>2. CASE /\ SameBinding(store.lists[l], base.lists[l])
               /\ Available(base.lists[l]) => Available(store.lists[l])
      BY <3>1, <3>2, SameBindingOnce
    <3>3. CASE \E i \in 1 .. k - 1 : ds[i].id = l /\ BoundBy(t, ds[i], base.lists[l])
      BY <1>12, <3>1, <3>3 DEF BoundBy, SameBinding
    <3>. QED  BY <1>9, <3>2, <3>3 DEF BoundAfter
  <2>. QED  BY <2>1, <2>2
<1>. QED  BY <1>10, <1>13 DEF BoundAfter, new

(* All drafts. *)
LEMMA BoundAll ==
    ASSUME TypeOK, NEW t \in Threads, Ready(t), Gapless(store.history)
    PROVE  \A k \in 0 .. Len(Drafts(t)) : BoundAfter(t, k, ImageAfter(t)[k])
<1>. DEFINE S == {k \in 0 .. Len(Drafts(t)) : ~ BoundAfter(t, k, ImageAfter(t)[k])}
<1>. SUFFICES ASSUME S # {} PROVE FALSE  OBVIOUS
<1>1. Drafts(t) \in Seq(Draft) /\ Len(Drafts(t)) \in Nat  BY DraftsAre DEF Ready
<1>2. S \in SUBSET Nat  BY <1>1
<1>3. PICK k \in S : \A j \in S : k <= j
  <2>. HIDE DEF S
  <2>. QED  BY <1>2, Least
<1>4. k \in 0 .. Len(Drafts(t)) /\ ~ BoundAfter(t, k, ImageAfter(t)[k])  OBVIOUS
<1>5. CASE k = 0
  <2>1. ImageAfter(t)[0] = store  BY <1>1, ImagesAre
  <2>2. BoundAfter(t, 0, store)  BY DEF BoundAfter, SameBinding
  <2>. QED  BY <1>4, <1>5, <2>1, <2>2
<1>6. CASE k # 0
  <2>1. k \in 1 .. Len(Drafts(t)) /\ k - 1 \in 0 .. Len(Drafts(t)) /\ ~ (k <= k - 1)
    BY <1>1, <1>4, <1>6
  <2>2. k - 1 \notin S
    <3>. HIDE DEF S
    <3>. QED  BY <1>3, <2>1
  <2>3. BoundAfter(t, k - 1, ImageAfter(t)[k - 1])  BY <2>1, <2>2
  <2>. QED  BY <1>4, <2>1, <2>3, BoundStep
<1>. QED  BY <1>5, <1>6

(* The lists, the history and the tables of the image a batch saves. *)
LEMMA BatchImageFields ==
    ASSUME TypeOK, NEW t \in Threads, Ready(t), Gapless(store.history)
    PROVE  LET image == BatchImage(t)
           IN  /\ BoundAfter(t, Len(Drafts(t)), image) /\ image.epoch = plan[t].epoch
               /\ image.regs = registry.gen /\ image.pubs = publishers
               /\ image.fenced = fencedBoots
               /\ \E d \in Draft : image.attempts = [store.attempts EXCEPT ![plan[t].attempt] = d]
<1>. DEFINE n     == Len(Drafts(t))
            a     == plan[t].attempt
            built == ImageAfter(t)[n]
            image == [built EXCEPT !.attempts[a] = [@ EXCEPT !.segs = 0]]
            saved == BatchImage(t)
<1>1. plan[t] \in Plan /\ rest[t] \in Seq(Draft) /\ a \in Attempts  BY DEF Ready, Plan
<1>2. n = Len(rest[t]) + 1 /\ n \in Nat /\ n > 0 /\ n \in 0 .. n  BY <1>1, DraftsAre
<1>3. BoundAfter(t, n, built)  BY <1>2, BoundAll
<1>4. built \in Image /\ built.attempts[a] \in Draft
  <2>1. After(t, n)  BY <1>2, AfterAll
  <2>. QED  BY <1>2, <2>1 DEF After, AttemptsAfter
<1>5. saved = WithTables(image)  BY <1>2 DEF BatchImage
<1>6. /\ saved \in Image /\ saved.attempts[a] # None
      /\ \A b \in Attempts \ {a} : saved.attempts[b] = store.attempts[b]
  BY BatchImageIs
<1>. HIDE DEF n, a, built, saved
<1>7. [built.attempts[a] EXCEPT !.segs = 0] \in Draft  BY <1>4 DEF Draft
<1>8. /\ image \in Image /\ image.lists = built.lists /\ image.history = built.history
      /\ image.epoch = built.epoch
  BY <1>1, <1>4, <1>7 DEF Image
<1>. HIDE DEF image
<1>9. /\ saved.lists = built.lists /\ saved.history = built.history /\ saved.epoch = built.epoch
      /\ saved.regs = registry.gen /\ saved.pubs = publishers /\ saved.fenced = fencedBoots
  BY <1>5, <1>8, WithTablesType, WithTablesFields
<1>10. BoundAfter(t, n, saved)  BY <1>3, <1>9 DEF BoundAfter
<1>11. saved.epoch = plan[t].epoch  BY <1>2, <1>10 DEF BoundAfter
<1>12. \E d \in Draft : saved.attempts = [store.attempts EXCEPT ![a] = d]
  <2>1. /\ saved.attempts \in [Attempts -> Draft \cup {None}]
        /\ store.attempts \in [Attempts -> Draft \cup {None}]
    BY <1>6, StoreTypes DEF Image
  <2>2. PICK d \in Draft : d = saved.attempts[a]  BY <1>1, <1>6, <2>1
  <2>3. saved.attempts = [store.attempts EXCEPT ![a] = d]  BY <1>6, <2>1, <2>2
  <2>. QED  BY <2>3
<1>. QED  BY <1>9, <1>10, <1>11, <1>12 DEF n, a, saved

(* Phase E of a batch: every draft is bound to what is in force. *)
LEMMA DraftsAreCurrent ==
    ASSUME BatchImageInv, NEW t \in Threads, CommitBatch(t),
           NEW i \in 1 .. Len(Drafts(t)), NEW l, BoundBy(t, Drafts(t)[i], l)
    PROVE  /\ Tight(l.needs, l.bound)
           /\ \A x \in Deps : x \in l.needs \/ l.bound[x] # 0 => l.bound[x] = CurrentView[x]
           /\ l.epoch = epoch /\ l.boot \in LiveBoots \ {None}
<1>0. TypeOK /\ CapturedInv /\ EvidenceInv
  BY DEF BatchImageInv, ImageInv, DiskInv, IInv
<1>1. /\ Ready(t) /\ pc[t] = "prepared"  BY CommitBatchMoves DEF BatchImageInv
<1>2. Verified(t)  BY DEF CommitBatch, BatchVerified
<1>3. /\ plan[t] \in Plan /\ plan[t].event \in CommitEvents /\ rest[t] \in Seq(Draft)
  BY <1>1 DEF Ready
<1>4. plan[t].view \in View /\ plan[t].boot \in Boots  BY <1>3 DEF Plan
<1>. DEFINE d == Drafts(t)[i]
<1>5. /\ Drafts(t) \in Seq(Draft) /\ Len(Drafts(t)) = Len(rest[t]) + 1
      /\ Drafts(t)[1] = plan[t].draft
      /\ \A j \in 1 .. Len(rest[t]) : Drafts(t)[j + 1] = rest[t][j]
  BY <1>3, DraftsAre
<1>6. d \in Draft  BY <1>5
<1>7. Tight(d.needs, d.bind) /\ Resolves(d, plan[t].view)
  <2>1. CASE i = 1  BY <1>0, <1>1, <1>3, <1>5, <2>1 DEF CapturedInv
  <2>2. CASE i # 1
    <3>1. i - 1 \in 1 .. Len(rest[t]) /\ (i - 1) + 1 = i  BY <1>3, <1>5, <2>2
    <3>2. d = rest[t][i - 1]  BY <1>5, <3>1
    <3>. QED  BY <3>1, <3>2 DEF BatchImageInv, RestCaptured
  <2>. QED  BY <2>1, <2>2
<1>8. \A x \in Deps : plan[t].view[x] = CurrentView[x]
  BY <1>0, <1>1, <1>2, <1>3, VerifiedIsCurrent
<1>9. plan[t].epoch = epoch  BY <1>2 DEF Verified
<1>10. plan[t].boot \in LiveBoots \ {None}  BY <1>0, <1>1, <1>4, ConstantsAssumption DEF CapturedInv
<1>11. BoundBy(t, d, l)  OBVIOUS
<1>. HIDE DEF d
<1>12. /\ Tight(d.needs, Bind(d, plan[t].view))
       /\ \A x \in Deps : x \in d.needs \/ Bind(d, plan[t].view)[x] # 0
                              => Bind(d, plan[t].view)[x] = plan[t].view[x]
  BY <1>4, <1>6, <1>7, BindResolves
<1>. QED  BY <1>8, <1>9, <1>10, <1>11, <1>12 DEF BoundBy

(* The image a batch saves is as good as the one callers see. *)
LEMMA BatchImageOk ==
    ASSUME BatchImageInv, NEW t \in Threads, CommitBatch(t)
    PROVE  ImageOk(BatchImage(t)) /\ Behind(BatchImage(t))
<1>0. /\ IInv /\ TypeOK /\ CapturedInv /\ ImageOk(store) /\ Behind(store)
  BY DEF BatchImageInv, ImageInv, ImagesInv, DiskInv, IInv
<1>1. Ready(t) /\ pc[t] = "prepared"  BY CommitBatchMoves DEF BatchImageInv
<1>2. Verified(t)  BY DEF CommitBatch, BatchVerified
<1>3. plan[t].attempt \in Attempts  BY <1>1 DEF Ready, Plan
<1>4. Gapless(store.history) /\ TableBounded(store)  BY <1>0 DEF ImageOk
<1>. DEFINE i == BatchImage(t)
<1>5. /\ BoundAfter(t, Len(Drafts(t)), i)
      /\ i.regs = registry.gen /\ i.pubs = publishers /\ i.fenced = fencedBoots
      /\ \E d \in Draft : i.attempts = [store.attempts EXCEPT ![plan[t].attempt] = d]
  BY <1>0, <1>1, <1>4, BatchImageFields
<1>. HIDE DEF i
<1>6. BootsOf(i) = LiveBoots  BY <1>5 DEF BootsOf, LiveBoots
<1>7. ASSUME NEW l \in Lists
      PROVE  /\ i.lists[l].gen # 0 => i.lists[l].boot \in LiveBoots \ {None}
             /\ \A x \in RegistryDeps : i.lists[l].bound[x] <= registry.gen[x]
             /\ Tight(i.lists[l].needs, i.lists[l].bound)
  <2>1. CASE SameBinding(store.lists[l], i.lists[l])
    <3>1. i.lists[l].gen # 0 => i.lists[l].boot \in LiveBoots \ {None}
      BY <1>0, <2>1 DEF SameBinding, ImageOk, WritersKnown, Behind
    <3>2. ASSUME NEW x \in RegistryDeps PROVE store.lists[l].bound[x] <= registry.gen[x]
      <4>1. /\ store.lists[l].bound[x] \in Nat /\ store.regs[x] \in Nat
            /\ registry.gen[x] \in Nat
        BY <1>0, StoreTypes DEF View, Deps
      <4>. QED  BY <1>0, <4>1 DEF ImageOk, BoundRegistered, Behind
    <3>. QED  BY <1>0, <2>1, <3>1, <3>2 DEF SameBinding, ImageOk
  <2>2. CASE \E k \in 1 .. Len(Drafts(t)) : BoundBy(t, Drafts(t)[k], i.lists[l])
    <3>1. /\ Tight(i.lists[l].needs, i.lists[l].bound)
          /\ \A x \in Deps : i.lists[l].bound[x] # 0 => i.lists[l].bound[x] = CurrentView[x]
          /\ i.lists[l].boot \in LiveBoots \ {None}
      BY <2>2, DraftsAreCurrent
    <3>2. ASSUME NEW x \in RegistryDeps PROVE i.lists[l].bound[x] <= registry.gen[x]
      <4>1. x \in Deps /\ registry.gen[x] \in Nat /\ CurrentView[x] = registry.gen[x]
        BY <1>0, StoreTypes DEF Deps, CurrentView
      <4>. QED  BY <3>1, <4>1
    <3>. QED  BY <3>1, <3>2
  <2>. QED  BY <1>5, <2>1, <2>2 DEF BoundAfter
<1>8. TableBounded(i)
  <2>1. AttemptTableAccepts(plan[t].attempt)  BY <1>0, <1>1, <1>2 DEF CapturedInv, Verified
  <2>. QED  BY <1>0, <1>3, <1>4, <1>5, <2>1, TableHasRoom
<1>9. WritersKnown(i) /\ BoundRegistered(i)
  BY <1>5, <1>6, <1>7 DEF WritersKnown, BoundRegistered
<1>10. Gapless(i.history)  BY <1>5 DEF BoundAfter
<1>11. Behind(i)
  <2>1. registry.gen \in [RegistryDeps -> Nat]  BY <1>0, StoreTypes
  <2>. QED  BY <1>5, <1>6, <2>1 DEF Behind
<1>. QED  BY <1>7, <1>8, <1>9, <1>10, <1>11 DEF ImageOk, i

(* A step of thread t of a batch that leaves the store, the tables and the *)
(* other threads alone, and after which t has nothing prepared.            *)
LEMMA CapturedKept ==
    ASSUME BatchImageInv, NEW t \in Threads,
           UNCHANGED <<store, evidence, registry, publishers, fencedBoots>>,
           \A u \in Threads \ {t} : Keeps(u) /\ rest'[u] = rest[u],
           pc'[t] \in {"saved", "idle"}, request'[t] = None, rest'[t] = <<>>
    PROVE  EvidenceInv' /\ CapturedInv' /\ RequestInv' /\ RestCaptured'
<1>0. EvidenceInv /\ CapturedInv /\ RequestInv /\ RestCaptured
  BY DEF BatchImageInv, ImageInv
<1>1. EvidenceInv'  BY <1>0 DEF EvidenceInv, Keeps
<1>2. CapturedInv'
  <2>1. ASSUME NEW u \in Threads, pc'[u] = "prepared"
        PROVE  /\ u # t /\ pc[u] = "prepared" /\ plan'[u] = plan[u] /\ seen'[u] = seen[u]
               /\ LiveBoots' = LiveBoots
               /\ AttemptTableAccepts(plan[u].attempt)' = AttemptTableAccepts(plan[u].attempt)
    BY <2>1 DEF Keeps, LiveBoots, AttemptTableAccepts
  <2>. QED  BY <1>0, <2>1 DEF CapturedInv, Tight, Resolves
<1>3. RequestInv'  BY <1>0 DEF RequestInv, Keeps, Tight
<1>4. RestCaptured'
  <2>1. Len(<<>>) = 0 /\ 1 .. 0 = {}  OBVIOUS
  <2>. QED  BY <1>0, <2>1 DEF RestCaptured, Keeps, Tight, Resolves
<1>. QED  BY <1>1, <1>2, <1>3, <1>4
--------------------------------------------------------------------------------
(* The steps of the store with batches keep the invariant of the images. *)

(* A step of the store, as it appears among the steps of batches. *)
StoreMoves ==
    /\ [Next]_vars /\ UNCHANGED payload
    /\ \/ \E t \in Threads : rest[t] = <<>> /\ Call(t) /\ UNCHANGED rest
       \/ (Environment \/ UNCHANGED vars) /\ UNCHANGED rest
       \/ Process /\ rest' = IF phase' = "down" THEN NoBatch ELSE rest

(* Every step is one of the store or one of a batch. *)
LEMMA BatchMoves ==
    ASSUME [BatchNext]_batchVars
    PROVE  \/ StoreMoves
           \/ \E t \in Threads : SubmitBatch(t) \/ CommitBatch(t) \/ RefuseBatch(t)
<1>1. CASE \E t \in Threads : rest[t] = <<>> /\ Call(t) /\ UNCHANGED <<rest, payload>>
  BY <1>1 DEF StoreMoves, Next
<1>2. CASE Environment /\ UNCHANGED <<rest, payload>>  BY <1>2 DEF StoreMoves, Next
<1>3. CASE Process /\ rest' = (IF phase' = "down" THEN NoBatch ELSE rest) /\ UNCHANGED payload
  BY <1>3 DEF StoreMoves, Next
<1>4. CASE UNCHANGED batchVars  BY <1>4 DEF StoreMoves, batchVars
<1>. QED  BY <1>1, <1>2, <1>3, <1>4 DEF BatchNext

(* The drafts of a batch wait with its thread. *)
LEMMA RestCapturedStep ==
    ASSUME BatchImageInv, StoreMoves
    PROVE  RestCaptured'
<1>0. IInv /\ RestCaptured  BY DEF BatchImageInv, BatchInv, DiskInv
<1>1. ASSUME NEW u \in Threads
      PROVE  rest'[u] = <<>> \/ (rest'[u] = rest[u] /\ plan'[u] = plan[u])
  <2>1. CASE \E t \in Threads : rest[t] = <<>> /\ Call(t) /\ UNCHANGED rest
    <3>1. PICK t \in Threads : rest[t] = <<>> /\ Call(t) /\ UNCHANGED rest  BY <2>1
    <3>2. u # t => Keeps(u)  BY <1>0, <3>1, OthersKept
    <3>. QED  BY <3>1, <3>2 DEF Keeps
  <2>2. CASE (Environment \/ UNCHANGED vars) /\ UNCHANGED rest
    BY <2>2 DEF Environment, AdvanceRegistry, ChangeEvidence, AdvanceEpoch, RegisterPublisher,
                MarkDead, FenceBoot, vars, threads
  <2>3. CASE Process /\ rest' = IF phase' = "down" THEN NoBatch ELSE rest
    <3>1. CASE phase' = "down"  BY <2>3, <3>1 DEF NoBatch
    <3>2. CASE phase' # "down"
      BY <2>3, <3>2 DEF Process, Crash, LoadNothing, Load, DeclareBuiltin, Serve, threads
    <3>. QED  BY <3>1, <3>2
  <2>. QED  BY <2>1, <2>2, <2>3 DEF StoreMoves
<1>2. Len(<<>>) = 0 /\ 1 .. 0 = {}  OBVIOUS
<1>. QED  BY <1>0, <1>1, <1>2 DEF RestCaptured, Tight, Resolves

(* A step of the store. *)
LEMMA StoreImages ==
    ASSUME BatchImageInv, StoreMoves
    PROVE  BatchImageInv'
<1>1. BatchInv'  BY StoreStep DEF BatchImageInv, StoreMoves
<1>2. ImageInv'  BY ImageInvStep DEF BatchImageInv, StoreMoves
<1>3. RestCaptured'  BY RestCapturedStep
<1>. QED  BY <1>1, <1>2, <1>3 DEF BatchImageInv

(* What phase E of a batch does: it saves the image of the batch, or       *)
(* nothing.                                                                *)
LEMMA CommitBatchIs ==
    ASSUME BatchImageInv, NEW t \in Threads, CommitBatch(t)
    PROVE  /\ phase = "serving" /\ lock = None /\ pc[t] = "prepared"
           /\ store.lists = disk.lists /\ store.attempts = disk.attempts
           /\ plan[t].epoch = epoch
           /\ UNCHANGED <<phase, store, evidence, registry, epoch, publishers, fencedBoots>>
           /\ UNCHANGED <<acked, served, everFenced>>
           /\ \A u \in Threads \ {t} : Keeps(u) /\ rest'[u] = rest[u]
           /\ request'[t] = None /\ rest'[t] = <<>>
           /\ \/ /\ UNCHANGED <<disk, pending, lock>>
                 /\ pc'[t] = "idle" /\ plan'[t] = None
              \/ /\ disk' = BatchImage(t) /\ pending' = BatchImage(t) /\ lock' = t
                 /\ pc'[t] = "saved" /\ plan'[t] = plan[t]
<1>0. /\ pc \in [Threads -> PCs] /\ seen \in [Threads -> Observation]
      /\ request \in [Threads -> Draft \cup {None}] /\ plan \in [Threads -> Plan \cup {None}]
      /\ rest \in [Threads -> Seq(Draft)]
  BY DEF BatchImageInv, BatchInv, DiskInv, IInv, TypeOK
<1>1. /\ phase = "serving" /\ pc[t] = "prepared"
      /\ store.lists = disk.lists /\ store.attempts = disk.attempts
  BY CommitBatchMoves DEF BatchImageInv
<1>2. /\ Verified(t) /\ rest' = [rest EXCEPT ![t] = <<>>]
      /\ UNCHANGED <<phase, store, upstream, authority, ghosts>>
  BY DEF CommitBatch, BatchVerified
<1>3. PICK image : image = BatchImage(t) /\ Save(t, image, image)  BY DEF CommitBatch
<1>4. CASE Return(t) /\ UNCHANGED <<disk, pending, lock>>
  BY <1>0, <1>1, <1>2, <1>3, <1>4
     DEF Save, Return, Keeps, Verified, upstream, authority, ghosts
<1>5. CASE ~ (Return(t) /\ UNCHANGED <<disk, pending, lock>>)
  BY <1>0, <1>1, <1>2, <1>3, <1>5 DEF Save, Keeps, Verified, upstream, authority, ghosts
<1>. QED  BY <1>4, <1>5

(* The images stay as good as they are if they stay. *)
LEMMA ImagesStay ==
    ASSUME ImagesInv, UNCHANGED <<store, registry, publishers, fencedBoots>>,
           \/ UNCHANGED <<disk, pending, lock>>
           \/ ImageOk(disk') /\ ImageOk(pending') /\ Behind(pending')
    PROVE  ImagesInv'
<1>1. LiveBoots' = LiveBoots  BY DEF LiveBoots
<1>2. /\ ImageOk(disk') /\ ImageOk(store') /\ Behind(store')
      /\ lock' # None => ImageOk(pending') /\ Behind(pending')
  BY DEF ImagesInv
<1>. QED
  BY <1>1, <1>2 DEF ImagesInv, ImageOk, Behind, WritersKnown, BoundRegistered, Gapless,
                    TableBounded, UsedIn, Tight, BootsOf

(* Phase E of a batch. *)
LEMMA CommitBatchImages ==
    ASSUME BatchImageInv, NEW t \in Threads, CommitBatch(t)
    PROVE  BatchImageInv'
<1>1. BatchInv' /\ DiskInv'  BY CommitBatchStep, CommitBatchAtomic DEF BatchImageInv
<1>2. EvidenceInv' /\ CapturedInv' /\ RequestInv' /\ RestCaptured'
  BY CommitBatchIs, CapturedKept
<1>3. ImagesInv'
  <2>1. /\ UNCHANGED <<store, registry, publishers, fencedBoots>>
        /\ \/ UNCHANGED <<disk, pending, lock>>
           \/ disk' = BatchImage(t) /\ pending' = BatchImage(t)
    BY CommitBatchIs
  <2>2. PICK i : i = BatchImage(t) /\ ImageOk(i) /\ Behind(i)  BY BatchImageOk
  <2>3. ImagesInv  BY DEF BatchImageInv, ImageInv
  <2>. QED  BY <2>1, <2>2, <2>3, ImagesStay
<1>. QED  BY <1>1, <1>2, <1>3 DEF BatchImageInv, ImageInv

(* A batch that is refused. *)
LEMMA RefuseBatchImages ==
    ASSUME BatchImageInv, NEW t \in Threads, RefuseBatch(t)
    PROVE  BatchImageInv'
<1>0. /\ pc \in [Threads -> PCs] /\ seen \in [Threads -> Observation]
      /\ request \in [Threads -> Draft \cup {None}] /\ plan \in [Threads -> Plan \cup {None}]
      /\ rest \in [Threads -> Seq(Draft)]
  BY DEF BatchImageInv, BatchInv, DiskInv, IInv, TypeOK
<1>1. BatchInv' /\ DiskInv'  BY RefuseBatchStep DEF BatchImageInv, BatchInv
<1>2. /\ Return(t) /\ rest' = [rest EXCEPT ![t] = <<>>]
      /\ UNCHANGED <<store, disk, pending, lock, evidence, registry, publishers, fencedBoots>>
  BY DEF RefuseBatch, upstream, authority
<1>3. /\ pc'[t] = "idle" /\ request'[t] = None /\ rest'[t] = <<>>
      /\ \A u \in Threads \ {t} : Keeps(u) /\ rest'[u] = rest[u]
  BY <1>0, <1>2 DEF Return, Keeps
<1>4. EvidenceInv' /\ CapturedInv' /\ RequestInv' /\ RestCaptured'
  BY <1>2, <1>3, CapturedKept
<1>5. ImagesInv'  BY <1>2, ImagesStay DEF BatchImageInv, ImageInv
<1>. QED  BY <1>1, <1>4, <1>5 DEF BatchImageInv, ImageInv

(* What a batch captures of its drafts when it is prepared. *)
LEMMA SubmitCaptures ==
    ASSUME BatchImageInv, NEW t \in Threads, SubmitBatch(t)
    PROVE  /\ Prepares(t) /\ UNCHANGED <<disk, pending, lock>>
           /\ \A u \in Threads \ {t} : Keeps(u) /\ rest'[u] = rest[u]
           /\ \A i \in 1 .. Len(rest'[t]) :
                  /\ Tight(rest'[t][i].needs, rest'[t][i].bind)
                  /\ Resolves(rest'[t][i], plan'[t].view)
<1>0. /\ pc \in [Threads -> PCs] /\ seen \in [Threads -> Observation]
      /\ request \in [Threads -> Draft \cup {None}] /\ plan \in [Threads -> Plan \cup {None}]
      /\ rest \in [Threads -> Seq(Draft)] /\ IInv
  BY DEF BatchImageInv, BatchInv, DiskInv, IInv, TypeOK
<1>1. PICK a \in Attempts, p \in Publishers, b \in Boots, n \in 2 .. MaxBatch :
          \E ds \in [1 .. n -> SubmittedDrafts] : PrepareBatch(t, ds, a, p, b)
  BY DEF SubmitBatch
<1>2. PICK ds \in [1 .. n -> SubmittedDrafts] : PrepareBatch(t, ds, a, p, b)  BY <1>1
<1>3. n \in Nat /\ n >= 2 /\ 1 \in 1 .. n  BY BatchAssumption
<1>4. /\ ds \in Seq(Draft) /\ Len(ds) = n /\ \A i \in 1 .. n : ds[i] \in Draft
  BY <1>0, <1>3, SubmittedAre
<1>5. /\ Len(Tail(ds)) = n - 1
      /\ \A i \in 1 .. n - 1 : Tail(ds)[i] = ds[i + 1] /\ i + 1 \in 1 .. n
  BY <1>3, <1>4
<1>6. PICK event \in CommitEvents : event = IntentFor(ds[1].id)
  BY DEF IntentFor, CommitEvents
<1>7. PICK q : q = MakePlan(t, event, ds[1], a, b)  OBVIOUS
<1>8. /\ At(t, "snapshot") /\ Prepare(t, q)
      /\ AttemptTableAccepts(a) /\ publishers[p].boot = b
      /\ rest' = [rest EXCEPT ![t] = Tail(ds)]
  BY <1>2, <1>6, <1>7 DEF PrepareBatch, CallerOk
<1>9. ASSUME NEW i \in 1 .. n
      PROVE  Resolves(ds[i], CapturedView(t)) /\ Tight(ds[i].needs, ds[i].bind)
  <2>1. Resolves(ds[i], CapturedView(t))  BY <1>2, <1>4 DEF PrepareBatch
  <2>2. PICK id \in Lists, body \in BatchBodies, sup \in Lists \cup {None} :
            ds[i] = SubmittedDraft(id, body, sup)
    BY DEF SubmittedDrafts
  <2>3. ds[i].needs = body.needs /\ ds[i].bind = body.bind  BY <2>2 DEF SubmittedDraft
  <2>4. body \in Bodies  BY BatchAssumption
  <2>. QED  BY <2>1, <2>3, <2>4, BodiesAssumption DEF Tight
<1>10. /\ plan'[t] = q /\ pc'[t] = "prepared" /\ request'[t] = None
       /\ UNCHANGED <<store, disk, pending, lock, evidence, registry, publishers, fencedBoots, seen>>
       /\ \A u \in Threads \ {t} : Keeps(u) /\ rest'[u] = rest[u]
  BY <1>0, <1>8 DEF Prepare, Keeps, upstream, authority
<1>11. Prepares(t)
  <2>1. pc[t] = "snapshot"  BY <1>8 DEF At
  <2>2. event \notin TransitionEvents  BY <1>6, EventTypes
  <2>3. /\ ds[1] \in Draft /\ Resolves(ds[1], CapturedView(t))
        /\ Tight(ds[1].needs, ds[1].bind)
    BY <1>3, <1>4, <1>9
  <2>4. PICK d \in Draft : d = ds[1]  BY <2>3
  <2>5. /\ plan'[t] = MakePlan(t, event, d, a, b)
        /\ Resolves(d, CapturedView(t)) /\ Tight(d.needs, d.bind)
    BY <1>7, <1>10, <2>3, <2>4
  <2>6. event \in CommitEvents \cup TransitionEvents  BY <1>6
  <2>7. \E ev \in CommitEvents \cup TransitionEvents, dr \in Draft, at \in Attempts,
           pu \in Publishers, bo \in Boots :
          /\ plan'[t] = MakePlan(t, ev, dr, at, bo)
          /\ AttemptTableAccepts(at) /\ publishers[pu].boot = bo
          /\ ev \in TransitionEvents => dr.needs = {}
          /\ ev \in CommitEvents =>
                 /\ Resolves(dr, CapturedView(t))
                 /\ Tight(dr.needs, dr.bind) \/ (request[t] # None /\ dr = request[t])
    BY <1>8, <2>2, <2>5, <2>6
  <2>. QED  BY <1>10, <2>1, <2>7 DEF Prepares
<1>12. plan'[t].view = CapturedView(t)  BY <1>7, <1>10 DEF MakePlan
<1>13. rest'[t] = Tail(ds)  BY <1>0, <1>8
<1>. QED  BY <1>5, <1>9, <1>10, <1>11, <1>12, <1>13

(* Phases B and C of a batch. *)
LEMMA SubmitBatchImages ==
    ASSUME BatchImageInv, NEW t \in Threads, SubmitBatch(t)
    PROVE  BatchImageInv'
<1>0. /\ TypeOK /\ EvidenceInv /\ CapturedInv /\ RequestInv /\ RestCaptured /\ ImagesInv
  BY DEF BatchImageInv, ImageInv, DiskInv, IInv
<1>1. BatchInv' /\ DiskInv'  BY SubmitBatchStep DEF BatchImageInv, BatchInv
<1>2. /\ Prepares(t) /\ UNCHANGED <<disk, pending, lock>>
      /\ \A u \in Threads \ {t} : Keeps(u) /\ rest'[u] = rest[u]
      /\ \A i \in 1 .. Len(rest'[t]) :
             /\ Tight(rest'[t][i].needs, rest'[t][i].bind)
             /\ Resolves(rest'[t][i], plan'[t].view)
  BY SubmitCaptures
<1>3. /\ UNCHANGED <<store, evidence, registry, publishers, fencedBoots>>
      /\ pc[t] = "snapshot" /\ pc'[t] = "prepared" /\ seen'[t] = seen[t] /\ request'[t] = None
  BY <1>2 DEF Prepares
<1>4. EvidenceInv'  BY <1>0, <1>2, <1>3 DEF EvidenceInv, Keeps
<1>5. CapturedInv'
  <2>1. LiveBoots' = LiveBoots  BY <1>3 DEF LiveBoots
  <2>2. ASSUME NEW u \in Threads, u # t, pc'[u] = "prepared"
        PROVE  /\ pc[u] = "prepared" /\ plan'[u] = plan[u] /\ seen'[u] = seen[u]
               /\ AttemptTableAccepts(plan[u].attempt)' = AttemptTableAccepts(plan[u].attempt)
    BY <1>2, <1>3, <2>2 DEF Keeps, AttemptTableAccepts
  <2>3. /\ plan'[t].boot \in LiveBoots'
        /\ plan'[t].storeRev = store'.revision => AttemptTableAccepts(plan[t].attempt)'
        /\ plan'[t].event \in CommitEvents =>
               /\ Tight(plan'[t].draft.needs, plan'[t].draft.bind)
               /\ Resolves(plan'[t].draft, plan'[t].view)
               /\ plan'[t].regRev <= registry'.rev
               /\ plan'[t].regRev = registry'.rev =>
                      \A x \in RegistryDeps : plan'[t].view[x] = registry'.gen[x]
               /\ \A x \in EvidenceDeps : plan'[t].view[x] = seen'[t].gen[x]
    BY <1>0, <1>2, PreparesCaptured
  <2>. QED  BY <1>0, <1>3, <2>1, <2>2, <2>3 DEF CapturedInv, Tight, Resolves
<1>6. RequestInv'  BY <1>0, <1>2, <1>3 DEF RequestInv, Keeps, Tight
<1>7. RestCaptured'  BY <1>0, <1>2 DEF RestCaptured, Keeps, Tight, Resolves
<1>8. ImagesInv'  BY <1>0, <1>2, <1>3, ImagesStay
<1>. QED  BY <1>1, <1>4, <1>5, <1>6, <1>7, <1>8 DEF BatchImageInv, ImageInv
--------------------------------------------------------------------------------
(* What the images promise, with batches among the calls. *)

(* Every step keeps the invariant of the images. *)
LEMMA BatchImageStep == BatchImageInv /\ [BatchNext]_batchVars => BatchImageInv'
<1>. SUFFICES ASSUME BatchImageInv, [BatchNext]_batchVars PROVE BatchImageInv'  OBVIOUS
<1>. QED  BY BatchMoves, StoreImages, SubmitBatchImages, CommitBatchImages, RefuseBatchImages

(* In every state of every behaviour with batches the images are closed    *)
(* under what their lists refer to, the histories are gapless, the replay  *)
(* tables bounded, and what a prepared batch has captured is true of each  *)
(* of its drafts.                                                          *)
THEOREM BatchImageInvariance == BatchSpec => []BatchImageInv
<1>1. BatchInit /\ BatchInv => BatchImageInv
  <2>. SUFFICES ASSUME BatchInit, BatchInv PROVE BatchImageInv  OBVIOUS
  <2>1. Init /\ rest = NoBatch  BY DEF BatchInit
  <2>2. Behind(InitImage)
    <3>1. registry.gen = [d \in RegistryDeps |-> 0] /\ InitImage.regs = [d \in RegistryDeps |-> 0]
      BY <2>1 DEF Init, InitImage
    <3>. QED  BY <3>1, InitImageOk DEF Behind
  <2>3. ImagesInv  BY <2>1, <2>2, InitImageOk DEF Init, ImagesInv
  <2>4. CapturedInv /\ EvidenceInv /\ RequestInv
    BY <2>1 DEF Init, CapturedInv, EvidenceInv, RequestInv
  <2>5. RestCaptured
    <3>1. Len(<<>>) = 0 /\ 1 .. 0 = {}  OBVIOUS
    <3>. QED  BY <2>1, <3>1 DEF RestCaptured, NoBatch
  <2>. QED  BY <2>3, <2>4, <2>5 DEF BatchImageInv, ImageInv, BatchInv
<1>. QED  BY <1>1, BatchImageStep, BatchInvariance, PTL DEF BatchSpec

(* What a step of a batch leaves alone, and what it may do to the state    *)
(* file, to the pending image and to the call.                             *)
LEMMA BatchStepIs ==
    ASSUME BatchImageInv, NEW t \in Threads, SubmitBatch(t) \/ CommitBatch(t) \/ RefuseBatch(t)
    PROVE  /\ phase = "serving"
           /\ UNCHANGED <<phase, store, epoch, acked, served>>
           /\ \A u \in Threads \ {t} : Keeps(u)
           /\ \/ /\ UNCHANGED <<disk, pending, lock>>
                 /\ (pc'[t] = "idle" /\ plan'[t] = None) \/ pc'[t] = "prepared"
              \/ /\ CommitBatch(t) /\ disk' = BatchImage(t) /\ pending' = BatchImage(t)
                 /\ pc'[t] = "saved" /\ plan'[t] = plan[t]
                 /\ store.lists = disk.lists /\ store.attempts = disk.attempts
                 /\ plan[t].epoch = epoch
<1>0. /\ pc \in [Threads -> PCs] /\ seen \in [Threads -> Observation]
      /\ request \in [Threads -> Draft \cup {None}] /\ plan \in [Threads -> Plan \cup {None}]
  BY DEF BatchImageInv, BatchInv, DiskInv, IInv, TypeOK
<1>1. CASE CommitBatch(t)  BY <1>1, CommitBatchIs
<1>2. CASE RefuseBatch(t)
  <2>1. /\ phase = "serving" /\ Return(t)
        /\ UNCHANGED <<phase, store, disk, pending, lock, epoch, acked, served>>
    BY <1>2 DEF RefuseBatch, At, authority, ghosts
  <2>. QED  BY <1>0, <2>1 DEF Return, Keeps
<1>3. CASE SubmitBatch(t)
  <2>1. Prepares(t) /\ \A u \in Threads \ {t} : Keeps(u)  BY <1>3, SubmitCaptures
  <2>2. pc'[t] = "prepared"  BY <2>1 DEF Prepares
  <2>3. ASSUME NEW q, Prepare(t, q)
        PROVE  UNCHANGED <<phase, store, disk, pending, lock, epoch, acked, served>>
    BY <2>3 DEF Prepare, authority, ghosts
  <2>4. phase = "serving" /\ \E q : Prepare(t, q)  BY <1>3 DEF SubmitBatch, PrepareBatch, At
  <2>. QED  BY <2>1, <2>2, <2>3, <2>4
<1>. QED  BY <1>1, <1>2, <1>3

(* With batches too: the history is a gapless suffix, the replay table is  *)
(* bounded, every registered generation a saved list is bound to is saved  *)
(* with it, and recovery has fenced every writer of what it recovers.      *)
THEOREM BatchImagesAreSound ==
    BatchSpec => [](/\ HistoryIsSuffix /\ ReplayTableIsBounded
                    /\ BoundRegistryIsDurable /\ WritersFencedOnRecovery)
<1>1. BatchImageInv => HistoryIsSuffix /\ ReplayTableIsBounded /\ BoundRegistryIsDurable
  <2>1. BatchImageInv => ImagesInv  BY DEF BatchImageInv, ImageInv
  <2>2. ImagesInv => HistoryIsSuffix  BY DEF ImagesInv, ImageOk, Gapless, HistoryIsSuffix
  <2>3. ImagesInv => ReplayTableIsBounded
    BY DEF ImagesInv, ImageOk, TableBounded, UsedIn, ReplayTableIsBounded
  <2>4. ImagesInv => BoundRegistryIsDurable
    BY DEF ImagesInv, ImageOk, BoundRegistered, BoundRegistryIsDurable
  <2>. QED  BY <2>1, <2>2, <2>3, <2>4
<1>2. BatchInit => WritersFencedOnRecovery  BY DEF BatchInit, Init, WritersFencedOnRecovery
<1>3. BatchImageInv /\ WritersFencedOnRecovery /\ [BatchNext]_batchVars => WritersFencedOnRecovery'
  <2>. SUFFICES ASSUME BatchImageInv, WritersFencedOnRecovery, [BatchNext]_batchVars
                PROVE  WritersFencedOnRecovery'
    OBVIOUS
  <2>1. CASE StoreMoves  BY <2>1, FencedStep DEF BatchImageInv, StoreMoves
  <2>2. CASE \E t \in Threads : SubmitBatch(t) \/ CommitBatch(t) \/ RefuseBatch(t)
    BY <2>2, BatchStepIs DEF WritersFencedOnRecovery
  <2>. QED  BY <2>1, <2>2, BatchMoves
<1>. QED  BY <1>1, <1>2, <1>3, BatchImageInvariance, PTL DEF BatchSpec

(* A new generation that a step saves is bound to what is in force.        *)
LEMMA BatchFreshStep ==
    ASSUME BatchImageInv, [BatchNext]_batchVars, NEW l \in Lists, Commits(l)
    PROVE  /\ disk'.lists[l].epoch = epoch
           /\ \A x \in Deps : x \in disk'.lists[l].needs \/ disk'.lists[l].bound[x] # 0
                                  => disk'.lists[l].bound[x] = CurrentView[x]
<1>1. CASE StoreMoves  BY <1>1, FreshStep DEF BatchImageInv, StoreMoves
<1>2. CASE \E t \in Threads : SubmitBatch(t) \/ CommitBatch(t) \/ RefuseBatch(t)
  <2>1. PICK t \in Threads : SubmitBatch(t) \/ CommitBatch(t) \/ RefuseBatch(t)  BY <1>2
  <2>2. CommitBatch(t) /\ disk' = BatchImage(t) /\ store.lists = disk.lists
    BY <2>1, BatchStepIs DEF Commits
  <2>3. TypeOK /\ Gapless(store.history)
    BY DEF BatchImageInv, ImageInv, ImagesInv, ImageOk, DiskInv, IInv
  <2>4. Ready(t)  BY <2>2, CommitBatchMoves DEF BatchImageInv
  <2>5. BoundAfter(t, Len(Drafts(t)), disk')  BY <2>2, <2>3, <2>4, BatchImageFields
  <2>6. ~ SameBinding(store.lists[l], disk'.lists[l])  BY <2>2 DEF SameBinding, Commits
  <2>7. PICK i \in 1 .. Len(Drafts(t)) : BoundBy(t, Drafts(t)[i], disk'.lists[l])
    BY <2>5, <2>6 DEF BoundAfter
  <2>. QED  BY <2>2, <2>7, DraftsAreCurrent
<1>. QED  BY <1>1, <1>2, BatchMoves

(* The stale-completion defence holds of batches too: however many drafts  *)
(* a batch has, and whatever moved while they were validated outside the   *)
(* lock, each list it saves is bound to the evidence, the profiles, the    *)
(* policies and the epoch in force when it is saved.                       *)
THEOREM BatchesAreFresh == BatchSpec => CommittedIsFresh
<1>1. BatchImageInv /\ [BatchNext]_batchVars =>
        \A l \in Lists : Commits(l) =>
          LET new == disk'.lists[l]
          IN  /\ new.epoch = epoch
              /\ \A x \in Deps : x \in new.needs \/ new.bound[x] # 0
                                     => new.bound[x] = CurrentView[x]
  BY BatchFreshStep
<1>. QED  BY <1>1, BatchImageInvariance, PTL DEF BatchSpec, CommittedIsFresh

(* An attempt that is recorded stays recorded when a batch is saved. *)
LEMMA BatchAckStep ==
    ASSUME BatchImageInv, AckInv, [BatchNext]_batchVars
    PROVE  AckInv'
<1>1. CASE StoreMoves  BY <1>1, AckStep DEF BatchImageInv, BatchInv, StoreMoves
<1>2. CASE \E t \in Threads : SubmitBatch(t) \/ CommitBatch(t) \/ RefuseBatch(t)
  <2>1. PICK t \in Threads : SubmitBatch(t) \/ CommitBatch(t) \/ RefuseBatch(t)  BY <1>2
  <2>2. /\ UNCHANGED acked /\ \A u \in Threads \ {t} : Keeps(u)
        /\ \/ /\ UNCHANGED disk
              /\ (pc'[t] = "idle" /\ plan'[t] = None) \/ pc'[t] = "prepared"
           \/ /\ CommitBatch(t) /\ disk' = BatchImage(t)
              /\ pc'[t] = "saved" /\ plan'[t] = plan[t] /\ store.attempts = disk.attempts
    BY <2>1, BatchStepIs
  <2>3. TypeOK  BY DEF BatchImageInv, BatchInv, DiskInv, IInv
  <2>4. /\ acked \subseteq Attempts
        /\ \A u \in Threads : plan[u] # None => plan[u].attempt \in Attempts
    BY <2>3 DEF TypeOK, Plan
  <2>5. ASSUME CommitBatch(t), disk' = BatchImage(t), store.attempts = disk.attempts
        PROVE  /\ disk'.attempts[plan[t].attempt] # None
               /\ \A a \in Attempts : disk.attempts[a] # None => disk'.attempts[a] # None
    <3>1. Ready(t)  BY <2>5, CommitBatchMoves DEF BatchImageInv
    <3>. QED  BY <2>3, <2>5, <3>1, BatchImageIs
  <2>6. ASSUME NEW u \in Threads, plan'[u] # None PROVE pc'[u] \in {"prepared", "saved"}
    BY <2>2, <2>6 DEF AckInv, Keeps
  <2>7. ASSUME NEW u \in Threads, pc'[u] = "saved", plan'[u] # None
        PROVE  disk'.attempts[plan'[u].attempt] # None
    <3>1. CASE u = t  BY <2>2, <2>5, <2>7, <3>1
    <3>2. CASE u # t
      <4>1. pc[u] = "saved" /\ plan'[u] = plan[u] /\ plan[u] # None  BY <2>2, <2>7, <3>2 DEF Keeps
      <4>2. plan[u].attempt \in Attempts /\ disk.attempts[plan[u].attempt] # None
        BY <2>4, <4>1 DEF AckInv
      <4>. QED  BY <2>2, <2>5, <4>1, <4>2
    <3>. QED  BY <3>1, <3>2
  <2>8. ASSUME NEW a \in acked' PROVE disk'.attempts[a] # None
    <3>1. a \in Attempts /\ disk.attempts[a] # None
      BY <2>2, <2>4, <2>8 DEF AckInv, AckedIsDurable
    <3>. QED  BY <2>2, <2>5, <3>1
  <2>. QED  BY <2>6, <2>7, <2>8 DEF AckInv, AckedIsDurable
<1>. QED  BY <1>1, <1>2, BatchMoves

(* What is available and was saved by a batch was validated by it.         *)
LEMMA BatchAvailableStep ==
    ASSUME BatchImageInv, AvailableInv, [BatchNext]_batchVars
    PROVE  AvailableInv'
<1>1. CASE StoreMoves  BY <1>1, AvailableStep DEF BatchImageInv, StoreMoves
<1>2. CASE \E t \in Threads : SubmitBatch(t) \/ CommitBatch(t) \/ RefuseBatch(t)
  <2>1. PICK t \in Threads : SubmitBatch(t) \/ CommitBatch(t) \/ RefuseBatch(t)  BY <1>2
  <2>2. /\ phase = "serving" /\ UNCHANGED <<phase, store, epoch>>
        /\ \/ UNCHANGED <<pending, lock>>
           \/ CommitBatch(t) /\ pending' = BatchImage(t)
    BY <2>1, BatchStepIs
  <2>3. ASSUME CommitBatch(t), pending' = BatchImage(t), NEW l \in Lists,
               Available(pending'.lists[l]), ~ EpochAdvances
        PROVE  pending'.lists[l].epoch = epoch
    <3>1. TypeOK /\ Gapless(store.history)
      BY DEF BatchImageInv, ImageInv, ImagesInv, ImageOk, DiskInv, IInv
    <3>2. Ready(t)  BY <2>3, CommitBatchMoves DEF BatchImageInv
    <3>3. BoundAfter(t, Len(Drafts(t)), pending')  BY <2>3, <3>1, <3>2, BatchImageFields
    <3>4. CASE /\ SameBinding(store.lists[l], pending'.lists[l])
               /\ Available(pending'.lists[l]) => Available(store.lists[l])
      BY <2>3, <3>4 DEF SameBinding, AvailableInv
    <3>5. CASE \E i \in 1 .. Len(Drafts(t)) : BoundBy(t, Drafts(t)[i], pending'.lists[l])
      BY <2>3, <3>5, DraftsAreCurrent
    <3>. QED  BY <3>3, <3>4, <3>5 DEF BoundAfter
  <2>4. ASSUME NEW l \in Lists
        PROVE  /\ Available(store'.lists[l]) =>
                      phase' = "serving" /\ (~ EpochAdvances => store'.lists[l].epoch = epoch')
               /\ lock' # None /\ Available(pending'.lists[l]) =>
                      (~ EpochAdvances => pending'.lists[l].epoch = epoch')
    BY <2>2, <2>3 DEF AvailableInv
  <2>. QED  BY <2>4 DEF AvailableInv, Available
<1>. QED  BY <1>1, <1>2, BatchMoves

(* Acknowledged batches are never forgotten, and after a restart nothing   *)
(* is available that this incarnation has not validated, whichever call    *)
(* saved it.                                                               *)
THEOREM BatchesSurviveRestarts == BatchSpec => [](AckedIsDurable /\ RecoveryIsConservative)
<1>1. BatchInit => AckInv  BY DEF BatchInit, Init, AckInv, AckedIsDurable
<1>2. BatchInit => AvailableInv
  BY DEF BatchInit, Init, AvailableInv, InitImage, NoList, Available
<1>3. BatchImageInv /\ AckInv /\ [BatchNext]_batchVars => AckInv'  BY BatchAckStep
<1>4. BatchImageInv /\ AvailableInv /\ [BatchNext]_batchVars => AvailableInv'
  BY BatchAvailableStep
<1>5. AckInv => AckedIsDurable  BY DEF AckInv
<1>6. AvailableInv => RecoveryIsConservative  BY DEF AvailableInv, RecoveryIsConservative
<1>. QED  BY <1>1, <1>2, <1>3, <1>4, <1>5, <1>6, BatchImageInvariance, PTL DEF BatchSpec

(* A batch is saved under the epoch in force. *)
LEMMA BatchEpochStep ==
    ASSUME BatchImageInv, EpochInv, [BatchNext]_batchVars
    PROVE  EpochInv'
<1>1. CASE StoreMoves  BY <1>1, EpochStep DEF BatchImageInv, StoreMoves
<1>2. CASE \E t \in Threads : SubmitBatch(t) \/ CommitBatch(t) \/ RefuseBatch(t)
  <2>1. PICK t \in Threads : SubmitBatch(t) \/ CommitBatch(t) \/ RefuseBatch(t)  BY <1>2
  <2>2. /\ phase = "serving" /\ UNCHANGED <<phase, store, epoch, served>>
        /\ \/ UNCHANGED <<disk, pending, lock>>
           \/ /\ CommitBatch(t) /\ disk' = BatchImage(t) /\ pending' = BatchImage(t)
              /\ plan[t].epoch = epoch
    BY <2>1, BatchStepIs
  <2>3. TypeOK /\ Gapless(store.history)
    BY DEF BatchImageInv, ImageInv, ImagesInv, ImageOk, DiskInv, IInv
  <2>4. ASSUME CommitBatch(t) PROVE BatchImage(t).epoch = plan[t].epoch
    <3>1. Ready(t)  BY <2>4, CommitBatchMoves DEF BatchImageInv
    <3>. QED  BY <2>3, <3>1, BatchImageFields
  <2>5. served \in Nat /\ epoch \in Nat  BY <2>3 DEF TypeOK
  <2>. QED  BY <2>2, <2>4, <2>5 DEF EpochInv
<1>. QED  BY <1>1, <1>2, BatchMoves

(* No two incarnations serve under one epoch, with batches too. *)
THEOREM BatchEpochsAreFresh ==
    ASSUME ~ EpochAdvances
    PROVE  BatchSpec => EpochNeverReused
<1>1. BatchInit => EpochInv
  <2>. SUFFICES ASSUME BatchInit PROVE EpochInv  OBVIOUS
  <2>1. /\ served = 0 /\ disk.epoch = 0 /\ phase = "down" /\ lock = None
    BY DEF BatchInit, Init, NoImage, InitImage
  <2>. QED  BY <2>1 DEF EpochInv
<1>2. BatchImageInv /\ EpochInv /\ [BatchNext]_batchVars => EpochInv'  BY BatchEpochStep
<1>3. BatchImageInv /\ EpochInv /\ [BatchNext]_batchVars =>
          (phase = "loaded" /\ phase' = "serving" => epoch' > served)
  <2>. SUFFICES ASSUME BatchImageInv, EpochInv, [BatchNext]_batchVars,
                       phase = "loaded", phase' = "serving"
                PROVE  epoch' > served
    OBVIOUS
  <2>1. StoreMoves
    <3>1. ASSUME NEW t \in Threads, SubmitBatch(t) \/ CommitBatch(t) \/ RefuseBatch(t)
          PROVE  phase = "serving"
      BY <3>1, BatchStepIs
    <3>. QED  BY <3>1, BatchMoves
  <2>. QED  BY <2>1, ServedStep DEF BatchImageInv, StoreMoves
<1>. QED  BY <1>1, <1>2, <1>3, BatchImageInvariance, PTL DEF BatchSpec, EpochNeverReused
================================================================================
