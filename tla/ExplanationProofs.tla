---------------------------- MODULE ExplanationProofs --------------------------
(***************************************************************************)
(* What the answers to the questions say is so, for lists, fabrics and     *)
(* limits of any size: a comparison can be relied upon as a patch, the     *)
(* explanations agree with validation, and a message that is decoded is    *)
(* the one that was encoded.                                               *)
(***************************************************************************)
EXTENDS ValidationProofs

(* Bounded presentations. *)

(* Present, one entry at a time. *)
PushSteps(limit, f, es, n) == \A k \in 1 .. n : f[k] = Push(limit, f[k - 1], es[k])

(* Present goes through the presentations of the prefixes. *)
LEMMA PresentRun ==
    ASSUME NEW limit, NEW n \in Nat, NEW es, DOMAIN es = 1 .. n
    PROVE  \E f : f[0] = Empty /\ PushSteps(limit, f, es, n) /\ Present(limit, es) = f[n]
<1>. DEFINE Step(f, s) == IF s = {} THEN Empty ELSE Push(limit, f[s \ {Max(s)}], es[Max(s)])
            Built(f, m) == f = [s \in SUBSET (1 .. m) |-> Step(f, s)]
            S == {m \in 0 .. n : ~ \E f : Built(f, m)}
<1>0. ASSUME NEW m \in 0 .. n, NEW s \in SUBSET (1 .. m), s # {}
      PROVE  Max(s) \in s /\ \A x \in s : x <= Max(s)
  <2>1. s \in SUBSET (0 .. m) /\ m \in Nat  OBVIOUS
  <2>. QED  BY <1>0, <2>1, MaxIs
<1>1. 0 \notin S
  <2>. DEFINE g == [s \in {{}} |-> Empty]
  <2>1. SUBSET (1 .. 0) = {{}}  OBVIOUS
  <2>2. g = [s \in SUBSET (1 .. 0) |-> Step(g, s)]  BY <2>1
  <2>. QED  BY <2>2
<1>2. ASSUME NEW k \in 1 .. n, k - 1 \notin S PROVE k \notin S
  <2>0. k - 1 \in 0 .. n /\ \E f : Built(f, k - 1)
    <3>. HIDE DEF Built
    <3>. QED  BY <1>2
  <2>1. PICK f : Built(f, k - 1)  BY <2>0
  <2>. DEFINE g == [s \in SUBSET (1 .. k) |-> IF k \in s THEN Push(limit, f[s \ {k}], es[k]) ELSE f[s]]
  <2>2. \A s \in SUBSET (1 .. k) : k \notin s => s \in SUBSET (1 .. k - 1)  OBVIOUS
  <2>3. ASSUME NEW s \in SUBSET (1 .. k) PROVE g[s] = Step(g, s)
    <3>1. CASE s = {}
      <4>1. g[s] = f[s] /\ s \in SUBSET (1 .. k - 1)  BY <3>1
      <4>. QED  BY <2>1, <3>1, <4>1
    <3>2. CASE s # {}
      <4>1. Max(s) \in s /\ \A x \in s : x <= Max(s)
        <5>1. k \in 0 .. n  OBVIOUS
        <5>. QED  BY <1>0, <3>2, <5>1
      <4>2. CASE k \in s
        <5>0. Max(s) \in 1 .. k /\ k <= Max(s)  BY <4>1, <4>2
        <5>1. Max(s) = k  BY <5>0
        <5>2. s \ {k} \in SUBSET (1 .. k) /\ k \notin s \ {k}  OBVIOUS
        <5>3. g[s \ {k}] = f[s \ {k}]  BY <5>2
        <5>4. g[s] = Push(limit, f[s \ {k}], es[k])  BY <4>2
        <5>. HIDE DEF g
        <5>. QED  BY <3>2, <5>1, <5>3, <5>4
      <4>3. CASE k \notin s
        <5>. DEFINE m == Max(s)
        <5>1. s \in SUBSET (1 .. k - 1) /\ s \ {m} \in SUBSET (1 .. k)
          BY <2>2, <4>3
        <5>2. g[s] = f[s] /\ g[s \ {m}] = f[s \ {m}]  BY <4>3, <5>1
        <5>3. f[s] = Step(f, s)
          <6>. HIDE DEF Step
          <6>. QED  BY <2>1, <5>1
        <5>. HIDE DEF g
        <5>. QED  BY <3>2, <5>2, <5>3
      <4>. QED  BY <4>2, <4>3
    <3>. QED  BY <3>1, <3>2
  <2>4. Built(g, k)
    <3>. HIDE DEF Step
    <3>1. DOMAIN g = SUBSET (1 .. k) /\ g = [s \in DOMAIN g |-> g[s]]  OBVIOUS
    <3>. HIDE DEF g
    <3>. QED  BY <2>3, <3>1
  <2>. QED
    <3>. HIDE DEF Built, g
    <3>. QED  BY <2>4
<1>3. S = {}
  <2>1. S \in SUBSET (0 .. n)  OBVIOUS
  <2>. HIDE DEF S
  <2>. QED  BY <1>1, <1>2, <2>1, NoFailure
<1>4. \E f : Built(f, n)
  <2>. HIDE DEF Built
  <2>1. n \in 0 .. n  OBVIOUS
  <2>2. n \notin S  BY <1>3 DEF S
  <2>. QED  BY <2>1, <2>2
<1>. DEFINE F == CHOOSE f : Built(f, n)
<1>5. Built(F, n)
  <2>. HIDE DEF Built
  <2>. QED  BY <1>4
<1>6. Present(limit, es) = F[1 .. n]  BY DEF Present, FoldLeft, MapThenFoldSet
<1>. HIDE DEF F
<1>. DEFINE h == [k \in 0 .. n |-> F[1 .. k]]
<1>7. h[0] = Empty
  <2>1. {} \in SUBSET (1 .. n) /\ 1 .. 0 = {}  OBVIOUS
  <2>2. F[{}] = Empty  BY <1>5, <2>1
  <2>. QED  BY <2>1, <2>2
<1>8. ASSUME NEW k \in 1 .. n PROVE h[k] = Push(limit, h[k - 1], es[k])
  <2>1. 1 .. k \in SUBSET (1 .. n) /\ 1 .. k # {} /\ (1 .. k) \ {k} = 1 .. k - 1  OBVIOUS
  <2>2. Max(1 .. k) = k
    <3>1. k \in 0 .. n /\ 1 .. k \in SUBSET (1 .. k) /\ k \in 1 .. k  OBVIOUS
    <3>2. Max(1 .. k) \in 1 .. k /\ k <= Max(1 .. k)  BY <1>0, <2>1, <3>1
    <3>. QED  BY <3>2
  <2>3. F[1 .. k] = Step(F, 1 .. k)
    <3>. HIDE DEF Step
    <3>. QED  BY <1>5, <2>1
  <2>4. F[1 .. k] = Push(limit, F[1 .. k - 1], es[k])  BY <2>1, <2>2, <2>3
  <2>5. k \in 0 .. n /\ k - 1 \in 0 .. n  OBVIOUS
  <2>. QED  BY <2>4, <2>5
<1>9. h[n] = F[1 .. n]  OBVIOUS
<1>. HIDE DEF h
<1>. QED  BY <1>6, <1>7, <1>8, <1>9 DEF PushSteps

(* A presentation has the first entries, up to the limit, and says whether *)
(* there are more.                                                         *)
Presents(p, es, k, limit) ==
    /\ DOMAIN p = {"entries", "total", "truncated"}
    /\ p = [x \in DOMAIN p |-> p[x]]
    /\ p.entries = SubSeq(es, 1, IF k <= limit THEN k ELSE limit)
    /\ p.truncated <=> k > limit

(* One more entry. *)
LEMMA PushIs ==
    ASSUME NEW T, NEW es \in Seq(T), NEW limit \in Nat, NEW k \in 1 .. Len(es),
           NEW p, Presents(p, es, k - 1, limit)
    PROVE  Presents(Push(limit, p, es[k]), es, k, limit)
<1>1. PICK n \in Nat : Len(es) = n  OBVIOUS
<1>. DEFINE m == IF k - 1 <= limit THEN k - 1 ELSE limit
            q == Push(limit, p, es[k])
<1>2. p.entries = SubSeq(es, 1, m) /\ (p.truncated <=> k - 1 > limit)
  BY DEF Presents
<1>3. m \in 0 .. n /\ SubSeq(es, 1, m) \in Seq(T) /\ Len(SubSeq(es, 1, m)) = m  BY <1>1
<1>. HIDE DEF m
<1>4. CASE k - 1 >= limit
  <2>1. m = limit /\ k > limit /\ ~ (k <= limit)  BY <1>1, <1>4 DEF m
  <2>2. q = [p EXCEPT !.total = @ + 1, !.truncated = TRUE]
    BY <1>2, <1>3, <2>1 DEF Push
  <2>3. DOMAIN q = {"entries", "total", "truncated"} /\ q = [x \in DOMAIN q |-> q[x]]
        /\ q.entries = p.entries /\ q.truncated
    BY <2>2 DEF Presents
  <2>. HIDE DEF q
  <2>. QED  BY <1>2, <2>1, <2>3 DEF Presents, q
<1>5. CASE ~ (k - 1 >= limit)
  <2>1. m = k - 1 /\ k <= limit /\ ~ (k - 1 > limit) /\ ~ (k > limit)  BY <1>1, <1>5 DEF m
  <2>2. q = [p EXCEPT !.total = @ + 1, !.entries = Append(@, es[k])]
    BY <1>1, <1>2, <1>3, <1>5, <2>1 DEF Push
  <2>3. Append(SubSeq(es, 1, k - 1), es[k]) = SubSeq(es, 1, k)  BY <1>1
  <2>4. DOMAIN q = {"entries", "total", "truncated"} /\ q = [x \in DOMAIN q |-> q[x]]
        /\ q.entries = Append(p.entries, es[k]) /\ q.truncated = p.truncated
    BY <2>2 DEF Presents
  <2>. HIDE DEF q
  <2>. QED  BY <1>2, <2>1, <2>3, <2>4 DEF Presents, q
<1>. QED  BY <1>4, <1>5

(* All of them. *)
LEMMA PresentIs ==
    ASSUME NEW T, NEW es \in Seq(T), NEW limit \in Nat
    PROVE  Presents(Present(limit, es), es, Len(es), limit)
<1>0. PICK n \in Nat : Len(es) = n  OBVIOUS
<1>1. DOMAIN es = 1 .. n  BY <1>0
<1>2. PICK f : f[0] = Empty /\ PushSteps(limit, f, es, n) /\ Present(limit, es) = f[n]
  BY <1>0, <1>1, PresentRun, SMTT(60)
<1>. DEFINE S == {k \in 0 .. n : ~ Presents(f[k], es, k, limit)}
<1>3. 0 \notin S
  <2>1. SubSeq(es, 1, 0) = <<>> /\ 0 <= limit /\ ~ (0 > limit)  OBVIOUS
  <2>2. Presents(Empty, es, 0, limit)  BY <2>1 DEF Presents, Empty
  <2>. QED  BY <1>2, <2>2
<1>4. ASSUME NEW k \in 1 .. n, k - 1 \notin S PROVE k \notin S
  <2>1. k - 1 \in 0 .. n /\ Presents(f[k - 1], es, k - 1, limit)  BY <1>4
  <2>2. f[k] = Push(limit, f[k - 1], es[k])  BY <1>2 DEF PushSteps
  <2>3. Presents(f[k], es, k, limit)  BY <1>0, <2>1, <2>2, PushIs
  <2>. QED  BY <2>3
<1>5. S = {}
  <2>1. S \in SUBSET (0 .. n)  OBVIOUS
  <2>. HIDE DEF S
  <2>. QED  BY <1>3, <1>4, <2>1, NoFailure
<1>6. n \in 0 .. n  OBVIOUS
<1>. QED  BY <1>0, <1>2, <1>5, <1>6

(* With place for an entry at least, the first entry is shown; and what is *)
(* not marked as truncated is shown completely.                            *)
LEMMA Shown ==
    ASSUME NEW T, NEW es \in Seq(T), NEW limit \in Nat \ {0}, NEW p, p = Present(limit, es)
    PROVE  /\ ~ p.truncated => p.entries = es
           /\ p.entries \in Seq(T) /\ ToSet(p.entries) \subseteq ToSet(es)
           /\ p.entries = <<>> <=> es = <<>>
           /\ es # <<>> => p.entries[1] = es[1]
<1>1. PICK n \in Nat : Len(es) = n  OBVIOUS
<1>. DEFINE m == IF n <= limit THEN n ELSE limit
<1>2. p.entries = SubSeq(es, 1, m) /\ (p.truncated <=> n > limit)
  <2>1. Presents(p, es, n, limit)  BY <1>1, PresentIs
  <2>. QED  BY <2>1 DEF Presents
<1>3. m \in 0 .. n /\ (n # 0 => m # 0) /\ (~ (n > limit) => m = n)  OBVIOUS
<1>. HIDE DEF m
<1>4. SubSeq(es, 1, m) \in Seq(T) /\ Len(SubSeq(es, 1, m)) = m
      /\ \A i \in 1 .. m : SubSeq(es, 1, m)[i] = es[i]
  BY <1>1, <1>3
<1>5. ~ p.truncated => p.entries = es
  <2>1. SubSeq(es, 1, n) = es  BY <1>1
  <2>. QED  BY <1>2, <1>3, <2>1
<1>6. ToSet(p.entries) \subseteq ToSet(es)
  <2>1. DOMAIN SubSeq(es, 1, m) = 1 .. m /\ DOMAIN es = 1 .. n  BY <1>1, <1>4
  <2>2. 1 .. m \subseteq 1 .. n  BY <1>3
  <2>. QED  BY <1>2, <1>4, <2>1, <2>2 DEF ToSet
<1>7. p.entries = <<>> <=> es = <<>>  BY <1>1, <1>2, <1>3, <1>4
<1>8. es # <<>> => p.entries[1] = es[1]
  <2>1. es # <<>> => 1 \in 1 .. m  BY <1>1, <1>3
  <2>. QED  BY <1>2, <1>4, <2>1
<1>. QED  BY <1>2, <1>4, <1>5, <1>6, <1>7, <1>8
--------------------------------------------------------------------------------
(* The compared form of the segments. *)

(* Numbers that are finitely many have a bound. *)
LEMMA Bounded ==
    ASSUME NEW n \in Nat, NEW f, \A i \in 1 .. n : f[i] \in Nat
    PROVE  \E b \in Nat : \A i \in 1 .. n : f[i] <= b
<1>. DEFINE Bound(k) == \E b \in Nat : \A i \in 1 .. k : f[i] <= b
            S == {k \in 0 .. n : ~ Bound(k)}
<1>1. 0 \notin S
  <2>1. \A i \in 1 .. 0 : f[i] <= 0  OBVIOUS
  <2>. QED  BY <2>1
<1>2. ASSUME NEW k \in 1 .. n, k - 1 \notin S PROVE k \notin S
  <2>1. k - 1 \in 0 .. n  OBVIOUS
  <2>2. PICK b \in Nat : \A i \in 1 .. k - 1 : f[i] <= b  BY <1>2, <2>1
  <2>3. f[k] \in Nat /\ b + f[k] \in Nat  OBVIOUS
  <2>4. \A i \in 1 .. k : f[i] <= b + f[k]
    <3>. SUFFICES ASSUME NEW i \in 1 .. k PROVE f[i] <= b + f[k]  OBVIOUS
    <3>1. f[i] \in Nat  OBVIOUS
    <3>2. CASE i = k  BY <2>3, <3>2
    <3>3. CASE i # k
      <4>1. f[i] <= b  BY <2>2, <3>3
      <4>. QED  BY <2>3, <3>1, <4>1
    <3>. QED  BY <3>2, <3>3
  <2>. QED  BY <2>3, <2>4
<1>3. S = {}
  <2>1. S \in SUBSET (0 .. n)  OBVIOUS
  <2>. HIDE DEF S
  <2>. QED  BY <1>1, <1>2, <2>1, NoFailure
<1>4. n \in 0 .. n  OBVIOUS
<1>. HIDE DEF Bound
<1>5. Bound(n)  BY <1>3, <1>4
<1>. QED  BY <1>5 DEF Bound

(* What is known of a list that is stored. *)
LEMMA StoredIs ==
    ASSUME NEW l, StoredList(l)
    PROVE  /\ l.segments \in Seq(SegmentType) /\ Len(l.segments) \in Nat
           /\ DOMAIN l.segments = 1 .. Len(l.segments)
           /\ \A i \in 1 .. Len(l.segments) :
                 l.segments[i] \in SegmentType /\ l.segments[i] \in ToSet(l.segments)
           /\ \A s \in ToSet(l.segments) : s \in SegmentType /\ Len(s.payload) \in Nat
           /\ Len(l.segments) <= MaxSegments
           /\ l.profile[1] \in Nat /\ l.topology \in Nat
<1>1. l.segments \in Seq(SegmentType) /\ Len(l.segments) <= MaxSegments
  BY DEF StoredList
<1>2. l.profile \in Nat \X Nat /\ l.topology \in Nat  BY DEF StoredList
<1>3. PICK s : s = l.segments  OBVIOUS
<1>4. s \in Seq(SegmentType) /\ Len(s) \in Nat /\ DOMAIN s = 1 .. Len(s)
      /\ \A i \in 1 .. Len(s) : s[i] \in SegmentType
  BY <1>1, <1>3
<1>5. \A i \in 1 .. Len(s) : s[i] \in ToSet(s)  BY <1>4 DEF ToSet
<1>6. \A x \in ToSet(s) : x \in SegmentType  BY <1>4 DEF ToSet
<1>. QED  BY <1>1, <1>2, <1>3, <1>4, <1>5, <1>6, SegmentIs

(* The payloads of a list have a bound. *)
LEMMA PayloadsBounded ==
    ASSUME NEW l, StoredList(l)
    PROVE  \E b \in Nat : \A s \in ToSet(l.segments) : Len(s.payload) <= b
<1>1. PICK n \in Nat : Len(l.segments) = n /\ DOMAIN l.segments = 1 .. n  BY StoredIs
<1>. DEFINE f == [i \in 1 .. n |-> Len(l.segments[i].payload)]
<1>2. \A i \in 1 .. n : f[i] \in Nat  BY <1>1, StoredIs
<1>3. PICK b \in Nat : \A i \in 1 .. n : f[i] <= b
  <2>. HIDE DEF f
  <2>. QED  BY <1>2, Bounded
<1>4. \A i \in 1 .. n : Len(l.segments[i].payload) <= b  BY <1>3
<1>. QED  BY <1>1, <1>4 DEF ToSet

(* No payload is wider than the width of the comparison. *)
LEMMA CompareWidthIs ==
    ASSUME NEW from, StoredList(from), NEW to, StoredList(to)
    PROVE  /\ compare_width(from, to) \in Nat
           /\ \A s \in ToSet(from.segments) \cup ToSet(to.segments) :
                 Len(s.payload) <= compare_width(from, to)
<1>. DEFINE all == ToSet(from.segments) \cup ToSet(to.segments)
            W == {1} \cup {Len(s.payload) : s \in all}
<1>1. PICK b \in Nat : \A s \in ToSet(from.segments) : Len(s.payload) <= b  BY PayloadsBounded
<1>2. PICK c \in Nat : \A s \in ToSet(to.segments) : Len(s.payload) <= c  BY PayloadsBounded
<1>3. \A s \in all : Len(s.payload) \in Nat  BY StoredIs
<1>4. ASSUME NEW s \in all PROVE Len(s.payload) \in 0 .. b + c + 1
  <2>1. Len(s.payload) \in Nat  BY <1>3
  <2>2. Len(s.payload) <= b \/ Len(s.payload) <= c  BY <1>1, <1>2
  <2>. QED  BY <2>1, <2>2
<1>5. W \in SUBSET (0 .. b + c + 1) /\ W # {} /\ b + c + 1 \in Nat  BY <1>4
<1>6. \A s \in all : Len(s.payload) \in W  OBVIOUS
<1>7. compare_width(from, to) = Max(W)  BY DEF compare_width
<1>. HIDE DEF W, all
<1>8. Max(W) \in W /\ \A x \in W : x <= Max(W)  BY <1>5, MaxIs
<1>9. Max(W) \in Nat
  <2>1. \A x \in W : x \in 0 .. b + c + 1  BY <1>5, Zenon
  <2>2. \A x \in 0 .. b + c + 1 : x \in Nat  OBVIOUS
  <2>. QED  BY <1>8, <2>1, <2>2, Zenon
<1>. QED  BY <1>6, <1>7, <1>8, <1>9 DEF all

(* Payloads that fit into two widths are padded to the same in both or in  *)
(* neither.                                                                *)
LEMMA PaddedAlike ==
    ASSUME NEW s \in Seq(Nat), NEW t \in Seq(Nat), NEW v \in Nat, NEW w \in Nat,
           Len(s) <= v, Len(t) <= v, Len(s) <= w, Len(t) <= w,
           Padded(s, v) = Padded(t, v)
    PROVE  Padded(s, w) = Padded(t, w)
<1>1. PICK m \in Nat : Len(s) = m  OBVIOUS
<1>2. PICK n \in Nat : Len(t) = n  OBVIOUS
<1>. DEFINE at(x, i) == IF i <= Len(x) THEN x[i] ELSE 0
<1>3. \A i \in 1 .. v : at(s, i) = at(t, i)
  <2>1. \A i \in 1 .. v : Padded(s, v)[i] = at(s, i) /\ Padded(t, v)[i] = at(t, i)
    BY DEF Padded
  <2>. HIDE DEF at
  <2>. QED  BY <2>1
<1>4. ASSUME NEW i \in 1 .. w PROVE at(s, i) = at(t, i)
  <2>1. CASE i <= v  BY <1>3, <2>1
  <2>2. CASE ~ (i <= v)
    <3>1. ~ (i <= Len(s)) /\ ~ (i <= Len(t))  BY <1>1, <1>2, <2>2
    <3>. QED  BY <3>1
  <2>. QED  BY <2>1, <2>2
<1>5. Padded(s, w) = [i \in 1 .. w |-> at(s, i)] /\ Padded(t, w) = [i \in 1 .. w |-> at(t, i)]
  BY DEF Padded
<1>. HIDE DEF at
<1>. QED  BY <1>4, <1>5

(* So the canonical forms agree in both widths or in neither. *)
LEMMA CanonicalAlike ==
    ASSUME NEW s \in SegmentType, NEW t \in SegmentType, NEW v \in Nat, NEW w \in Nat,
           Len(s.payload) <= v, Len(t.payload) <= v, Len(s.payload) <= w, Len(t.payload) <= w
    PROVE  Canonical(s, v) = Canonical(t, v) <=> Canonical(s, w) = Canonical(t, w)
<1>1. s.payload \in Seq(Nat) /\ t.payload \in Seq(Nat)  BY SegmentIs
<1>2. Padded(s.payload, v) = Padded(t.payload, v) <=> Padded(s.payload, w) = Padded(t.payload, w)
  BY <1>1, PaddedAlike
<1>3. SegmentSemanticEqual(s, t, v) <=> SegmentSemanticEqual(s, t, w)
  BY <1>2 DEF SegmentSemanticEqual
<1>. QED  BY <1>3, SameCanonicalForm
--------------------------------------------------------------------------------
(* The comparison. *)

(* What is in three sequences, one after the other. *)
LEMMA InThree ==
    ASSUME NEW T, NEW s \in Seq(T), NEW t \in Seq(T), NEW u \in Seq(T)
    PROVE  /\ s \o t \o u \in Seq(T)
           /\ ToSet(s \o t \o u) = ToSet(s) \cup ToSet(t) \cup ToSet(u)
<1>1. PICK x : x = s \o t  OBVIOUS
<1>2. x \in Seq(T)  BY <1>1
<1>3. ToSet(s \o t) = ToSet(s) \cup ToSet(t)  BY Concatenation
<1>4. x \o u \in Seq(T)  BY <1>2
<1>5. ToSet(x \o u) = ToSet(x) \cup ToSet(u)  BY <1>2, Concatenation
<1>. QED  BY <1>1, <1>3, <1>4, <1>5, Zenon

(* The entries for the segments of two revisions in their compared form. *)
Moved(a, b, kind) == {Change(kind, i, b[i]) : i \in {j \in DOMAIN a \cap DOMAIN b : a[j] # b[j]}}
Inserted(a, b) == {Change("Insert", i, b[i]) : i \in DOMAIN b \ DOMAIN a}
Removed(a, b) == {Change("Remove", i, a[i]) : i \in DOMAIN a \ DOMAIN b}
SegmentEntries(a, b, kind) == Moved(a, b, kind) \cup Inserted(a, b) \cup Removed(a, b)

(* What follows the segments that both revisions have. *)
TailOf(s, c, k) == [i \in 1 .. Len(s) - c |-> Change(k, c + i, s[c + i])]

(* The tail of the longer revision is a sequence of entries. *)
LEMMA TailIs ==
    ASSUME NEW n \in Nat, NEW s, Len(s) = n, NEW c \in 0 .. n, NEW k
    PROVE  /\ TailOf(s, c, k) \in Seq({Change(k, i, s[i]) : i \in c + 1 .. n})
           /\ ToSet(TailOf(s, c, k)) = {Change(k, i, s[i]) : i \in c + 1 .. n}
<1>. DEFINE T == {Change(k, i, s[i]) : i \in c + 1 .. n}
            t == TailOf(s, c, k)
            d == n - c
<1>1. d \in Nat /\ t = [i \in 1 .. d |-> Change(k, c + i, s[c + i])]  BY DEF TailOf
<1>2. \A i \in 1 .. d : c + i \in c + 1 .. n  OBVIOUS
<1>3. \A i \in c + 1 .. n : i - c \in 1 .. d /\ c + (i - c) = i  OBVIOUS
<1>. HIDE DEF d, t
<1>4. \A i \in 1 .. d : t[i] = Change(k, c + i, s[c + i]) /\ t[i] \in T  BY <1>1, <1>2
<1>5. DOMAIN t = 1 .. d  BY <1>1
<1>6. t \in Seq(T)
  <2>. HIDE DEF T
  <2>1. t = [i \in 1 .. d |-> t[i]]  BY <1>1, <1>4, <1>5
  <2>. QED  BY <1>1, <1>4, <2>1, EachOf
<1>7. ToSet(t) \subseteq T  BY <1>4, <1>5 DEF ToSet
<1>8. ASSUME NEW x \in T PROVE x \in ToSet(t)
  <2>1. PICK i \in c + 1 .. n : x = Change(k, i, s[i])  OBVIOUS
  <2>2. i - c \in 1 .. d /\ c + (i - c) = i  BY <1>3
  <2>3. t[i - c] = x  BY <1>4, <2>1, <2>2
  <2>. QED  BY <1>5, <2>2, <2>3 DEF ToSet
<1>. QED  BY <1>6, <1>7, <1>8 DEF t

(* What the comparison says of the segments. *)
LEMMA SegmentChangesAre ==
    ASSUME NEW from, StoredList(from), NEW to, StoredList(to),
           NEW width, width = compare_width(from, to),
           NEW a, a = segment_digests(from, width), NEW b, b = segment_digests(to, width),
           NEW kind, kind = IF order_changed(from, to) THEN "Reorder" ELSE "Replace"
    PROVE  /\ segment_changes(from, to) \in Seq(SegmentEntries(a, b, kind))
           /\ ToSet(segment_changes(from, to)) = SegmentEntries(a, b, kind)
<1>. DEFINE T == SegmentEntries(a, b, kind)
            common == DOMAIN a \cap DOMAIN b
            ss == [i \in common |-> IF a[i] # b[i] THEN <<Change(kind, i, b[i])>> ELSE <<>>]
<1>1. PICK n \in Nat : Len(from.segments) = n /\ DOMAIN from.segments = 1 .. n  BY StoredIs
<1>2. PICK m \in Nat : Len(to.segments) = m /\ DOMAIN to.segments = 1 .. m  BY StoredIs
<1>3. /\ a = [i \in 1 .. n |-> Canonical(from.segments[i], width)]
      /\ b = [i \in 1 .. m |-> Canonical(to.segments[i], width)]
  BY <1>1, <1>2 DEF segment_digests
<1>4. DOMAIN a = 1 .. n /\ Len(a) = n /\ DOMAIN b = 1 .. m /\ Len(b) = m  BY <1>3
<1>5. PICK c \in Nat : c = IF n <= m THEN n ELSE m  OBVIOUS
<1>6. c \in 0 .. n /\ c \in 0 .. m /\ common = 1 .. c  BY <1>4, <1>5
<1>7. Cardinality(common) = c
  <2>1. Cardinality(1 .. c) = c  BY FS_Interval, 0 <= c, c \in Int, 1 \in Int
  <2>. QED  BY <1>6, <2>1, Zenon
<1>8. segment_changes(from, to)
        = FlattenSeq(ss) \o TailOf(b, c, "Insert") \o TailOf(a, c, "Remove")
  BY <1>7 DEF segment_changes, TailOf
<1>9. /\ DOMAIN b \ DOMAIN a = c + 1 .. m
      /\ DOMAIN a \ DOMAIN b = c + 1 .. n
  BY <1>4, <1>5
<1>10. /\ TailOf(b, c, "Insert") \in Seq(Inserted(a, b)) /\ ToSet(TailOf(b, c, "Insert")) = Inserted(a, b)
       /\ TailOf(a, c, "Remove") \in Seq(Removed(a, b)) /\ ToSet(TailOf(a, c, "Remove")) = Removed(a, b)
  <2>1. /\ TailOf(b, c, "Insert") \in Seq({Change("Insert", i, b[i]) : i \in c + 1 .. m})
        /\ ToSet(TailOf(b, c, "Insert")) = {Change("Insert", i, b[i]) : i \in c + 1 .. m}
    BY <1>4, <1>6, TailIs, SMTT(60)
  <2>2. /\ TailOf(a, c, "Remove") \in Seq({Change("Remove", i, a[i]) : i \in c + 1 .. n})
        /\ ToSet(TailOf(a, c, "Remove")) = {Change("Remove", i, a[i]) : i \in c + 1 .. n}
    BY <1>4, <1>6, TailIs, SMTT(60)
  <2>3. /\ Inserted(a, b) = {Change("Insert", i, b[i]) : i \in c + 1 .. m}
        /\ Removed(a, b) = {Change("Remove", i, a[i]) : i \in c + 1 .. n}
    BY <1>9 DEF Inserted, Removed
  <2>. QED  BY <2>1, <2>2, <2>3, Zenon
<1>11. /\ ss \in Seq(Seq(T)) /\ DOMAIN ss = 1 .. c
       /\ \A i \in 1 .. c : ss[i] = IF a[i] # b[i] THEN <<Change(kind, i, b[i])>> ELSE <<>>
  <2>1. \A i \in 1 .. c : a[i] # b[i] => Change(kind, i, b[i]) \in T
    BY <1>6 DEF SegmentEntries, Moved
  <2>. HIDE DEF T
  <2>2. ss = [i \in 1 .. c |-> IF a[i] # b[i] THEN <<Change(kind, i, b[i])>> ELSE <<>>]
    BY <1>6
  <2>3. \A i \in 1 .. c : ss[i] \in Seq(T)
    <3>. SUFFICES ASSUME NEW i \in 1 .. c PROVE ss[i] \in Seq(T)  OBVIOUS
    <3>. DEFINE e == Change(kind, i, b[i])
    <3>1. a[i] # b[i] => e \in T  BY <2>1
    <3>. HIDE DEF e
    <3>2. ss[i] = IF a[i] # b[i] THEN <<e>> ELSE <<>>  BY <2>2 DEF e
    <3>. HIDE DEF ss
    <3>. QED  BY <3>1, <3>2
  <2>4. \A i \in 1 .. c : ss[i] = IF a[i] # b[i] THEN <<Change(kind, i, b[i])>> ELSE <<>>
    BY <2>2
  <2>5. DOMAIN ss = 1 .. c /\ ss = [i \in 1 .. c |-> ss[i]]  BY <2>2
  <2>. HIDE DEF ss
  <2>6. ss \in Seq(Seq(T))  BY <2>3, <2>5, EachOf
  <2>. QED  BY <2>4, <2>5, <2>6
<1>. HIDE DEF ss
<1>12. FlattenSeq(ss) \in Seq(T) /\ ToSet(FlattenSeq(ss)) = UNION {ToSet(ss[i]) : i \in 1 .. c}
  <2>. HIDE DEF T
  <2>. QED  BY <1>11, Flattened
<1>13. ToSet(FlattenSeq(ss)) = Moved(a, b, kind)
  <2>1. ASSUME NEW i \in 1 .. c
        PROVE  ToSet(ss[i]) = IF a[i] # b[i] THEN {Change(kind, i, b[i])} ELSE {}
    BY <1>11 DEF ToSet
  <2>2. Moved(a, b, kind) = {Change(kind, i, b[i]) : i \in {j \in 1 .. c : a[j] # b[j]}}
    BY <1>6 DEF Moved
  <2>3. ASSUME NEW x \in ToSet(FlattenSeq(ss)) PROVE x \in Moved(a, b, kind)
    <3>1. PICK i \in 1 .. c : x \in ToSet(ss[i])  BY <1>12
    <3>2. a[i] # b[i] /\ x = Change(kind, i, b[i])  BY <2>1, <3>1
    <3>. QED  BY <2>2, <3>2
  <2>4. Moved(a, b, kind) \subseteq ToSet(FlattenSeq(ss))  BY <1>12, <2>1, <2>2
  <2>. QED  BY <2>3, <2>4
<1>14. Inserted(a, b) \subseteq T /\ Removed(a, b) \subseteq T  BY DEF SegmentEntries
<1>. DEFINE x == FlattenSeq(ss)
            y == TailOf(b, c, "Insert")
            z == TailOf(a, c, "Remove")
<1>15. x \in Seq(T) /\ y \in Seq(T) /\ z \in Seq(T)
  <2>. HIDE DEF T
  <2>. QED  BY <1>10, <1>12, <1>14
<1>. HIDE DEF x, y, z
<1>16. /\ x \o y \o z \in Seq(T)
       /\ ToSet(x \o y \o z) = ToSet(x) \cup ToSet(y) \cup ToSet(z)
  <2>. HIDE DEF T
  <2>. QED  BY <1>15, InThree
<1>. QED  BY <1>8, <1>10, <1>13, <1>16 DEF x, y, z, SegmentEntries

(* The entries for the segments after a place. *)
EntriesFrom(k, s, c, n) == {Change(k, i, s[i]) : i \in c + 1 .. n}

(* There is one for each segment. *)
LEMMA EntriesCount ==
    ASSUME NEW k, NEW s, NEW c \in Nat, NEW n \in Nat, c <= n
    PROVE  Cardinality(EntriesFrom(k, s, c, n)) = n - c
<1>. DEFINE T == {Change(k, i, s[i]) : i \in c + 1 .. n}
            f == [i \in c + 1 .. n |-> Change(k, i, s[i])]
<1>1. \A i \in c + 1 .. n : f[i] = Change(k, i, s[i]) /\ f[i] \in T  OBVIOUS
<1>2. \A i \in c + 1 .. n : f[i].index = i  BY DEF Change
<1>3. \A x \in T : \E i \in c + 1 .. n : f[i] = x  OBVIOUS
<1>4. DOMAIN f = c + 1 .. n /\ f = [i \in c + 1 .. n |-> f[i]]  OBVIOUS
<1>. HIDE DEF f, T
<1>5. f \in [c + 1 .. n -> T]  BY <1>1, <1>4
<1>6. f \in Bijection(c + 1 .. n, T)
  <2>1. \A i, j \in c + 1 .. n : f[i] = f[j] => i = j  BY <1>2
  <2>. QED  BY <1>3, <1>5, <2>1 DEF Bijection, Injection, Surjection, IsInjective
<1>7. IsFiniteSet(c + 1 .. n) /\ Cardinality(c + 1 .. n) = n - c
  <2>1. c + 1 \in Int /\ n \in Int  OBVIOUS
  <2>2. IsFiniteSet(c + 1 .. n)  BY <2>1, FS_Interval
  <2>3. Cardinality(c + 1 .. n) = IF c + 1 > n THEN 0 ELSE n - (c + 1) + 1  BY <2>1, FS_Interval
  <2>. QED  BY <2>2, <2>3
<1>8. Cardinality(T) = Cardinality(c + 1 .. n)
  <2>1. ExistsBijection(c + 1 .. n, T)  BY <1>6 DEF ExistsBijection
  <2>2. PICK I : I = c + 1 .. n  OBVIOUS
  <2>. QED  BY <1>7, <2>1, <2>2, FS_Bijection
<1>. QED  BY <1>7, <1>8 DEF T, EntriesFrom

(* A sequence of this length. *)
Sequence(s, n) == n \in Nat /\ s = [i \in 1 .. n |-> s[i]]

(* The later revision is what results when the entries are applied to the  *)
(* earlier one.                                                            *)
LEMMA PatchIs ==
    ASSUME NEW n, NEW m, NEW a, NEW b, Sequence(a, n), Sequence(b, m),
           NEW kind \in {"Reorder", "Replace"}
    PROVE  Patched(a, SegmentEntries(a, b, kind)) = b
<1>. USE DEF Sequence
<1>. DEFINE E == SegmentEntries(a, b, kind)
            of(k) == {c \in E : c.kind = k}
            changed(i) == {c \in E : c.index = i /\ c.kind # "Remove"}
            value(i) == IF changed(i) # {} THEN (CHOOSE c \in changed(i) : TRUE).detail ELSE a[i]
<1>1. DOMAIN a = 1 .. n /\ DOMAIN b = 1 .. m /\ Len(a) = n  OBVIOUS
<1>2. PICK c \in Nat : c = IF n <= m THEN n ELSE m  OBVIOUS
<1>3. /\ DOMAIN b \ DOMAIN a = c + 1 .. m
      /\ DOMAIN a \ DOMAIN b = c + 1 .. n
      /\ DOMAIN a \cap DOMAIN b = 1 .. c
      /\ c <= n /\ c <= m
  BY <1>1, <1>2
<1>4. of("Insert") = {Change("Insert", i, b[i]) : i \in c + 1 .. m}
  <2>1. Inserted(a, b) = {Change("Insert", i, b[i]) : i \in c + 1 .. m}  BY <1>3 DEF Inserted
  <2>2. \A x \in Inserted(a, b) : x.kind = "Insert"  BY DEF Inserted, Change
  <2>3. \A x \in Removed(a, b) : x.kind = "Remove"  BY DEF Removed, Change
  <2>4. \A x \in Moved(a, b, kind) : x.kind = kind  BY DEF Moved, Change
  <2>5. of("Insert") = Inserted(a, b)  BY <2>2, <2>3, <2>4 DEF SegmentEntries
  <2>. QED  BY <2>1, <2>5
<1>5. of("Remove") = {Change("Remove", i, a[i]) : i \in c + 1 .. n}
  <2>1. Removed(a, b) = {Change("Remove", i, a[i]) : i \in c + 1 .. n}  BY <1>3 DEF Removed
  <2>2. \A x \in Inserted(a, b) : x.kind = "Insert"  BY DEF Inserted, Change
  <2>3. \A x \in Removed(a, b) : x.kind = "Remove"  BY DEF Removed, Change
  <2>4. \A x \in Moved(a, b, kind) : x.kind = kind  BY DEF Moved, Change
  <2>5. of("Remove") = Removed(a, b)  BY <2>2, <2>3, <2>4 DEF SegmentEntries
  <2>. QED  BY <2>1, <2>5
<1>6. Len(a) + Cardinality(of("Insert")) - Cardinality(of("Remove")) = m
  <2>1. Cardinality(of("Insert")) = m - c
    <3>1. Cardinality(EntriesFrom("Insert", b, c, m)) = m - c  BY <1>3, EntriesCount
    <3>. QED  BY <1>4, <3>1, Zenon DEF EntriesFrom
  <2>2. Cardinality(of("Remove")) = n - c
    <3>1. Cardinality(EntriesFrom("Remove", a, c, n)) = n - c  BY <1>3, EntriesCount
    <3>. QED  BY <1>5, <3>1, Zenon DEF EntriesFrom
  <2>. HIDE DEF of
  <2>. QED  BY <1>1, <2>1, <2>2
<1>7. ASSUME NEW i \in 1 .. m PROVE value(i) = b[i]
  <2>1. CASE i \in 1 .. c
    <3>1. i \in DOMAIN a \cap DOMAIN b  BY <1>3, <2>1
    <3>2. CASE a[i] # b[i]
      <4>1. changed(i) = {Change(kind, i, b[i])}
        <5>1. ASSUME NEW x \in changed(i) PROVE x = Change(kind, i, b[i])
          <6>1. x \notin Removed(a, b)  BY DEF Removed, Change
          <6>2. x \notin Inserted(a, b)
            <7>1. \A y \in Inserted(a, b) : y.index \in DOMAIN b \ DOMAIN a  BY DEF Inserted, Change
            <7>. QED  BY <3>1, <7>1
          <6>3. x \in Moved(a, b, kind)  BY <6>1, <6>2 DEF SegmentEntries
          <6>4. PICK j \in DOMAIN a \cap DOMAIN b : x = Change(kind, j, b[j])  BY <6>3 DEF Moved
          <6>5. j = i  BY <6>4 DEF Change
          <6>. QED  BY <6>4, <6>5
        <5>2. Change(kind, i, b[i]) \in Moved(a, b, kind)  BY <3>1, <3>2 DEF Moved
        <5>3. Change(kind, i, b[i]) \in changed(i)
          <6>1. Change(kind, i, b[i]).index = i /\ Change(kind, i, b[i]).kind = kind
            BY DEF Change
          <6>. QED  BY <5>2, <6>1 DEF SegmentEntries
        <5>. QED  BY <5>1, <5>3
      <4>. HIDE DEF changed
      <4>2. (CHOOSE x \in changed(i) : TRUE) = Change(kind, i, b[i])  BY <4>1
      <4>. QED  BY <4>1, <4>2 DEF Change
    <3>3. CASE a[i] = b[i]
      <4>1. changed(i) = {}
        <5>. SUFFICES ASSUME NEW x \in changed(i) PROVE FALSE  OBVIOUS
        <5>1. x \notin Removed(a, b)  BY DEF Removed, Change
        <5>2. x \notin Inserted(a, b)
          <6>1. \A y \in Inserted(a, b) : y.index \in DOMAIN b \ DOMAIN a  BY DEF Inserted, Change
          <6>. QED  BY <3>1, <6>1
        <5>3. x \in Moved(a, b, kind)  BY <5>1, <5>2 DEF SegmentEntries
        <5>4. PICK j \in DOMAIN a \cap DOMAIN b : x = Change(kind, j, b[j]) /\ a[j] # b[j]
          BY <5>3 DEF Moved
        <5>5. j = i  BY <5>4 DEF Change
        <5>. QED  BY <3>3, <5>4, <5>5
      <4>. HIDE DEF changed
      <4>. QED  BY <3>3, <4>1
    <3>. QED  BY <3>2, <3>3
  <2>2. CASE i \notin 1 .. c
    <3>1. i \in DOMAIN b \ DOMAIN a /\ i \notin DOMAIN a \cap DOMAIN b  BY <1>3, <2>2
    <3>2. changed(i) = {Change("Insert", i, b[i])}
      <4>1. ASSUME NEW x \in changed(i) PROVE x = Change("Insert", i, b[i])
        <5>1. x \notin Removed(a, b)  BY DEF Removed, Change
        <5>2. x \notin Moved(a, b, kind)
          <6>1. \A y \in Moved(a, b, kind) : y.index \in DOMAIN a \cap DOMAIN b  BY DEF Moved, Change
          <6>. QED  BY <3>1, <6>1
        <5>3. x \in Inserted(a, b)  BY <5>1, <5>2 DEF SegmentEntries
        <5>4. PICK j \in DOMAIN b \ DOMAIN a : x = Change("Insert", j, b[j])  BY <5>3 DEF Inserted
        <5>5. j = i  BY <5>4 DEF Change
        <5>. QED  BY <5>4, <5>5
      <4>2. Change("Insert", i, b[i]) \in Inserted(a, b)  BY <3>1 DEF Inserted
      <4>3. Change("Insert", i, b[i]) \in changed(i)
        <5>1. Change("Insert", i, b[i]).index = i /\ Change("Insert", i, b[i]).kind = "Insert"
          BY DEF Change
        <5>. QED  BY <4>2, <5>1 DEF SegmentEntries
      <4>. QED  BY <4>1, <4>3
    <3>. HIDE DEF changed
    <3>3. (CHOOSE x \in changed(i) : TRUE) = Change("Insert", i, b[i])  BY <3>2
    <3>. QED  BY <3>2, <3>3 DEF Change
  <2>. QED  BY <2>1, <2>2
<1>8. Patched(a, E) = [i \in 1 .. Len(a) + Cardinality(of("Insert")) - Cardinality(of("Remove"))
                          |-> value(i)]
  BY DEF Patched
<1>. HIDE DEF of, value
<1>9. Patched(a, E) = [i \in 1 .. m |-> value(i)]  BY <1>6, <1>8
<1>. QED  BY <1>7, <1>9

(* The places of the entries of one kind. *)
Marked(s, kind) == {k \in DOMAIN s : s[k].kind = kind}

(* They are finitely many; what is added of other kinds changes nothing,   *)
(* and an entry of the kind adds its place.                                *)
LEMMA MarkedIs ==
    ASSUME NEW T, NEW s \in Seq(T), NEW kind
    PROVE  /\ IsFiniteSet(Marked(s, kind)) /\ Cardinality(Marked(s, kind)) \in Nat
           /\ \A t \in Seq(T) : (\A k \in DOMAIN t : t[k].kind # kind)
                                    => Marked(s \o t, kind) = Marked(s, kind)
           /\ \A x \in T : x.kind = kind =>
                 Cardinality(Marked(s \o <<x>>, kind)) = Cardinality(Marked(s, kind)) + 1
<1>1. PICK n \in Nat : Len(s) = n /\ DOMAIN s = 1 .. n  OBVIOUS
<1>2. IsFiniteSet(Marked(s, kind)) /\ Cardinality(Marked(s, kind)) \in Nat
  <2>1. IsFiniteSet(1 .. n)  BY FS_Interval
  <2>2. Marked(s, kind) \in SUBSET (1 .. n)  BY <1>1 DEF Marked
  <2>3. IsFiniteSet(Marked(s, kind))  BY <2>1, <2>2, FS_Subset
  <2>. QED  BY <2>3, FS_CardinalityType
<1>3. ASSUME NEW t \in Seq(T), \A k \in DOMAIN t : t[k].kind # kind
      PROVE  Marked(s \o t, kind) = Marked(s, kind)
  <2>1. PICK m \in Nat : Len(t) = m /\ DOMAIN t = 1 .. m  OBVIOUS
  <2>2. /\ DOMAIN (s \o t) = 1 .. n + m
        /\ \A k \in 1 .. n : (s \o t)[k] = s[k]
        /\ \A k \in n + 1 .. n + m : (s \o t)[k] = t[k - n]
    BY <1>1, <2>1
  <2>3. \A k \in n + 1 .. n + m : k - n \in 1 .. m  OBVIOUS
  <2>4. \A k \in n + 1 .. n + m : (s \o t)[k].kind # kind  BY <1>3, <2>1, <2>2, <2>3
  <2>5. 1 .. n + m = (1 .. n) \cup (n + 1 .. n + m)  OBVIOUS
  <2>6. \A k : k \in Marked(s \o t, kind) <=> k \in Marked(s, kind)
    BY <1>1, <2>2, <2>4, <2>5 DEF Marked
  <2>. QED  BY <2>6
<1>4. ASSUME NEW x \in T, x.kind = kind
      PROVE  Cardinality(Marked(s \o <<x>>, kind)) = Cardinality(Marked(s, kind)) + 1
  <2>1. /\ DOMAIN (s \o <<x>>) = 1 .. n + 1
        /\ \A k \in 1 .. n : (s \o <<x>>)[k] = s[k]
        /\ (s \o <<x>>)[n + 1] = x
    BY <1>1
  <2>2. 1 .. n + 1 = (1 .. n) \cup {n + 1} /\ n + 1 \notin 1 .. n  OBVIOUS
  <2>3. \A k : k \in Marked(s \o <<x>>, kind) <=> k \in Marked(s, kind) \cup {n + 1}
    BY <1>1, <1>4, <2>1, <2>2 DEF Marked
  <2>4. Marked(s \o <<x>>, kind) = Marked(s, kind) \cup {n + 1}  BY <2>3
  <2>5. n + 1 \notin Marked(s, kind)  BY <1>1, <2>2 DEF Marked
  <2>6. PICK y : y = n + 1  OBVIOUS
  <2>7. Cardinality(Marked(s, kind) \cup {y}) = Cardinality(Marked(s, kind)) + 1
    BY <1>2, <2>5, <2>6, FS_AddElement
  <2>. QED  BY <2>4, <2>6, <2>7
<1>. QED  BY <1>2, <1>3, <1>4

(* A sequence of entries and gaps, and its entries of a kind. *)
Sparse(T, ss, n, D, x) ==
    /\ n \in Nat \ {0} /\ D \in SUBSET (1 .. n) /\ \A i \in 1 .. n : x[i] \in T
    /\ ss = [i \in 1 .. n |-> IF i \in D THEN <<x[i]>> ELSE <<>>]
OfKind(D, x, kind) == {i \in D : x[i].kind = kind}

(* There are as many entries of a kind in it as are given of it. *)
LEMMA MarkedInFlattened ==
    ASSUME NEW T, NEW n, NEW ss, NEW x, NEW D, NEW kind, Sparse(T, ss, n, D, x)
    PROVE  Cardinality(Marked(FlattenSeq(ss), kind)) = Cardinality(OfKind(D, x, kind))
<1>. n \in Nat \ {0} /\ D \in SUBSET (1 .. n) /\ \A i \in 1 .. n : x[i] \in T  BY DEF Sparse
<1>. DEFINE P(k) == {i \in D : i <= k /\ x[i].kind = kind}
<1>0. DOMAIN ss = 1 .. n /\ Len(ss) = n /\ \A i \in 1 .. n : ss[i] = IF i \in D THEN <<x[i]>> ELSE <<>>
  BY DEF Sparse
<1>1. PICK f : FlattenSeq(ss) = f[n] /\ FlattenSteps(f, ss, n)  BY <1>0, FlattenRun
<1>. DEFINE Good(k) == /\ f[k] \in Seq(T)
                       /\ Cardinality(Marked(f[k], kind)) = Cardinality(P(k))
            S == {k \in 0 .. n : k # 0 /\ ~ Good(k)}
<1>2. ASSUME NEW k \in 1 .. n
      PROVE  /\ k \in D /\ x[k].kind = kind => P(k) = P(k - 1) \cup {k}
             /\ ~ (k \in D /\ x[k].kind = kind) => P(k) = P(k - 1)
             /\ k \notin P(k - 1) /\ IsFiniteSet(P(k - 1))
  <2>1. \A i \in 1 .. n : i <= k <=> i <= k - 1 \/ i = k  OBVIOUS
  <2>2. \A i \in D : i \in 1 .. n  OBVIOUS
  <2>3. ~ (k <= k - 1)  OBVIOUS
  <2>4. P(k - 1) \in SUBSET (1 .. n)  BY <2>2, Zenon
  <2>6. IsFiniteSet(1 .. n)  BY FS_Interval
  <2>5. IsFiniteSet(P(k - 1))
    <3>. HIDE DEF P
    <3>. QED  BY <2>4, <2>6, FS_Subset
  <2>. QED  BY <2>1, <2>2, <2>3, <2>5
<1>3. \A k \in 1 .. n : Cardinality(P(k)) = IF k \in D /\ x[k].kind = kind
                                            THEN Cardinality(P(k - 1)) + 1 ELSE Cardinality(P(k - 1))
  <2>. SUFFICES ASSUME NEW k \in 1 .. n
                PROVE  Cardinality(P(k)) = IF k \in D /\ x[k].kind = kind
                                           THEN Cardinality(P(k - 1)) + 1 ELSE Cardinality(P(k - 1))
    OBVIOUS
  <2>. HIDE DEF P
  <2>1. CASE k \in D /\ x[k].kind = kind
    <3>1. P(k) = P(k - 1) \cup {k} /\ k \notin P(k - 1) /\ IsFiniteSet(P(k - 1))  BY <1>2, <2>1
    <3>2. Cardinality(P(k - 1) \cup {k}) = Cardinality(P(k - 1)) + 1  BY <3>1, FS_AddElement
    <3>. QED  BY <2>1, <3>1, <3>2
  <2>2. CASE ~ (k \in D /\ x[k].kind = kind)  BY <1>2, <2>2
  <2>. QED  BY <2>1, <2>2
<1>4. ASSUME NEW k \in 1 .. n, NEW s \in Seq(T), Cardinality(Marked(s, kind)) = Cardinality(P(k - 1)),
             f[k] = s \o ss[k]
      PROVE  Good(k)
  <2>. HIDE DEF P
  <2>1. CASE k \notin D
    <3>1. f[k] = s  BY <1>0, <1>4, <2>1
    <3>. QED  BY <1>3, <1>4, <2>1, <3>1
  <2>2. CASE k \in D /\ x[k].kind = kind
    <3>1. f[k] = s \o <<x[k]>> /\ x[k] \in T  BY <1>0, <1>4, <2>2
    <3>2. f[k] \in Seq(T)  BY <3>1
    <3>3. Cardinality(Marked(f[k], kind)) = Cardinality(Marked(s, kind)) + 1  BY <2>2, <3>1, MarkedIs
    <3>. QED  BY <1>3, <1>4, <2>2, <3>2, <3>3
  <2>3. CASE k \in D /\ x[k].kind # kind
    <3>1. f[k] = s \o <<x[k]>> /\ x[k] \in T  BY <1>0, <1>4, <2>3
    <3>2. f[k] \in Seq(T) /\ <<x[k]>> \in Seq(T)  BY <3>1
    <3>3. \A j \in DOMAIN <<x[k]>> : <<x[k]>>[j].kind # kind  BY <2>3
    <3>4. Marked(f[k], kind) = Marked(s, kind)
      <4>1. PICK t : t = <<x[k]>>  OBVIOUS
      <4>2. t \in Seq(T) /\ (\A j \in DOMAIN t : t[j].kind # kind) /\ f[k] = s \o t
        BY <3>1, <3>2, <3>3, <4>1
      <4>. QED  BY <4>2, MarkedIs
    <3>. QED  BY <1>3, <1>4, <2>3, <3>2, <3>4
  <2>. QED  BY <2>1, <2>2, <2>3
<1>5. ASSUME NEW k \in 1 .. n, k - 1 \notin S PROVE k \notin S
  <2>1. CASE k = 1
    <3>1. f[1] = <<>> \o ss[1] /\ <<>> \in Seq(T)  BY <1>0, <1>1 DEF FlattenSteps
    <3>2. Marked(<<>>, kind) = {}  BY DEF Marked
    <3>3. P(0) = {}
      <4>1. \A i \in D : ~ (i <= 0)  OBVIOUS
      <4>. QED  BY <4>1, Zenon
    <3>4. k - 1 = 0 /\ f[k] = <<>> \o ss[k]  BY <2>1, <3>1
    <3>. HIDE DEF P, Good
    <3>5. Cardinality(Marked(<<>>, kind)) = Cardinality(P(k - 1))  BY <3>2, <3>3, <3>4
    <3>6. Good(k)  BY <1>4, <3>1, <3>4, <3>5
    <3>. QED  BY <3>6
  <2>2. CASE k # 1
    <3>1. k - 1 \in 0 .. n /\ k - 1 # 0 /\ k \in 2 .. n  BY <2>2
    <3>2. Good(k - 1)
      <4>. HIDE DEF Good
      <4>. QED  BY <1>5, <3>1
    <3>3. f[k] = f[k - 1] \o ss[k]  BY <1>1, <3>1 DEF FlattenSteps
    <3>4. f[k - 1] \in Seq(T) /\ Cardinality(Marked(f[k - 1], kind)) = Cardinality(P(k - 1))
      BY <3>2
    <3>. HIDE DEF P, Good
    <3>5. Good(k)  BY <1>4, <3>3, <3>4
    <3>. QED  BY <3>5
  <2>. QED  BY <2>1, <2>2
<1>6. S = {}
  <2>1. S \in SUBSET (0 .. n) /\ 0 \notin S  OBVIOUS
  <2>. HIDE DEF S
  <2>. QED  BY <1>5, <2>1, NoFailure
<1>7. Good(n)
  <2>. HIDE DEF Good
  <2>1. n \in 0 .. n /\ n # 0  OBVIOUS
  <2>. QED  BY <1>6, <2>1
<1>8. P(n) = OfKind(D, x, kind)
  <2>1. \A i \in D : i <= n  OBVIOUS
  <2>. QED  BY <2>1, Zenon DEF OfKind
<1>. QED  BY <1>1, <1>7, <1>8

(* The fields that are compared and the kinds of their entries. *)
LEMMA ComparedAre ==
    /\ DOMAIN Compared = 1 .. 12
    /\ Compared[1] = <<"gen", "GenerationAdvance">> /\ Compared[2] = <<"state", "LifecycleChange">>
    /\ Compared[3] = <<"cur", "CurrentnessChange">> /\ Compared[4] = <<"profile", "ProfileChange">>
    /\ Compared[5] = <<"policy", "PolicyChange">>
    /\ Compared[6] = <<"strictness", "StrictnessChange">>
    /\ Compared[7] = <<"topology", "DependencyChange">>
    /\ Compared[8] = <<"capability", "DependencyChange">>
    /\ Compared[9] = <<"path", "DependencyChange">> /\ Compared[10] = <<"route", "DependencyChange">>
    /\ Compared[11] = <<"constraint", "DependencyChange">>
    /\ Compared[12] = <<"authority", "AuthorityChange">>
BY DEF Compared

(* Only the dependencies share a kind, and no kind is that of a segment. *)
LEMMA KindsAre ==
    /\ \A i, j \in 1 .. 12 : Compared[i][2] = Compared[j][2]
                                 => i = j \/ Compared[i][2] = "DependencyChange"
    /\ \A i, j \in 1 .. 12 : Compared[i][1] = Compared[j][1] => i = j
    /\ \A i \in 1 .. 12 : Compared[i][2] = "DependencyChange" <=> Compared[i][1] \in Dependencies
    /\ \A d \in Dependencies : \E i \in 1 .. 12 : Compared[i][1] = d
    /\ \A i \in 1 .. 12 : Compared[i][2] \notin {"Reorder", "Replace", "Insert", "Remove"}
<1>1. \A i \in 1 .. 12 : i \in {1, 2, 3, 4, 5, 6, 7, 8, 9, 10, 11, 12}  OBVIOUS
<1>2. \A i \in 1 .. 12 : Compared[i][2] = "DependencyChange" <=> Compared[i][1] \in Dependencies
  BY <1>1, ComparedAre DEF Dependencies
<1>3. \A i \in 1 .. 12 : Compared[i][2] \notin {"Reorder", "Replace", "Insert", "Remove"}
  BY <1>1, ComparedAre
<1>4. \A d \in Dependencies : \E i \in 1 .. 12 : Compared[i][1] = d
  <2>1. /\ Compared[7][1] = "topology" /\ Compared[8][1] = "capability" /\ Compared[9][1] = "path"
        /\ Compared[10][1] = "route" /\ Compared[11][1] = "constraint"
    BY ComparedAre
  <2>2. 7 \in 1 .. 12 /\ 8 \in 1 .. 12 /\ 9 \in 1 .. 12 /\ 10 \in 1 .. 12 /\ 11 \in 1 .. 12  OBVIOUS
  <2>. QED  BY <2>1, <2>2 DEF Dependencies
<1>5. \A i, j \in 1 .. 12 : Compared[i][1] = Compared[j][1] => i = j  BY <1>1, ComparedAre
<1>6. \A i, j \in 1 .. 12 : Compared[i][2] = Compared[j][2]
                                => i = j \/ Compared[i][2] = "DependencyChange"
  BY <1>1, ComparedAre
<1>. QED  BY <1>2, <1>3, <1>4, <1>5, <1>6

(* The entry for a field, and the fields that differ. *)
FieldEntry(to, i) == Change(Compared[i][2], 0, Detail(to, Compared[i][1]))
FieldsChanged(from, to) == {i \in 1 .. 12 : from[Compared[i][1]] # to[Compared[i][1]]}

(* What the comparison says of the fields. *)
LEMMA FieldsAre ==
    ASSUME NEW from, NEW to, NEW T, \A i \in 1 .. 12 : FieldEntry(to, i) \in T
    PROVE  /\ field_changes(from, to) \in Seq(T)
           /\ ToSet(field_changes(from, to)) = {FieldEntry(to, i) : i \in FieldsChanged(from, to)}
           /\ Cardinality(Marked(field_changes(from, to), "DependencyChange"))
                = Cardinality({d \in Dependencies : from[d] # to[d]})
<1>. DEFINE D == FieldsChanged(from, to)
            x == [i \in 1 .. 12 |-> FieldEntry(to, i)]
            ss == [i \in 1 .. 12 |-> IF i \in D THEN <<x[i]>> ELSE <<>>]
            P == {i \in D : x[i].kind = "DependencyChange"}
            Q == {d \in Dependencies : from[d] # to[d]}
<1>1. D \in SUBSET (1 .. 12) /\ 12 \in Nat \ {0}  BY DEF FieldsChanged
<1>2. \A i \in 1 .. 12 : x[i] = FieldEntry(to, i) /\ x[i] \in T  OBVIOUS
<1>3. field_changes(from, to) = FlattenSeq(ss)
  <2>1. DOMAIN Compared = 1 .. 12  BY ComparedAre
  <2>2. field_changes(from, to)
          = FlattenSeq([i \in 1 .. 12 |-> IF from[Compared[i][1]] # to[Compared[i][1]]
                                          THEN <<FieldEntry(to, i)>> ELSE <<>>])
    BY <2>1 DEF field_changes, FieldEntry
  <2>3. ss = [i \in 1 .. 12 |-> IF from[Compared[i][1]] # to[Compared[i][1]]
                                THEN <<FieldEntry(to, i)>> ELSE <<>>]
    BY DEF FieldsChanged
  <2>. QED  BY <2>2, <2>3
<1>. HIDE DEF x, D
<1>4. /\ ss \in Seq(Seq(T)) /\ DOMAIN ss = 1 .. 12
      /\ \A i \in 1 .. 12 : ss[i] = IF i \in D THEN <<x[i]>> ELSE <<>>
  <2>1. \A i \in 1 .. 12 : ss[i] \in Seq(T)  BY <1>2
  <2>2. ss = [i \in 1 .. 12 |-> ss[i]] /\ DOMAIN ss = 1 .. 12
        /\ \A i \in 1 .. 12 : ss[i] = IF i \in D THEN <<x[i]>> ELSE <<>>
    OBVIOUS
  <2>. HIDE DEF ss
  <2>. QED  BY <2>1, <2>2, EachOf
<1>5. Cardinality(Marked(FlattenSeq(ss), "DependencyChange")) = Cardinality(P)
  <2>1. Sparse(T, ss, 12, D, x)  BY <1>1, <1>2 DEF Sparse
  <2>. HIDE DEF ss, P, Q
  <2>2. Cardinality(Marked(FlattenSeq(ss), "DependencyChange"))
          = Cardinality(OfKind(D, x, "DependencyChange"))
    BY <2>1, MarkedInFlattened
  <2>. QED  BY <2>2, Zenon DEF P, OfKind
<1>. HIDE DEF ss
<1>6. FlattenSeq(ss) \in Seq(T) /\ ToSet(FlattenSeq(ss)) = UNION {ToSet(ss[i]) : i \in 1 .. 12}
  BY <1>4, Flattened
<1>7. ToSet(FlattenSeq(ss)) = {FieldEntry(to, i) : i \in D}
  <2>1. ASSUME NEW i \in 1 .. 12 PROVE ToSet(ss[i]) = IF i \in D THEN {x[i]} ELSE {}
    <3>1. ToSet(<<x[i]>>) = {x[i]} /\ ToSet(<<>>) = {}  BY DEF ToSet
    <3>. QED  BY <1>4, <3>1
  <2>2. ASSUME NEW y \in ToSet(FlattenSeq(ss)) PROVE y \in {FieldEntry(to, i) : i \in D}
    <3>1. PICK i \in 1 .. 12 : y \in ToSet(ss[i])  BY <1>6
    <3>2. i \in D /\ y = x[i]  BY <2>1, <3>1
    <3>. QED  BY <1>2, <3>2
  <2>3. ASSUME NEW i \in D PROVE FieldEntry(to, i) \in ToSet(FlattenSeq(ss))
    <3>1. i \in 1 .. 12  BY <1>1
    <3>2. FieldEntry(to, i) \in ToSet(ss[i])  BY <1>2, <2>1, <3>1
    <3>. QED  BY <1>6, <3>1, <3>2
  <2>. QED  BY <2>2, <2>3
<1>8. Cardinality(P) = Cardinality(Q)
  <2>. DEFINE f == [i \in P |-> Compared[i][1]]
  <2>1. \A i \in 1 .. 12 : i \in P <=>
            from[Compared[i][1]] # to[Compared[i][1]] /\ Compared[i][1] \in Dependencies
    <3>1. \A i \in 1 .. 12 : x[i].kind = Compared[i][2]  BY <1>2 DEF FieldEntry, Change
    <3>2. \A i \in 1 .. 12 : i \in D <=> from[Compared[i][1]] # to[Compared[i][1]]
      BY DEF D, FieldsChanged
    <3>. QED  BY <3>1, <3>2, KindsAre
  <2>2. P \in SUBSET (1 .. 12)  BY <1>1
  <2>3. \A i \in P : Compared[i][1] \in Q  BY <2>1, <2>2
  <2>4. \A d \in Q : \E i \in P : Compared[i][1] = d
    <3>. SUFFICES ASSUME NEW d \in Q PROVE \E i \in P : Compared[i][1] = d  OBVIOUS
    <3>1. PICK i \in 1 .. 12 : Compared[i][1] = d  BY KindsAre
    <3>2. i \in P
      <4>. HIDE DEF P
      <4>. QED  BY <2>1, <3>1
    <3>. QED  BY <3>1, <3>2
  <2>5. \A i, j \in P : Compared[i][1] = Compared[j][1] => i = j  BY <2>2, KindsAre
  <2>6. IsFiniteSet(P)
    <3>1. IsFiniteSet(1 .. 12)  BY FS_Interval, 1 \in Int, 12 \in Int
    <3>. HIDE DEF P
    <3>. QED  BY <2>2, <3>1, FS_Subset
  <2>7. f \in Bijection(P, Q)
    <3>. HIDE DEF P, Q
    <3>. QED  BY <2>3, <2>4, <2>5 DEF Bijection, Injection, Surjection, IsInjective
  <2>8. ExistsBijection(P, Q)
    <3>. HIDE DEF P, Q, f
    <3>. QED  BY <2>7 DEF ExistsBijection
  <2>. HIDE DEF P, Q
  <2>. QED  BY <2>6, <2>8, FS_Bijection
<1>. QED  BY <1>3, <1>5, <1>6, <1>7, <1>8 DEF D

(* The places of the entries for segments, and those for dependencies. *)
SegmentPlaces(e) == {k \in DOMAIN e : e[k].index > 0}
DependencyPlaces(e) == {k \in DOMAIN e \ SegmentPlaces(e) : e[k].kind = "DependencyChange"}

(* There is an entry for a segment exactly if the compared forms differ. *)
LEMMA EntriesWhereDifferent ==
    ASSUME NEW n, NEW m, NEW a, NEW b, Sequence(a, n), Sequence(b, m), NEW kind
    PROVE  /\ SegmentEntries(a, b, kind) = {} <=> a = b
           /\ \A x \in SegmentEntries(a, b, kind) : x.index \in Nat /\ x.index > 0
<1>. USE DEF Sequence
<1>1. DOMAIN a = 1 .. n /\ DOMAIN b = 1 .. m  OBVIOUS
<1>2. CASE a = b
  <2>1. Moved(a, b, kind) = {} /\ Inserted(a, b) = {} /\ Removed(a, b) = {}
    BY <1>2 DEF Moved, Inserted, Removed
  <2>. QED  BY <1>2, <2>1 DEF SegmentEntries
<1>3. ASSUME NEW x \in SegmentEntries(a, b, kind) PROVE x.index \in Nat /\ x.index > 0
  <2>1. PICK i \in DOMAIN a \cup DOMAIN b : x.index = i
    <3>1. CASE x \in Moved(a, b, kind)  BY <3>1 DEF Moved, Change
    <3>2. CASE x \in Inserted(a, b)  BY <3>2 DEF Inserted, Change
    <3>3. CASE x \in Removed(a, b)  BY <3>3 DEF Removed, Change
    <3>. QED  BY <3>1, <3>2, <3>3 DEF SegmentEntries
  <2>. QED  BY <1>1, <2>1
<1>4. ASSUME SegmentEntries(a, b, kind) = {} PROVE a = b
  <2>1. Moved(a, b, kind) = {} /\ Inserted(a, b) = {} /\ Removed(a, b) = {}
    BY <1>4 DEF SegmentEntries
  <2>2. DOMAIN a = DOMAIN b
    <3>1. \A i \in DOMAIN b : i \in DOMAIN a  BY <2>1 DEF Inserted
    <3>2. \A i \in DOMAIN a : i \in DOMAIN b  BY <2>1 DEF Removed
    <3>. QED  BY <3>1, <3>2
  <2>3. \A i \in DOMAIN a : a[i] = b[i]  BY <2>1, <2>2 DEF Moved
  <2>4. a = [i \in DOMAIN a |-> a[i]] /\ b = [i \in DOMAIN b |-> b[i]]  BY <1>1
  <2>. QED  BY <2>2, <2>3, <2>4
<1>. QED  BY <1>2, <1>3, <1>4

(* What the entries of a comparison tell of the two revisions; a and b are *)
(* their compared forms.                                                   *)
Accounts(from, to, e, a, b) ==
    /\ Patched(a, {e[k] : k \in SegmentPlaces(e)}) = b
    /\ SegmentPlaces(e) # {} <=> a # b
    /\ Cardinality(DependencyPlaces(e)) = Cardinality({d \in Dependencies : from[d] # to[d]})
    /\ {e[k] : k \in DOMAIN e \ SegmentPlaces(e)}
          = {FieldEntry(to, i) : i \in FieldsChanged(from, to)}

(* It is what the functions of the comparison return. *)
LEMMA ComparisonIs ==
    ASSUME NEW from, StoredList(from), NEW to, StoredList(to),
           NEW width, width = compare_width(from, to),
           NEW e, e = field_changes(from, to) \o segment_changes(from, to)
    PROVE  Accounts(from, to, e, segment_digests(from, width), segment_digests(to, width))
<1>a. PICK a : a = segment_digests(from, width)  OBVIOUS
<1>b. PICK b : b = segment_digests(to, width)  OBVIOUS
<1>. SUFFICES Accounts(from, to, e, a, b)  BY <1>a, <1>b
<1>1. PICK kind : kind = IF order_changed(from, to) THEN "Reorder" ELSE "Replace"  OBVIOUS
<1>2. kind \in {"Reorder", "Replace"}  BY <1>1
<1>. DEFINE E == SegmentEntries(a, b, kind)
            T == {FieldEntry(to, i) : i \in 1 .. 12} \cup E
<1>3. PICK f : f = field_changes(from, to)  OBVIOUS
<1>4. PICK g : g = segment_changes(from, to)  OBVIOUS
<1>5. g \in Seq(E) /\ ToSet(g) = E  BY <1>a, <1>b, <1>1, <1>4, SegmentChangesAre
<1>6. /\ f \in Seq(T) /\ ToSet(f) = {FieldEntry(to, i) : i \in FieldsChanged(from, to)}
      /\ Cardinality(Marked(f, "DependencyChange")) = Cardinality({d \in Dependencies : from[d] # to[d]})
  <2>1. \A i \in 1 .. 12 : FieldEntry(to, i) \in T  OBVIOUS
  <2>. HIDE DEF T
  <2>. QED  BY <1>3, <2>1, FieldsAre
<1>7. PICK n \in Nat : DOMAIN from.segments = 1 .. n  BY StoredIs
<1>8. PICK m \in Nat : DOMAIN to.segments = 1 .. m  BY StoredIs
<1>9. Sequence(a, n) /\ Sequence(b, m)
  <2>1. a = [i \in 1 .. n |-> Canonical(from.segments[i], width)]  BY <1>a, <1>7 DEF segment_digests
  <2>2. b = [i \in 1 .. m |-> Canonical(to.segments[i], width)]  BY <1>b, <1>8 DEF segment_digests
  <2>. QED  BY <2>1, <2>2 DEF Sequence
<1>10. Patched(a, E) = b  BY <1>2, <1>9, PatchIs
<1>11. (E = {} <=> a = b) /\ \A x \in E : x.index \in Nat /\ x.index > 0
  BY <1>9, EntriesWhereDifferent
<1>. HIDE DEF E
<1>12. g \in Seq(T)  BY <1>5
<1>. HIDE DEF T
<1>13. PICK p \in Nat : Len(f) = p /\ DOMAIN f = 1 .. p  BY <1>6
<1>14. PICK q \in Nat : Len(g) = q /\ DOMAIN g = 1 .. q  BY <1>5
<1>15. /\ e = f \o g /\ DOMAIN e = 1 .. p + q
       /\ \A k \in 1 .. p : e[k] = f[k]
       /\ \A k \in 1 .. q : e[p + k] = g[k]
  <2>1. f \in Seq(T) /\ g \in Seq(T) /\ Len(f) = p /\ Len(g) = q /\ e = f \o g
    BY <1>3, <1>4, <1>6, <1>12, <1>13, <1>14
  <2>2. DOMAIN e = 1 .. p + q
    <3>1. f \in Seq(T) /\ g \in Seq(T)  BY <2>1
    <3>2. f \o g \in Seq(T) /\ Len(f \o g) = Len(f) + Len(g)  BY <3>1
    <3>3. e \in Seq(T) /\ Len(e) = p + q  BY <2>1, <3>2, Zenon
    <3>. QED  BY <3>3
  <2>3. \A k \in 1 .. p : (f \o g)[k] = f[k]  BY <2>1
  <2>4. \A k \in 1 .. q : (f \o g)[p + k] = g[k]  BY <2>1
  <2>. QED  BY <2>1, <2>2, <2>3, <2>4
<1>16. \A k \in 1 .. p : e[k].index = 0 /\ f[k] \in ToSet(f)
  <2>1. \A k \in 1 .. p : f[k] \in ToSet(f)  BY <1>13 DEF ToSet
  <2>2. \A x \in ToSet(f) : x.index = 0  BY <1>6 DEF FieldEntry, Change
  <2>. QED  BY <1>15, <2>1, <2>2
<1>17. \A k \in 1 .. q : e[p + k].index > 0 /\ e[p + k] \in E
  <2>1. \A k \in 1 .. q : g[k] \in E  BY <1>5, <1>14
  <2>. QED  BY <1>11, <1>15, <2>1
<1>18. SegmentPlaces(e) = p + 1 .. p + q
  <2>1. ASSUME NEW k \in SegmentPlaces(e) PROVE k \in p + 1 .. p + q
    <3>1. k \in 1 .. p + q /\ e[k].index > 0  BY <1>15 DEF SegmentPlaces
    <3>2. k \notin 1 .. p
      <4>1. ~ (0 > 0)  OBVIOUS
      <4>. QED  BY <1>16, <3>1, <4>1
    <3>. QED  BY <3>1, <3>2
  <2>2. ASSUME NEW k \in p + 1 .. p + q PROVE k \in SegmentPlaces(e)
    <3>1. k - p \in 1 .. q /\ p + (k - p) = k /\ k \in 1 .. p + q  OBVIOUS
    <3>2. e[p + (k - p)].index > 0  BY <1>17, <3>1
    <3>. QED  BY <1>15, <3>1, <3>2 DEF SegmentPlaces
  <2>. QED  BY <2>1, <2>2
<1>19. {e[k] : k \in SegmentPlaces(e)} = E
  <2>1. ASSUME NEW k \in p + 1 .. p + q PROVE e[k] \in E
    <3>1. k - p \in 1 .. q /\ p + (k - p) = k  OBVIOUS
    <3>. QED  BY <1>17, <3>1
  <2>2. ASSUME NEW x \in E PROVE \E k \in p + 1 .. p + q : e[k] = x
    <3>1. PICK k \in 1 .. q : g[k] = x  BY <1>5, <1>14 DEF ToSet
    <3>2. p + k \in p + 1 .. p + q  OBVIOUS
    <3>. QED  BY <1>15, <3>1, <3>2
  <2>. QED  BY <1>18, <2>1, <2>2
<1>20. DOMAIN e \ SegmentPlaces(e) = 1 .. p  BY <1>15, <1>18
<1>21. DependencyPlaces(e) = Marked(f, "DependencyChange")
  BY <1>13, <1>15, <1>20 DEF DependencyPlaces, Marked
<1>22. {e[k] : k \in DOMAIN e \ SegmentPlaces(e)} = ToSet(f)
  <2>1. ToSet(f) = {f[k] : k \in 1 .. p}  BY <1>13 DEF ToSet
  <2>. QED  BY <1>15, <1>20, <2>1
<1>23. SegmentPlaces(e) # {} <=> E # {}  BY <1>19
<1>. QED  BY <1>6, <1>10, <1>11, <1>19, <1>21, <1>22, <1>23 DEF Accounts

(* The compared form and the one of the profile differ together. *)
LEMMA DigestsAlike ==
    ASSUME NEW from, StoredList(from), NEW to, StoredList(to), NEW v \in Nat, NEW w \in Nat,
           \A s \in ToSet(from.segments) \cup ToSet(to.segments) :
               Len(s.payload) <= v /\ Len(s.payload) <= w
    PROVE  segment_digests(from, v) = segment_digests(to, v)
              <=> segment_digests(from, w) = segment_digests(to, w)
<1>1. PICK n \in Nat : DOMAIN from.segments = 1 .. n  BY StoredIs
<1>2. PICK m \in Nat : DOMAIN to.segments = 1 .. m  BY StoredIs
<1>. DEFINE a(x) == segment_digests(from, x)
            b(x) == segment_digests(to, x)
<1>3. \A x : /\ DOMAIN a(x) = 1 .. n /\ a(x) = [i \in 1 .. n |-> a(x)[i]]
             /\ DOMAIN b(x) = 1 .. m /\ b(x) = [i \in 1 .. m |-> b(x)[i]]
             /\ \A i \in 1 .. n : a(x)[i] = Canonical(from.segments[i], x)
             /\ \A i \in 1 .. m : b(x)[i] = Canonical(to.segments[i], x)
  BY <1>1, <1>2 DEF segment_digests
<1>. HIDE DEF a, b
<1>4. \A x : a(x) = b(x) <=> /\ 1 .. n = 1 .. m
                            /\ \A i \in 1 .. n : Canonical(from.segments[i], x)
                                                   = Canonical(to.segments[i], x)
  <2>. SUFFICES ASSUME NEW x
                PROVE  a(x) = b(x) <=> /\ 1 .. n = 1 .. m
                                       /\ \A i \in 1 .. n : Canonical(from.segments[i], x)
                                                              = Canonical(to.segments[i], x)
    OBVIOUS
  <2>1. ASSUME a(x) = b(x)
        PROVE  /\ 1 .. n = 1 .. m
               /\ \A i \in 1 .. n : Canonical(from.segments[i], x) = Canonical(to.segments[i], x)
    <3>1. 1 .. n = 1 .. m  BY <1>3, <2>1
    <3>. QED  BY <1>3, <2>1, <3>1
  <2>2. ASSUME 1 .. n = 1 .. m,
               \A i \in 1 .. n : Canonical(from.segments[i], x) = Canonical(to.segments[i], x)
        PROVE  a(x) = b(x)
    <3>1. \A i \in 1 .. n : a(x)[i] = b(x)[i]  BY <1>3, <2>2
    <3>2. a(x) = [i \in 1 .. n |-> a(x)[i]] /\ b(x) = [i \in 1 .. n |-> b(x)[i]]  BY <1>3, <2>2
    <3>. QED  BY <3>1, <3>2
  <2>. QED  BY <2>1, <2>2
<1>5. ASSUME 1 .. n = 1 .. m, NEW i \in 1 .. n
      PROVE  Canonical(from.segments[i], v) = Canonical(to.segments[i], v)
                <=> Canonical(from.segments[i], w) = Canonical(to.segments[i], w)
  <2>1. PICK s : s = from.segments[i]  OBVIOUS
  <2>2. PICK t : t = to.segments[i]  OBVIOUS
  <2>3. s \in SegmentType /\ s \in ToSet(from.segments)
    BY <1>1, <2>1, StoredIs DEF ToSet
  <2>4. t \in SegmentType /\ t \in ToSet(to.segments)
    BY <1>2, <1>5, <2>2, StoredIs DEF ToSet
  <2>. QED  BY <2>1, <2>2, <2>3, <2>4, CanonicalAlike
<1>6. a(v) = b(v) <=> a(w) = b(w)  BY <1>4, <1>5
<1>. QED  BY <1>6 DEF a, b

(* A comparison that is not marked as truncated has all its entries. *)
LEMMA CompleteComparison ==
    ASSUME AnswerInv, Answered("diff"), ~ answer.truncated, SameLineage(question)
    PROVE  /\ StoredList(question.from) /\ StoredList(question.to)
           /\ answer.entries = field_changes(question.from, question.to)
                                   \o segment_changes(question.from, question.to)
<1>. DEFINE q == question
            es == field_changes(q.from, q.to) \o segment_changes(q.from, q.to)
<1>1. q \in Questions /\ q.topic = "diff" /\ answer = diff(q)  BY DEF AnswerInv, Answered
<1>2. /\ q.limit \in Nat \ {0} /\ StoredList(q.from) /\ StoredList(q.to)
      /\ q.from # None /\ q.to # None /\ q.from.id = q.to.id
  BY <1>1, ExplanationAssumption DEF SameLineage
<1>3. answer = Present(q.limit, es)  BY <1>1, <1>2 DEF diff, Changes
<1>4. \E T : es \in Seq(T)
  <2>1. PICK from : from = q.from  OBVIOUS
  <2>2. PICK to : to = q.to  OBVIOUS
  <2>3. PICK width : width = compare_width(from, to)  OBVIOUS
  <2>4. PICK a : a = segment_digests(from, width)  OBVIOUS
  <2>5. PICK b : b = segment_digests(to, width)  OBVIOUS
  <2>6. PICK kind : kind = IF order_changed(from, to) THEN "Reorder" ELSE "Replace"  OBVIOUS
  <2>. DEFINE E == SegmentEntries(a, b, kind)
              F == {FieldEntry(to, i) : i \in 1 .. 12}
              T == F \cup E
  <2>7. segment_changes(from, to) \in Seq(E)
    BY <1>2, <2>1, <2>2, <2>3, <2>4, <2>5, <2>6, SegmentChangesAre
  <2>8. \A i \in 1 .. 12 : FieldEntry(to, i) \in T  OBVIOUS
  <2>. HIDE DEF E, F
  <2>9. segment_changes(from, to) \in Seq(T)  BY <2>7
  <2>. HIDE DEF T
  <2>10. field_changes(from, to) \in Seq(T)  BY <2>8, FieldsAre
  <2>11. field_changes(from, to) \o segment_changes(from, to) \in Seq(T)  BY <2>9, <2>10
  <2>. QED  BY <2>1, <2>2, <2>11
<1>5. answer.entries = es
  <2>1. PICK T : es \in Seq(T)  BY <1>4
  <2>. HIDE DEF es, q
  <2>. QED  BY <1>2, <1>3, <2>1, Shown
<1>. QED  BY <1>2, <1>5

(* What a complete comparison says can be relied upon. *)
LEMMA PatchFollows == AnswerInv => DiffIsPatch
<1>. SUFFICES ASSUME AnswerInv, Answered("diff"), ~ answer.truncated, SameLineage(question)
              PROVE  DiffIsPatch
  BY DEF DiffIsPatch
<1>1. PICK from : from = question.from  OBVIOUS
<1>2. PICK to : to = question.to  OBVIOUS
<1>3. PICK e : e = answer.entries  OBVIOUS
<1>4. StoredList(from) /\ StoredList(to) /\ e = field_changes(from, to) \o segment_changes(from, to)
  BY <1>1, <1>2, <1>3, CompleteComparison
<1>5. PICK width : width = compare_width(from, to)  OBVIOUS
<1>6. PICK a : a = segment_digests(from, width)  OBVIOUS
<1>7. PICK b : b = segment_digests(to, width)  OBVIOUS
<1>8. /\ Patched(a, {e[k] : k \in SegmentPlaces(e)}) = b
      /\ Cardinality(DependencyPlaces(e)) = Cardinality({d \in Dependencies : from[d] # to[d]})
      /\ {e[k] : k \in DOMAIN e \ SegmentPlaces(e)}
            = {FieldEntry(to, i) : i \in FieldsChanged(from, to)}
  <2>1. Accounts(from, to, e, a, b)  BY <1>4, <1>5, <1>6, <1>7, ComparisonIs
  <2>. QED  BY <2>1 DEF Accounts
<1>9. ASSUME NEW i \in DOMAIN Compared, Compared[i][2] # "DependencyChange"
      PROVE  LET of == {k \in DOMAIN e \ SegmentPlaces(e) : e[k].kind = Compared[i][2]}
             IN  /\ from[Compared[i][1]] # to[Compared[i][1]] <=> of # {}
                 /\ \A k \in of : e[k].detail = Detail(to, Compared[i][1])
  <2>. DEFINE of == {k \in DOMAIN e \ SegmentPlaces(e) : e[k].kind = Compared[i][2]}
  <2>0. i \in 1 .. 12  BY ComparedAre
  <2>1. ASSUME from[Compared[i][1]] # to[Compared[i][1]]
        PROVE  of # {}
    <3>1. FieldEntry(to, i) \in {e[k] : k \in DOMAIN e \ SegmentPlaces(e)}
      BY <1>8, <2>0, <2>1 DEF FieldsChanged
    <3>2. PICK k \in DOMAIN e \ SegmentPlaces(e) : e[k] = FieldEntry(to, i)  BY <3>1
    <3>3. FieldEntry(to, i).kind = Compared[i][2]  BY DEF FieldEntry, Change
    <3>. QED  BY <3>2, <3>3
  <2>2. ASSUME NEW k \in of
        PROVE  /\ from[Compared[i][1]] # to[Compared[i][1]]
               /\ e[k].detail = Detail(to, Compared[i][1])
    <3>1. PICK j \in FieldsChanged(from, to) : e[k] = FieldEntry(to, j)  BY <1>8
    <3>2. j \in 1 .. 12 /\ from[Compared[j][1]] # to[Compared[j][1]]  BY DEF FieldsChanged
    <3>3. Compared[j][2] = Compared[i][2]
      <4>1. FieldEntry(to, j).kind = Compared[j][2]  BY DEF FieldEntry, Change
      <4>. QED  BY <2>2, <3>1, <4>1
    <3>4. j = i  BY <1>9, <2>0, <3>2, <3>3, KindsAre
    <3>5. FieldEntry(to, i).detail = Detail(to, Compared[i][1])  BY DEF FieldEntry, Change
    <3>. QED  BY <3>1, <3>2, <3>4, <3>5
  <2>. HIDE DEF of
  <2>3. /\ from[Compared[i][1]] # to[Compared[i][1]] <=> of # {}
        /\ \A k \in of : e[k].detail = Detail(to, Compared[i][1])
    BY <2>1, <2>2
  <2>. QED  BY <2>3 DEF of
<1>10. DependencyPlaces(e) = {k \in DOMAIN e \ SegmentPlaces(e) : e[k].kind = "DependencyChange"}
  BY DEF DependencyPlaces
<1>. DEFINE segs == {k \in DOMAIN e : e[k].index > 0}
<1>11. SegmentPlaces(e) = segs  BY DEF SegmentPlaces
<1>12. /\ Patched(a, {e[k] : k \in segs}) = b
       /\ \A i \in DOMAIN Compared :
             Compared[i][2] # "DependencyChange" =>
                 LET of == {k \in DOMAIN e \ segs : e[k].kind = Compared[i][2]}
                 IN  /\ from[Compared[i][1]] # to[Compared[i][1]] <=> of # {}
                     /\ \A k \in of : e[k].detail = Detail(to, Compared[i][1])
       /\ Cardinality({k \in DOMAIN e \ segs : e[k].kind = "DependencyChange"})
             = Cardinality({d \in Dependencies : from[d] # to[d]})
  <2>. HIDE DEF segs
  <2>1. Patched(a, {e[k] : k \in segs}) = b  BY <1>8, <1>11, Zenon
  <2>2. Cardinality({k \in DOMAIN e \ segs : e[k].kind = "DependencyChange"})
             = Cardinality({d \in Dependencies : from[d] # to[d]})
    BY <1>8, <1>10, <1>11, Zenon
  <2>. QED  BY <1>9, <1>11, <2>1, <2>2, Zenon
<1>. QED  BY <1>1, <1>2, <1>3, <1>5, <1>6, <1>7, <1>12, ZenonT(60) DEF DiffIsPatch

(* And it sees what the content digest sees. *)
LEMMA DigestFollows == AnswerInv => DiffSeesWhatIsDigested
<1>. DEFINE q == question
            width == ProfileOf(q.to).payload_width
            all == ToSet(q.from.segments) \cup ToSet(q.to.segments)
<1>. SUFFICES ASSUME AnswerInv, Answered("diff"), ~ answer.truncated, SameLineage(question),
                     ProfileOf(q.to) # None, \A s \in all : Len(s.payload) <= width
              PROVE  (\E k \in DOMAIN answer.entries : answer.entries[k].index > 0) <=>
                        segment_digests(q.from, width) # segment_digests(q.to, width)
  BY DEF DiffSeesWhatIsDigested
<1>1. PICK from : from = q.from  OBVIOUS
<1>2. PICK to : to = q.to  OBVIOUS
<1>3. PICK e : e = answer.entries  OBVIOUS
<1>4. StoredList(from) /\ StoredList(to) /\ e = field_changes(from, to) \o segment_changes(from, to)
  BY <1>1, <1>2, <1>3, CompleteComparison
<1>5. PICK v : v = compare_width(from, to)  OBVIOUS
<1>6. PICK w : w = width  OBVIOUS
<1>7. PICK a : a = segment_digests(from, v)  OBVIOUS
<1>8. PICK b : b = segment_digests(to, v)  OBVIOUS
<1>9. SegmentPlaces(e) # {} <=> a # b
  <2>1. Accounts(from, to, e, a, b)  BY <1>4, <1>5, <1>7, <1>8, ComparisonIs
  <2>. QED  BY <2>1 DEF Accounts
<1>10. v \in Nat /\ \A s \in all : Len(s.payload) <= v  BY <1>1, <1>2, <1>4, <1>5, CompareWidthIs
<1>11. w \in Nat
  <2>1. ProfileOf(q.to) \in Profiles  BY FindIs DEF ProfileOf
  <2>. QED  BY <1>6, <2>1, ProfileIs
<1>12. \A s \in all : Len(s.payload) <= w  BY <1>6
<1>13. segment_digests(from, v) = segment_digests(to, v)
         <=> segment_digests(from, w) = segment_digests(to, w)
  BY <1>1, <1>2, <1>4, <1>10, <1>11, <1>12, DigestsAlike
<1>14. (\E k \in DOMAIN e : e[k].index > 0) <=> SegmentPlaces(e) # {}  BY DEF SegmentPlaces
<1>. QED  BY <1>1, <1>2, <1>3, <1>6, <1>7, <1>8, <1>9, <1>13, <1>14

(* A comparison of two snapshots of a list that is marked as complete is   *)
(* one: the segments of the later can be rebuilt from the earlier and the  *)
(* entries, and a field has an entry, with the identifier or epoch it      *)
(* changed to, exactly if any part of it changed.                          *)
THEOREM ComparisonsArePatches == MessageSpec => []DiffIsPatch
<1>1. AnswerInv => DiffIsPatch  BY PatchFollows
<1>. QED  BY <1>1, AnswersAre, PTL DEF MessageSpec

(* A comparison has an entry for a segment exactly if the content digest   *)
(* of the two snapshots differs, although it pads the payloads to another  *)
(* width.                                                                  *)
THEOREM ComparisonsSeeTheDigest == MessageSpec => []DiffSeesWhatIsDigested
<1>1. AnswerInv => DiffSeesWhatIsDigested  BY DigestFollows
<1>. QED  BY <1>1, AnswersAre, PTL DEF MessageSpec
--------------------------------------------------------------------------------
(* Explanations of capability and topology. *)

(* The entries, and those that name a defect. *)
FabricCodes ==
    {"Ok", "CapabilityMissing", "CapabilityUnsupported", "CapabilityGenerationMismatch",
     "TopologyGenerationMismatch", "TopologyAdjacencyUnknown", "TopologyAdjacencyStale"}
EntryType == [code : FabricCodes, index : Nat, detail : Nat]
Defect == {e \in EntryType : e.code # "Ok"}

(* The names of the reasons for a capability or an adjacency. *)
LEMMA FabricNames ==
    /\ {"CapabilityMissing", "CapabilityUnsupported", "CapabilityGenerationMismatch"} \subseteq Names(8)
    /\ {"TopologyGenerationMismatch", "TopologyAdjacencyUnknown", "TopologyAdjacencyStale"}
          \subseteq Names(9)
<1>0. \A c \in 1 .. LastCode - 1 : kCodes[c][1] \in Names(kCodes[c][2])  BY DEF Names
<1>1. {"CapabilityMissing", "CapabilityUnsupported", "CapabilityGenerationMismatch"} \subseteq Names(8)
  BY <1>0 DEF kCodes, LastCode
<1>2. {"TopologyGenerationMismatch", "TopologyAdjacencyUnknown", "TopologyAdjacencyStale"}
        \subseteq Names(9)
  BY <1>0 DEF kCodes, LastCode
<1>. QED  BY <1>1, <1>2

(* Reasons of a phase that carry an index. *)
Blame(ph, index) == {r \in Found({ph}) : r.index = index}

(* A reason carries the index it is given. *)
LEMMA ReasonHere ==
    ASSUME NEW ph, NEW name \in Names(ph), NEW index \in Nat, NEW detail \in Nat
    PROVE  /\ Reason(name, index, detail) \in Blame(ph, index)
           /\ <<Reason(name, index, detail)>> \in Seq(Blame(ph, index))
           /\ <<Reason(name, index, detail)>> # <<>>
<1>1. Reason(name, index, detail) \in Found({ph})  BY ReasonIs
<1>2. Reason(name, index, detail).index = index  BY DEF Reason
<1>3. Reason(name, index, detail) \in Blame(ph, index)  BY <1>1, <1>2 DEF Blame
<1>4. PICK r : r = Reason(name, index, detail)  OBVIOUS
<1>5. <<r>> \in Seq(Blame(ph, index)) /\ <<r>> # <<>>  BY <1>3, <1>4
<1>. QED  BY <1>3, <1>4, <1>5

(* So does what one condition reports. *)
LEMMA IfHere ==
    ASSUME NEW ph, NEW name \in Names(ph), NEW index \in Nat, NEW detail \in Nat,
           NEW c \in BOOLEAN
    PROVE  /\ If(c, name, index, detail) \in Seq(Blame(ph, index))
           /\ If(c, name, index, detail) = <<>> <=> ~ c
<1>1. CASE c  BY <1>1, ReasonHere DEF If
<1>2. CASE ~ c  BY <1>2 DEF If
<1>. QED  BY <1>1, <1>2

(* An entry that names a defect. *)
LEMMA EntryIs ==
    ASSUME NEW code \in FabricCodes, NEW index \in Nat, NEW detail \in Nat
    PROVE  /\ Entry(code, index, detail) \in EntryType
           /\ Entry(code, index, detail).code = code
           /\ code # "Ok" => Entry(code, index, detail) \in Defect
                             /\ <<Entry(code, index, detail)>> \in Seq(Defect)
           /\ <<Entry(code, index, detail)>> # <<>>
<1>1. Entry(code, index, detail) \in EntryType /\ Entry(code, index, detail).code = code
  BY DEF Entry, EntryType
<1>2. PICK e : e = Entry(code, index, detail)  OBVIOUS
<1>3. code # "Ok" => e \in Defect  BY <1>1, <1>2 DEF Defect
<1>. QED  BY <1>1, <1>2, <1>3

(* The explanation names a cause exactly if validation does. *)
LEMMA CapabilityKeyIs ==
    ASSUME NEW k \in Nat, NEW fabric, fabric.capabilities[k] \in Nat
    PROVE  /\ capability_key(k, fabric) \in Seq(Blame(8, 0))
           /\ CapabilityEntry(k, fabric) \in Seq(Defect)
           /\ CapabilityEntry(k, fabric) = <<>> <=> capability_key(k, fabric) = <<>>
<1>. DEFINE T == Blame(8, 0)
            g == fabric.capabilities[k]
            a == If(k \in fabric.unsupported, "CapabilityUnsupported", 0, k)
            b == If(g # fabric.capability, "CapabilityGenerationMismatch", 0, g)
<1>0. /\ "CapabilityMissing" \in Names(8) /\ "CapabilityUnsupported" \in Names(8)
      /\ "CapabilityGenerationMismatch" \in Names(8) /\ 0 \in Nat /\ g \in Nat
  BY FabricNames
<1>1. CASE g = 0
  <2>1. capability_key(k, fabric) = <<Reason("CapabilityMissing", 0, k)>>
        /\ CapabilityEntry(k, fabric) = <<Entry("CapabilityMissing", 0, k)>>
    BY <1>1 DEF capability_key, CapabilityEntry
  <2>2. <<Reason("CapabilityMissing", 0, k)>> \in Seq(T) /\ <<Reason("CapabilityMissing", 0, k)>> # <<>>
    BY <1>0, ReasonHere
  <2>3. <<Entry("CapabilityMissing", 0, k)>> \in Seq(Defect) /\ <<Entry("CapabilityMissing", 0, k)>> # <<>>
    BY <1>0, EntryIs DEF FabricCodes
  <2>. QED  BY <2>1, <2>2, <2>3
<1>2. CASE g # 0
  <2>1. a \in Seq(T) /\ (a = <<>> <=> ~ (k \in fabric.unsupported))
    <3>1. CASE k \in fabric.unsupported  BY <1>0, <3>1, ReasonHere DEF If
    <3>2. CASE ~ (k \in fabric.unsupported)  BY <3>2 DEF If
    <3>. QED  BY <3>1, <3>2
  <2>2. b \in Seq(T) /\ (b = <<>> <=> ~ (g # fabric.capability))
    <3>1. (g # fabric.capability) \in BOOLEAN  OBVIOUS
    <3>. QED  BY <1>0, <3>1, IfHere, ZenonT(60)
  <2>3. capability_key(k, fabric) = a \o b  BY <1>2 DEF capability_key
  <2>. HIDE DEF a, b, T
  <2>4. a \o b \in Seq(T) /\ (a \o b = <<>> <=> a = <<>> /\ b = <<>>)  BY <2>1, <2>2, Concatenation
  <2>5. CapabilityEntry(k, fabric)
          = IF k \in fabric.unsupported THEN <<Entry("CapabilityUnsupported", 0, k)>>
            ELSE IF g # fabric.capability THEN <<Entry("CapabilityGenerationMismatch", 0, g)>>
            ELSE <<>>
    BY <1>2 DEF CapabilityEntry
  <2>6. /\ <<Entry("CapabilityUnsupported", 0, k)>> \in Seq(Defect)
        /\ <<Entry("CapabilityUnsupported", 0, k)>> # <<>>
    BY <1>0, EntryIs DEF FabricCodes
  <2>7. /\ <<Entry("CapabilityGenerationMismatch", 0, g)>> \in Seq(Defect)
        /\ <<Entry("CapabilityGenerationMismatch", 0, g)>> # <<>>
    BY <1>0, EntryIs DEF FabricCodes
  <2>8. <<>> \in Seq(Defect)  OBVIOUS
  <2>. QED  BY <2>1, <2>2, <2>3, <2>4, <2>5, <2>6, <2>7, <2>8, Zenon DEF T
<1>. QED  BY <1>1, <1>2

(* Of a profile the explanation names a defect exactly if the check on     *)
(* capabilities does.                                                      *)
LEMMA CapabilitiesAre ==
    ASSUME NEW p \in Profiles, NEW fabric, fabric.capability \in Nat,
           \A k \in ToSet(p.capabilities) : fabric.capabilities[k] \in Nat,
           NEW es, es = FlattenSeq([i \in DOMAIN p.capabilities |->
                                       CapabilityEntry(p.capabilities[i], fabric)])
    PROVE  /\ check_capability(p, 0, fabric) \in Seq(Blame(8, 0))
           /\ es \in Seq(Defect)
           /\ es = <<>> <=> check_capability(p, 0, fabric) = <<>>
<1>. DEFINE T == Blame(8, 0)
            keys == p.capabilities
            kk == [i \in DOMAIN keys |-> capability_key(keys[i], fabric)]
            ee == [i \in DOMAIN keys |-> CapabilityEntry(keys[i], fabric)]
<1>1. keys \in Seq(Nat)  BY ValidationAssumption DEF ProfileType
<1>2. PICK n \in Nat : Len(keys) = n /\ DOMAIN keys = 1 .. n  BY <1>1
<1>3. \A i \in 1 .. n : keys[i] \in Nat /\ fabric.capabilities[keys[i]] \in Nat
  <2>1. \A i \in 1 .. n : keys[i] \in ToSet(keys)  BY <1>2 DEF ToSet
  <2>. QED  BY <1>1, <1>2, <2>1
<1>. HIDE DEF keys
<1>4. /\ kk = [i \in 1 .. n |-> kk[i]] /\ \A i \in 1 .. n : kk[i] = capability_key(keys[i], fabric)
      /\ ee = [i \in 1 .. n |-> ee[i]] /\ \A i \in 1 .. n : ee[i] = CapabilityEntry(keys[i], fabric)
  BY <1>2
<1>5. \A i \in 1 .. n : /\ kk[i] \in Seq(T) /\ ee[i] \in Seq(Defect)
                        /\ ee[i] = <<>> <=> kk[i] = <<>>
  <2>. HIDE DEF T, kk, ee
  <2>. QED  BY <1>3, <1>4, CapabilityKeyIs DEF T
<1>6. check_capability(p, 0, fabric) = FlattenSeq(kk)
  <2>1. If(0 \notin {0, fabric.capability}, "CapabilityGenerationMismatch", 0, fabric.capability) = <<>>
    BY DEF If
  <2>2. check_capability(p, 0, fabric) = <<>> \o FlattenSeq(kk)
    BY <2>1 DEF check_capability, keys
  <2>3. FlattenSeq(kk) \in Seq(T)
    <3>. HIDE DEF kk, T
    <3>1. kk = [i \in 1 .. n |-> kk[i]] /\ \A i \in 1 .. n : kk[i] \in Seq(T)  BY <1>4, <1>5
    <3>. QED  BY <3>1, Everywhere
  <2>. HIDE DEF kk, T
  <2>. QED  BY <2>2, <2>3
<1>7. es = FlattenSeq(ee)  BY DEF keys
<1>. HIDE DEF kk, ee, T
<1>8. FlattenSeq(kk) \in Seq(T) /\ (FlattenSeq(kk) = <<>> <=> \A i \in 1 .. n : kk[i] = <<>>)
  <2>1. kk = [i \in 1 .. n |-> kk[i]] /\ \A i \in 1 .. n : kk[i] \in Seq(T)  BY <1>4, <1>5
  <2>. QED  BY <2>1, Everywhere
<1>9. FlattenSeq(ee) \in Seq(Defect) /\ (FlattenSeq(ee) = <<>> <=> \A i \in 1 .. n : ee[i] = <<>>)
  <2>1. ee = [i \in 1 .. n |-> ee[i]] /\ \A i \in 1 .. n : ee[i] \in Seq(Defect)  BY <1>4, <1>5
  <2>. QED  BY <2>1, Everywhere
<1>. QED  BY <1>5, <1>6, <1>7, <1>8, <1>9 DEF T

(* Some entry names a defect. *)
NamesDefect(es) == \E e \in ToSet(es) : e.code # "Ok"

(* The entry for an adjacency names a defect exactly if validation does. *)
LEMMA TopologySegmentIs ==
    ASSUME NEW s \in SegmentType, NEW index \in Nat, NEW fabric,
           s.kind = "Adjacency" => fabric.adjacencies[s.ref] \in Nat
    PROVE  /\ topology_segment(s, index, fabric) \in Seq(Blame(9, index))
           /\ topology_segment(s, index, fabric) = <<>>
                <=> (s.kind = "Adjacency" => fabric.adjacencies[s.ref] \in {s.ref} \ {0})
           /\ AdjacencyEntry(s, index, fabric) \in Seq(EntryType)
           /\ NamesDefect(AdjacencyEntry(s, index, fabric))
                <=> topology_segment(s, index, fabric) # <<>>
<1>. DEFINE T == Blame(9, index)
            g == fabric.adjacencies[s.ref]
            t == topology_segment(s, index, fabric)
            e == AdjacencyEntry(s, index, fabric)
<1>0. /\ "TopologyAdjacencyUnknown" \in Names(9) /\ "TopologyAdjacencyStale" \in Names(9)
      /\ s.ref \in Nat
  BY FabricNames, SegmentIs
<1>1. ASSUME NEW x \in EntryType
      PROVE  <<x>> \in Seq(EntryType) /\ (NamesDefect(<<x>>) <=> x.code # "Ok")
  <2>1. ToSet(<<x>>) = {x}  BY DEF ToSet
  <2>. QED  BY <2>1 DEF NamesDefect
<1>2. CASE s.kind # "Adjacency"
  <2>1. t = <<>> /\ e = <<>>  BY <1>2 DEF topology_segment, AdjacencyEntry
  <2>2. ToSet(<<>>) = {}  BY DEF ToSet
  <2>3. <<>> \in Seq(T) /\ <<>> \in Seq(EntryType) /\ ~ NamesDefect(<<>>)  BY <2>2 DEF NamesDefect
  <2>. HIDE DEF t, e, T
  <2>. QED  BY <1>2, <2>1, <2>3 DEF t, e, T
<1>3. CASE s.kind = "Adjacency" /\ g = 0
  <2>. DEFINE r == Reason("TopologyAdjacencyUnknown", index, s.ref)
              x == Entry("TopologyAdjacencyUnknown", index, s.ref)
  <2>1. t = <<r>> /\ e = <<x>>  BY <1>3 DEF topology_segment, AdjacencyEntry
  <2>2. <<r>> \in Seq(T) /\ <<r>> # <<>>  BY <1>0, ReasonHere
  <2>3. x \in EntryType /\ x.code # "Ok"  BY <1>0, EntryIs DEF FabricCodes
  <2>. HIDE DEF r, x, t, e, T, g
  <2>4. <<x>> \in Seq(EntryType) /\ NamesDefect(<<x>>)  BY <1>1, <2>3
  <2>5. ~ (g \in {s.ref} \ {0})  BY <1>3
  <2>. QED  BY <1>3, <2>1, <2>2, <2>4, <2>5 DEF t, e, T, g
<1>4. CASE s.kind = "Adjacency" /\ g # 0 /\ g # s.ref
  <2>. DEFINE r == Reason("TopologyAdjacencyStale", index, g)
              x == Entry("TopologyAdjacencyStale", index, g)
  <2>1. t = <<r>> /\ e = <<x>>  BY <1>4 DEF topology_segment, AdjacencyEntry, If
  <2>2. g \in Nat  BY <1>4
  <2>3. <<r>> \in Seq(T) /\ <<r>> # <<>>  BY <1>0, <2>2, ReasonHere
  <2>4. x \in EntryType /\ x.code # "Ok"  BY <2>2, EntryIs DEF FabricCodes
  <2>. HIDE DEF r, x, t, e, T, g
  <2>5. <<x>> \in Seq(EntryType) /\ NamesDefect(<<x>>)  BY <1>1, <2>4
  <2>6. ~ (g \in {s.ref} \ {0})  BY <1>4
  <2>. QED  BY <1>4, <2>1, <2>3, <2>5, <2>6 DEF t, e, T, g
<1>5. CASE s.kind = "Adjacency" /\ g # 0 /\ g = s.ref
  <2>. DEFINE x == Entry("Ok", index, g)
  <2>1. t = <<>> /\ e = <<x>>  BY <1>5 DEF topology_segment, AdjacencyEntry, If
  <2>2. g \in Nat  BY <1>5
  <2>3. x \in EntryType /\ x.code = "Ok"  BY <2>2, EntryIs DEF FabricCodes
  <2>. HIDE DEF x, t, e, T, g
  <2>4. <<x>> \in Seq(EntryType) /\ ~ NamesDefect(<<x>>)  BY <1>1, <2>3
  <2>5. g \in {s.ref} \ {0} /\ <<>> \in Seq(T)  BY <1>5
  <2>. QED  BY <1>5, <2>1, <2>4, <2>5 DEF t, e, T, g
<1>. QED  BY <1>2, <1>3, <1>4, <1>5

(* What the check on topology and the explanation make of the segments. *)
TopologyReasons(l, fabric) ==
    [i \in DOMAIN l.segments |-> topology_segment(l.segments[i], i - 1, fabric)]
AdjacencyEntries(l, fabric) ==
    [i \in DOMAIN l.segments |-> AdjacencyEntry(l.segments[i], i - 1, fabric)]

(* They name a defect at the same segments. *)
LEMMA TopologySegmentsAre ==
    ASSUME NEW l, StoredList(l), NEW fabric, Describes(fabric, l),
           NEW n \in Nat, DOMAIN l.segments = 1 .. n,
           NEW tt, tt = TopologyReasons(l, fabric), NEW ee, ee = AdjacencyEntries(l, fabric)
    PROVE  /\ tt = [i \in 1 .. n |-> tt[i]] /\ ee = [i \in 1 .. n |-> ee[i]]
           /\ \A i \in 1 .. n :
                 /\ tt[i] = topology_segment(l.segments[i], i - 1, fabric)
                 /\ tt[i] \in Seq(Blame(9, i - 1)) /\ tt[i] \in Seq(Found({9}))
                 /\ tt[i] = <<>> <=> (l.segments[i].kind = "Adjacency" =>
                       fabric.adjacencies[l.segments[i].ref] \in {l.segments[i].ref} \ {0})
                 /\ ee[i] \in Seq(EntryType)
                 /\ NamesDefect(ee[i]) <=> tt[i] # <<>>
<1>1. /\ tt = [i \in 1 .. n |-> topology_segment(l.segments[i], i - 1, fabric)]
      /\ ee = [i \in 1 .. n |-> AdjacencyEntry(l.segments[i], i - 1, fabric)]
  BY DEF TopologyReasons, AdjacencyEntries
<1>2. ASSUME NEW i \in 1 .. n
      PROVE  /\ tt[i] = topology_segment(l.segments[i], i - 1, fabric)
             /\ tt[i] \in Seq(Blame(9, i - 1)) /\ tt[i] \in Seq(Found({9}))
             /\ tt[i] = <<>> <=> (l.segments[i].kind = "Adjacency" =>
                   fabric.adjacencies[l.segments[i].ref] \in {l.segments[i].ref} \ {0})
             /\ ee[i] \in Seq(EntryType)
             /\ NamesDefect(ee[i]) <=> tt[i] # <<>>
  <2>1. PICK s : s = l.segments[i]  OBVIOUS
  <2>2. PICK x : x = i - 1  OBVIOUS
  <2>3. s \in SegmentType /\ s \in ToSet(l.segments) /\ x \in Nat
    BY <2>1, <2>2, StoredIs DEF ToSet
  <2>4. s.kind = "Adjacency" => fabric.adjacencies[s.ref] \in Nat  BY <2>3 DEF Describes
  <2>5. tt[i] = topology_segment(s, x, fabric) /\ ee[i] = AdjacencyEntry(s, x, fabric)
    BY <1>1, <2>1, <2>2
  <2>6. /\ tt[i] \in Seq(Blame(9, x))
        /\ tt[i] = <<>> <=> (s.kind = "Adjacency" => fabric.adjacencies[s.ref] \in {s.ref} \ {0})
        /\ ee[i] \in Seq(EntryType)
        /\ NamesDefect(ee[i]) <=> tt[i] # <<>>
    BY <2>3, <2>4, <2>5, TopologySegmentIs
  <2>7. tt[i] \in Seq(Found({9}))
    <3>1. Blame(9, x) \subseteq Found({9})  BY DEF Blame
    <3>. QED  BY <2>6, <3>1
  <2>. QED  BY <2>1, <2>2, <2>5, <2>6, <2>7, Zenon
<1>3. tt = [i \in 1 .. n |-> tt[i]] /\ ee = [i \in 1 .. n |-> ee[i]]  BY <1>1
<1>. QED  BY <1>2, <1>3

(* The check on the topology generation of a list. *)
GenerationReason(l, fabric) ==
    If(l.topology \notin {0, fabric.topology}, "TopologyGenerationMismatch", 0, fabric.topology)

(* Of a list they name one exactly if the other does. *)
LEMMA TopologyIs ==
    ASSUME NEW l, StoredList(l), NEW fabric, Describes(fabric, l),
           NEW a, a = GenerationReason(l, fabric),
           NEW b, b = FlattenSeq(TopologyReasons(l, fabric)),
           NEW at, at = FlattenSeq(AdjacencyEntries(l, fabric))
    PROVE  /\ check_topology(l.segments, l.topology, fabric) = a \o b
           /\ a \in Seq(Blame(9, 0)) /\ b \in Seq(Found({9})) /\ at \in Seq(EntryType)
           /\ a = <<>> <=> l.topology \in {0, fabric.topology}
           /\ NamesDefect(at) <=> b # <<>>
<1>. DEFINE T == Found({9})
<1>1. PICK n \in Nat : Len(l.segments) = n /\ DOMAIN l.segments = 1 .. n  BY StoredIs
<1>2. PICK tt : tt = TopologyReasons(l, fabric)  OBVIOUS
<1>3. PICK ee : ee = AdjacencyEntries(l, fabric)  OBVIOUS
<1>4. /\ tt = [i \in 1 .. n |-> tt[i]] /\ ee = [i \in 1 .. n |-> ee[i]]
      /\ \A i \in 1 .. n : /\ tt[i] \in Seq(T) /\ ee[i] \in Seq(EntryType)
                           /\ NamesDefect(ee[i]) <=> tt[i] # <<>>
  BY <1>1, <1>2, <1>3, TopologySegmentsAre
<1>. HIDE DEF T
<1>5. b \in Seq(T) /\ (b = <<>> <=> \A i \in 1 .. n : tt[i] = <<>>)
  <2>1. tt = [i \in 1 .. n |-> tt[i]] /\ \A i \in 1 .. n : tt[i] \in Seq(T)  BY <1>4
  <2>2. FlattenSeq(tt) \in Seq(T) /\ (FlattenSeq(tt) = <<>> <=> \A i \in 1 .. n : tt[i] = <<>>)
    BY <2>1, Everywhere
  <2>. QED  BY <1>2, <2>2
<1>6. at \in Seq(EntryType) /\ ToSet(at) = UNION {ToSet(ee[i]) : i \in 1 .. n}
  <2>1. ee = [i \in 1 .. n |-> ee[i]] /\ \A i \in 1 .. n : ee[i] \in Seq(EntryType)  BY <1>4
  <2>. HIDE DEF EntryType
  <2>2. ee \in Seq(Seq(EntryType)) /\ DOMAIN ee = 1 .. n  BY <2>1, EachOf
  <2>. QED  BY <1>3, <2>2, Flattened
<1>7. NamesDefect(at) <=> \E i \in 1 .. n : NamesDefect(ee[i])  BY <1>6 DEF NamesDefect
<1>8. fabric.topology \in Nat /\ 0 \in Nat /\ "TopologyGenerationMismatch" \in Names(9)
  BY FabricNames DEF Describes
<1>9. a \in Seq(Blame(9, 0)) /\ (a = <<>> <=> l.topology \in {0, fabric.topology})
  <2>1. CASE l.topology \notin {0, fabric.topology}
    BY <1>8, <2>1, ReasonHere DEF If, GenerationReason
  <2>2. CASE l.topology \in {0, fabric.topology}  BY <2>2 DEF If, GenerationReason
  <2>. QED  BY <2>1, <2>2
<1>10. check_topology(l.segments, l.topology, fabric) = a \o b
  BY DEF check_topology, TopologyReasons, GenerationReason
<1>. QED  BY <1>4, <1>5, <1>6, <1>7, <1>9, <1>10 DEF T

(* What an explanation is about. *)
LEMMA ExplainedIs ==
    ASSUME AnswerInv, question # None, question.topic \in {"segment", "capability", "topology"},
           question.list # None
    PROVE  /\ question.limit \in Nat \ {0} /\ StoredList(question.list)
           /\ Describes(question.fabric, question.list)
           /\ question.topic = "segment" => question.index \in Nat
           /\ ProfileOf(question.list) # None => ProfileOf(question.list) \in Profiles
<1>1. question \in Questions  BY DEF AnswerInv
<1>2. ProfileOf(question.list) # None => ProfileOf(question.list) \in Profiles
  BY FindIs DEF ProfileOf
<1>. QED  BY <1>1, <1>2, ExplanationAssumption

(* The explanations of capability and topology are exact. *)
LEMMA FabricFollows == AnswerInv => FabricExplanationsAreExact
<1>. DEFINE q == question
            l == q.list
            defect == \E k \in DOMAIN answer.entries : answer.entries[k].code # "Ok"
<1>. SUFFICES ASSUME AnswerInv PROVE FabricExplanationsAreExact  OBVIOUS
<1>1. defect <=> NamesDefect(answer.entries)  BY DEF NamesDefect, ToSet
<1>2. ASSUME Answered("capability"), l # None, ProfileOf(l) # None
      PROVE  defect <=> check_capability(ProfileOf(l), 0, q.fabric) # <<>>
  <2>1. /\ q.limit \in Nat \ {0} /\ Describes(q.fabric, l) /\ ProfileOf(l) \in Profiles
        /\ answer = explain_missing_capability(q)
    BY <1>2, ExplainedIs DEF Answered, AnswerInv
  <2>2. PICK p : p = ProfileOf(l)  OBVIOUS
  <2>3. PICK es : es = FlattenSeq([i \in DOMAIN p.capabilities |->
                                      CapabilityEntry(p.capabilities[i], q.fabric)])
    OBVIOUS
  <2>4. PICK f : f = q.fabric  OBVIOUS
  <2>5. /\ p \in Profiles /\ f.capability \in Nat
        /\ \A k \in ToSet(p.capabilities) : f.capabilities[k] \in Nat
    BY <2>1, <2>2, <2>4 DEF Describes
  <2>6. es \in Seq(Defect) /\ (es = <<>> <=> check_capability(p, 0, f) = <<>>)
    BY <2>3, <2>4, <2>5, CapabilitiesAre
  <2>7. PICK found : found = Present(q.limit, es)  OBVIOUS
  <2>8. /\ found.entries \in Seq(Defect) /\ (found.entries = <<>> <=> es = <<>>)
    BY <2>1, <2>6, <2>7, Shown
  <2>9. answer = IF found.entries = <<>> THEN Push(q.limit, found, Entry("Ok", 0, p.id)) ELSE found
    BY <1>2, <2>1, <2>2, <2>3, <2>7 DEF explain_missing_capability
  <2>10. CASE es # <<>>
    <3>1. answer = found /\ found.entries # <<>>  BY <2>8, <2>9, <2>10
    <3>2. found.entries[1] \in Defect /\ found.entries[1] \in ToSet(found.entries)
      BY <2>8, <3>1 DEF ToSet
    <3>3. NamesDefect(found.entries)  BY <3>2 DEF NamesDefect, Defect
    <3>. QED  BY <1>1, <2>2, <2>4, <2>6, <2>10, <3>1, <3>3
  <2>11. CASE es = <<>>
    <3>. DEFINE x == Entry("Ok", 0, p.id)
    <3>1. found = Empty
      <4>1. PICK g : g[0] = Empty /\ Present(q.limit, es) = g[0]
        <5>1. PICK m \in Nat : m = 0  OBVIOUS
        <5>2. DOMAIN es = 1 .. m  BY <2>11, <5>1
        <5>. QED  BY <5>1, <5>2, PresentRun
      <4>. QED  BY <2>7, <4>1
    <3>2. answer = Push(q.limit, Empty, x)  BY <2>9, <3>1 DEF Empty
    <3>3. answer.entries = <<x>>
      <4>1. ~ (0 >= q.limit)  BY <2>1
      <4>. HIDE DEF x
      <4>. QED  BY <3>2, <4>1 DEF Push, Empty
    <3>4. ToSet(<<x>>) = {x} /\ x.code = "Ok"  BY DEF ToSet, Entry
    <3>5. ~ NamesDefect(answer.entries)  BY <3>3, <3>4 DEF NamesDefect
    <3>. QED  BY <1>1, <2>2, <2>4, <2>6, <2>11, <3>5
  <2>. QED  BY <2>10, <2>11
<1>3. ASSUME Answered("topology"), l # None, ~ answer.truncated
      PROVE  defect <=> check_topology(l.segments, l.topology, q.fabric) # <<>>
  <2>1. /\ q.limit \in Nat \ {0} /\ StoredList(l) /\ Describes(q.fabric, l)
        /\ answer = explain_stale_topology(q)
    BY <1>3, ExplainedIs DEF Answered, AnswerInv
  <2>2. PICK f : f = q.fabric  OBVIOUS
  <2>3. PICK m : m = l  OBVIOUS
  <2>4. PICK a : a = GenerationReason(m, f)  OBVIOUS
  <2>5. PICK b : b = FlattenSeq(TopologyReasons(m, f))  OBVIOUS
  <2>6. PICK at : at = FlattenSeq(AdjacencyEntries(m, f))  OBVIOUS
  <2>7. /\ check_topology(m.segments, m.topology, f) = a \o b
        /\ a \in Seq(Blame(9, 0)) /\ b \in Seq(Found({9})) /\ at \in Seq(EntryType)
        /\ a = <<>> <=> m.topology \in {0, f.topology}
        /\ NamesDefect(at) <=> b # <<>>
    <3>1. StoredList(m) /\ Describes(f, m)  BY <2>1, <2>2, <2>3
    <3>. HIDE DEF q, l
    <3>. QED  BY <2>4, <2>5, <2>6, <3>1, TopologyIs
  <2>8. check_topology(m.segments, m.topology, f) = <<>> <=> a = <<>> /\ b = <<>>
    <3>1. Blame(9, 0) \subseteq Found({9})  BY DEF Blame
    <3>2. a \in Seq(Found({9}))  BY <2>7, <3>1
    <3>. QED  BY <2>7, <3>2, Concatenation
  <2>. DEFINE x == Entry("TopologyGenerationMismatch", 0, f.topology)
              y == Entry("Ok", 0, 0)
              c == IF m.topology \notin {0, f.topology} THEN <<x>> ELSE <<>>
              d == IF at = <<>> /\ m.topology = 0 THEN <<y>> ELSE <<>>
  <2>9. x \in EntryType /\ x.code # "Ok" /\ y \in EntryType /\ y.code = "Ok"
    <3>1. f.topology \in Nat  BY <2>1, <2>2 DEF Describes
    <3>. QED  BY <3>1, EntryIs DEF FabricCodes
  <2>10. answer = Present(q.limit, at \o c \o d)
    BY <1>3, <2>1, <2>2, <2>3, <2>6 DEF explain_stale_topology, AdjacencyEntries
  <2>. HIDE DEF x, y
  <2>11. ToSet(<<x>>) = {x} /\ ToSet(<<y>>) = {y} /\ ToSet(<<>>) = {}
    <3>1. \A z : ToSet(<<z>>) = {z}  BY DEF ToSet
    <3>2. ToSet(<<>>) = {}  BY DEF ToSet
    <3>. QED  BY <3>1, <3>2
  <2>12. c \in Seq(EntryType) /\ ToSet(c) = IF m.topology \notin {0, f.topology} THEN {x} ELSE {}
    <3>. HIDE DEF EntryType
    <3>1. CASE m.topology \notin {0, f.topology}
      <4>1. c = <<x>>  BY <3>1
      <4>2. <<x>> \in Seq(EntryType)  BY <2>9
      <4>. QED  BY <2>11, <3>1, <4>1, <4>2, Zenon
    <3>2. CASE ~ (m.topology \notin {0, f.topology})
      <4>1. c = <<>>  BY <3>2
      <4>2. <<>> \in Seq(EntryType)  OBVIOUS
      <4>. QED  BY <2>11, <3>2, <4>1, <4>2, Zenon
    <3>. QED  BY <3>1, <3>2
  <2>13. d \in Seq(EntryType) /\ ToSet(d) \subseteq {y}
    <3>. HIDE DEF EntryType
    <3>. QED  BY <2>9, <2>11
  <2>. HIDE DEF c, d
  <2>14. PICK es : es = at \o c \o d  OBVIOUS
  <2>15. es \in Seq(EntryType) /\ ToSet(es) = ToSet(at) \cup ToSet(c) \cup ToSet(d)
    <3>. HIDE DEF EntryType
    <3>. QED  BY <2>7, <2>12, <2>13, <2>14, InThree
  <2>16. answer.entries = es
    <3>. HIDE DEF EntryType
    <3>1. PICK ans : ans = answer  OBVIOUS
    <3>2. PICK limit : limit = q.limit  OBVIOUS
    <3>3. ~ ans.truncated /\ ans = Present(limit, es) /\ limit \in Nat \ {0}
      BY <1>3, <2>1, <2>10, <2>14, <3>1, <3>2
    <3>4. ans.entries = es  BY <2>15, <3>3, Shown
    <3>. QED  BY <3>1, <3>4
  <2>17. NamesDefect(es) <=> NamesDefect(at) \/ m.topology \notin {0, f.topology}
    BY <2>9, <2>12, <2>13, <2>15 DEF NamesDefect
  <2>. QED  BY <1>1, <2>2, <2>3, <2>7, <2>8, <2>16, <2>17
<1>. QED  BY <1>2, <1>3 DEF FabricExplanationsAreExact
--------------------------------------------------------------------------------
(* Explanations of a segment. *)

(* Some reason carries the index. *)
Blames(rs, x) == \E r \in ToSet(rs) : r.index = x

(* One of two checks does. *)
LEMMA BlamesEither ==
    ASSUME NEW T, NEW s \in Seq(T), NEW t \in Seq(T), NEW x
    PROVE  /\ s \o t \in Seq(T)
           /\ Blames(s \o t, x) <=> Blames(s, x) \/ Blames(t, x)
<1>1. s \o t \in Seq(T) /\ ToSet(s \o t) = ToSet(s) \cup ToSet(t)  BY Concatenation
<1>. QED  BY <1>1 DEF Blames

(* A check that only reports one index blames it if it reports anything. *)
LEMMA BlamesHere ==
    ASSUME NEW ph, NEW index, NEW s \in Seq(Blame(ph, index)), NEW x
    PROVE  /\ s \in Seq(Found({ph}))
           /\ Blames(s, x) <=> s # <<>> /\ x = index
<1>1. Blame(ph, index) \subseteq Found({ph})  BY DEF Blame
<1>2. s \in Seq(Found({ph}))
  <2>. DEFINE S == Blame(ph, index)
              T == Found({ph})
  <2>1. S \subseteq T /\ s \in Seq(S)  BY <1>1
  <2>. HIDE DEF S, T
  <2>2. s \in Seq(T)  BY <2>1
  <2>. QED  BY <2>2 DEF T
<1>3. (ToSet(s) = {} <=> s = <<>>) /\ ToSet(s) \subseteq Blame(ph, index)  BY NothingIn
<1>4. \A r \in ToSet(s) : r.index = index  BY <1>3 DEF Blame
<1>. QED  BY <1>2, <1>3, <1>4 DEF Blames

(* The check of one segment each: what it reports of a segment carries the *)
(* index of the segment, which counts from 0.                              *)
EachHere(ph, n, ss) ==
    n \in Nat /\ ss = [i \in 1 .. n |-> ss[i]] /\ \A i \in 1 .. n : ss[i] \in Seq(Blame(ph, i - 1))

(* Then a segment is blamed if its own check reports anything. *)
LEMMA BlamedAt ==
    ASSUME NEW ph, NEW n, NEW ss, EachHere(ph, n, ss), NEW i \in 1 .. n
    PROVE  /\ FlattenSeq(ss) \in Seq(Found({ph}))
           /\ Blames(FlattenSeq(ss), i - 1) <=> ss[i] # <<>>
<1>. DEFINE T == Found({ph})
<1>1. n \in Nat /\ ss = [k \in 1 .. n |-> ss[k]]  BY DEF EachHere
<1>2. \A k \in 1 .. n : /\ ss[k] \in Seq(T)
                        /\ \A x : Blames(ss[k], x) <=> ss[k] # <<>> /\ x = k - 1
  <2>. SUFFICES ASSUME NEW k \in 1 .. n
                PROVE  /\ ss[k] \in Seq(T)
                       /\ \A x : Blames(ss[k], x) <=> ss[k] # <<>> /\ x = k - 1
    OBVIOUS
  <2>1. PICK s, y : s = ss[k] /\ y = k - 1  OBVIOUS
  <2>2. s \in Seq(Blame(ph, y))  BY <2>1 DEF EachHere
  <2>3. s \in Seq(Found({ph})) /\ \A x : Blames(s, x) <=> s # <<>> /\ x = y
    BY <2>2, BlamesHere
  <2>. QED  BY <2>1, <2>3
<1>. HIDE DEF T
<1>3. ss \in Seq(Seq(T)) /\ DOMAIN ss = 1 .. n  BY <1>1, <1>2, EachOf
<1>4. FlattenSeq(ss) \in Seq(T) /\ ToSet(FlattenSeq(ss)) = UNION {ToSet(ss[k]) : k \in 1 .. n}
  BY <1>3, Flattened
<1>5. Blames(FlattenSeq(ss), i - 1) <=> \E k \in 1 .. n : Blames(ss[k], i - 1)
  BY <1>4 DEF Blames
<1>6. \A k \in 1 .. n : i - 1 = k - 1 <=> i = k  BY <1>1
<1>. QED  BY <1>2, <1>4, <1>5, <1>6 DEF T

(* What the profile reports of a segment carries its index. *)
LEMMA ProfileSegmentHere ==
    ASSUME NEW p \in Profiles, NEW s \in SegmentType, NEW index \in Nat
    PROVE  profile_segment(p, s, index) \in Seq(Blame(5, index))
<1>. DEFINE T == Blame(5, index)
            a == If(s.kind \notin p.kinds, "ProfileKindNotAllowed", index, KindCode[s.kind])
            b == If(s.kind = "Invalid", "ProfileKindMismatch", index, KindCode[s.kind])
            c == If(Len(s.payload) > p.payload_width, "ProfilePayloadWidthExceeded", index,
                    p.payload_width)
<1>1. KindCode[s.kind] \in Nat /\ p.payload_width \in Nat  BY SegmentIs, ProfileIs
<1>2. /\ "ProfileKindNotAllowed" \in Names(5) /\ "ProfileKindMismatch" \in Names(5)
      /\ "ProfilePayloadWidthExceeded" \in Names(5)
  BY NamesAre
<1>3. /\ Reason("ProfileKindNotAllowed", index, KindCode[s.kind]) \in T
      /\ Reason("ProfileKindMismatch", index, KindCode[s.kind]) \in T
      /\ Reason("ProfilePayloadWidthExceeded", index, p.payload_width) \in T
  BY <1>1, <1>2, ReasonHere
<1>. HIDE DEF T
<1>4. a \in Seq(T) /\ b \in Seq(T) /\ c \in Seq(T)
  <2>1. a \in Seq(T)  BY <1>3, IfIn
  <2>2. b \in Seq(T)  BY <1>3, IfIn
  <2>3. c \in Seq(T)  BY <1>3, IfIn
  <2>. QED  BY <2>1, <2>2, <2>3
<1>5. profile_segment(p, s, index) = a \o b \o c  BY DEF profile_segment
<1>. HIDE DEF a, b, c
<1>. QED  BY <1>4, <1>5 DEF T

(* What the structural check reports of a segment carries its index. *)
LEMMA StructuralSegmentHere ==
    ASSUME NEW s \in SegmentType, NEW index \in Nat
    PROVE  structural_segment(s, index) \in Seq(Blame(7, index))
<1>. DEFINE T == Blame(7, index)
            r == Find(Recorded, s.id)
<1>1. /\ KindCode[s.encoding] \in Nat /\ s.id \in Nat /\ s.ref \in Nat /\ 0 \in Nat
      /\ r # None => KindCode[r.kind] \in Nat /\ r.gen \in Nat
  <2>1. r # None => r \in Recorded  BY FindIs
  <2>2. Recorded \subseteq [id : Nat \ {0}, kind : SegmentKind, gen : Nat \ {0}]
    BY ValidationAssumption
  <2>. HIDE DEF r
  <2>3. r # None => r.kind \in KindType /\ r.gen \in Nat  BY <2>1, <2>2 DEF KindType
  <2>. QED  BY <2>3, SegmentIs, KindCodes
<1>2. {"SegmentKindInvalid", "SegmentIdInvalid", "SegmentGenerationInvalid",
       "SegmentReservedFieldSet", "SegmentMissingBinding", "SegmentBindingIncomplete",
       "SegmentEncodingMismatch", "SegmentEntityUnknown", "SegmentEntityGenerationMismatch",
       "SegmentEntityKindMismatch"} \subseteq Names(7)
  BY NamesAre
<1>3. \A name \in {"SegmentKindInvalid", "SegmentIdInvalid", "SegmentGenerationInvalid",
                   "SegmentReservedFieldSet", "SegmentMissingBinding", "SegmentBindingIncomplete"} :
          Reason(name, index, 0) \in T
  BY <1>1, <1>2, ReasonHere
<1>4. /\ Reason("SegmentEncodingMismatch", index, KindCode[s.encoding]) \in T
      /\ Reason("SegmentEntityUnknown", index, s.id) \in T
      /\ Reason("SegmentEntityUnknown", index, s.ref) \in T
  BY <1>1, <1>2, ReasonHere
<1>5. r # None => /\ Reason("SegmentEntityKindMismatch", index, KindCode[r.kind]) \in T
                  /\ Reason("SegmentEntityGenerationMismatch", index, r.gen) \in T
  BY <1>1, <1>2, ReasonHere
<1>. HIDE DEF T
<1>6. structural_shape(s, index) \in Seq(T)
  <2>1. CASE s.kind = "Invalid"
    <3>1. PICK x : x = Reason("SegmentKindInvalid", index, 0)  OBVIOUS
    <3>2. <<x>> \in Seq(T)  BY <1>3, <3>1
    <3>. QED  BY <2>1, <3>1, <3>2 DEF structural_shape
  <2>2. CASE s.kind # "Invalid"
    <3>. DEFINE a == If(s.id = 0, "SegmentIdInvalid", index, 0)
                b == If(s.gen = 0, "SegmentGenerationInvalid", index, 0)
                c == If(s.encoding \notin {"Invalid", s.kind},
                        "SegmentEncodingMismatch", index, KindCode[s.encoding])
                d == If(~ Required[s.kind] \subseteq s.fields, "SegmentBindingIncomplete", index, 0)
                e == If(~ s.fields \subseteq Required[s.kind], "SegmentReservedFieldSet", index, 0)
                f == If(s.fields \cap EntityFields = {}, "SegmentMissingBinding", index, 0)
    <3>0. /\ Reason("SegmentIdInvalid", index, 0) \in T
          /\ Reason("SegmentGenerationInvalid", index, 0) \in T
          /\ Reason("SegmentBindingIncomplete", index, 0) \in T
          /\ Reason("SegmentReservedFieldSet", index, 0) \in T
          /\ Reason("SegmentMissingBinding", index, 0) \in T
      BY <1>3
    <3>1. a \in Seq(T)  BY <3>0, IfIn, Zenon
    <3>2. b \in Seq(T)  BY <3>0, IfIn, Zenon
    <3>3. c \in Seq(T)  BY <1>4, IfIn, Zenon
    <3>4. d \in Seq(T)  BY <3>0, IfIn, Zenon
    <3>5. e \in Seq(T)  BY <3>0, IfIn, Zenon
    <3>6. f \in Seq(T)  BY <3>0, IfIn, Zenon
    <3>7. structural_shape(s, index) = a \o b \o c \o d \o e \o f
      BY <2>2 DEF structural_shape
    <3>. HIDE DEF a, b, c, d, e, f
    <3>. QED  BY <3>1, <3>2, <3>3, <3>4, <3>5, <3>6, <3>7
  <2>. QED  BY <2>1, <2>2
<1>7. structural_evidence(s, index) \in Seq(T)
  <2>. DEFINE a == IF r = None
                   THEN <<Reason("SegmentEntityUnknown", index, s.id)>>
                   ELSE If(r.kind # s.kind, "SegmentEntityKindMismatch", index, KindCode[r.kind])
                        \o If(r.gen # s.gen, "SegmentEntityGenerationMismatch", index, r.gen)
              b == If(/\ s.kind \in {"Node", "Endpoint", "Binding"}
                      /\ Required[s.kind] \subseteq s.fields
                      /\ s.ref \notin Entities, "SegmentEntityUnknown", index, s.ref)
  <2>1. a \in Seq(T)
    <3>1. CASE r = None
      <4>1. PICK x : x = Reason("SegmentEntityUnknown", index, s.id)  OBVIOUS
      <4>2. <<x>> \in Seq(T)  BY <1>4, <4>1
      <4>. QED  BY <3>1, <4>1, <4>2
    <3>2. CASE r # None
      <4>. DEFINE u == If(r.kind # s.kind, "SegmentEntityKindMismatch", index, KindCode[r.kind])
                  v == If(r.gen # s.gen, "SegmentEntityGenerationMismatch", index, r.gen)
      <4>1. u \in Seq(T)  BY <1>5, <3>2, IfIn, Zenon
      <4>2. v \in Seq(T)  BY <1>5, <3>2, IfIn, Zenon
      <4>3. a = u \o v  BY <3>2
      <4>. HIDE DEF u, v, a
      <4>. QED  BY <4>1, <4>2, <4>3
    <3>. QED  BY <3>1, <3>2
  <2>2. b \in Seq(T)  BY <1>4, IfIn, Zenon
  <2>3. structural_evidence(s, index) = a \o b  BY DEF structural_evidence
  <2>. HIDE DEF a, b
  <2>. QED  BY <2>1, <2>2, <2>3
<1>8. structural_segment(s, index)
        = structural_shape(s, index)
          \o (IF s.kind = "Invalid" THEN <<>> ELSE structural_evidence(s, index))
  BY DEF structural_segment
<1>9. PICK u : u = IF s.kind = "Invalid" THEN <<>> ELSE structural_evidence(s, index)  OBVIOUS
<1>10. u \in Seq(T)  BY <1>7, <1>9
<1>. QED  BY <1>6, <1>8, <1>9, <1>10 DEF T

(* The segment repeats an earlier one it may not repeat. *)
RepeatedAt(s, p, i) == \E j \in 1 .. i - 1 : Forbidden(s, p, j, i)

(* The repeats that are found of a segment are those of the pairs it is    *)
(* the second of.                                                          *)
LEMMA RepeatsAt ==
    ASSUME NEW d \in DraftType, NEW p, NEW i \in DOMAIN Scan(d)
    PROVE  (\E r \in ToSet(ForbiddenRepeats(d, p)) : r.at = i) <=> RepeatedAt(Scan(d), p, i)
<1>. DEFINE s == Scan(d)
            here(k) == {r \in RepeatType(Len(s)) : r.at = k}
            pair(j, k) == IF Forbidden(s, p, j, k)
                          THEN <<[at |-> k, consecutive |-> j + 1 = k]>> ELSE <<>>
            row(k) == [j \in 1 .. k - 1 |-> pair(j, k)]
            rows == [k \in DOMAIN s |-> FlattenSeq(row(k))]
<1>1. ForbiddenRepeats(d, p) = FlattenSeq(rows)  BY DEF ForbiddenRepeats, Forbidden
<1>2. PICK n \in Nat : Len(s) = n /\ DOMAIN s = 1 .. n  BY ScanIs
<1>3. ASSUME NEW k \in 1 .. n
      PROVE  /\ FlattenSeq(row(k)) \in Seq(here(k))
             /\ FlattenSeq(row(k)) = <<>> <=> ~ RepeatedAt(s, p, k)
  <2>. DEFINE T == here(k)
  <2>1. ASSUME NEW j \in 1 .. k - 1
        PROVE  pair(j, k) \in Seq(T) /\ (pair(j, k) = <<>> <=> ~ Forbidden(s, p, j, k))
    <3>1. PICK r : r = [at |-> k, consecutive |-> j + 1 = k]  OBVIOUS
    <3>2. r \in RepeatType(Len(s)) /\ r.at = k  BY <1>2, <3>1 DEF RepeatType
    <3>3. r \in T  BY <3>2
    <3>. HIDE DEF T
    <3>4. <<r>> \in Seq(T) /\ <<>> \in Seq(T) /\ <<r>> # <<>>  BY <3>3
    <3>5. pair(j, k) = IF Forbidden(s, p, j, k) THEN <<r>> ELSE <<>>  BY <3>1
    <3>. HIDE DEF pair, s
    <3>. QED  BY <3>4, <3>5
  <2>2. k - 1 \in Nat  OBVIOUS
  <2>. DEFINE ss == row(k)
  <2>3. ss = [j \in 1 .. k - 1 |-> ss[j]] /\ \A j \in 1 .. k - 1 : ss[j] = pair(j, k)  OBVIOUS
  <2>. HIDE DEF ss, T, pair
  <2>4. \A j \in 1 .. k - 1 : ss[j] \in Seq(T)  BY <2>1, <2>3
  <2>5. /\ FlattenSeq(ss) \in Seq(T)
        /\ FlattenSeq(ss) = <<>> <=> \A j \in 1 .. k - 1 : ss[j] = <<>>
    BY <2>2, <2>3, <2>4, Everywhere
  <2>6. FlattenSeq(ss) = <<>> <=> \A j \in 1 .. k - 1 : ~ Forbidden(s, p, j, k)
    BY <2>1, <2>3, <2>5
  <2>. QED  BY <2>5, <2>6 DEF ss, RepeatedAt, T
<1>. HIDE DEF row
<1>4. rows = [k \in 1 .. n |-> rows[k]] /\ \A k \in 1 .. n : rows[k] = FlattenSeq(row(k))
  BY <1>2
<1>. HIDE DEF rows
<1>5. ASSUME NEW k \in 1 .. n
      PROVE  /\ rows[k] \in Seq(RepeatType(n))
             /\ \A r \in ToSet(rows[k]) : r.at = k
             /\ ToSet(rows[k]) = {} <=> ~ RepeatedAt(s, p, k)
  <2>. DEFINE T == here(k)
  <2>1. T \subseteq RepeatType(n) /\ \A r \in T : r.at = k  BY <1>2
  <2>2. rows[k] \in Seq(T) /\ (rows[k] = <<>> <=> ~ RepeatedAt(s, p, k))  BY <1>3, <1>4
  <2>. HIDE DEF T, s
  <2>3. PICK t : t = rows[k]  OBVIOUS
  <2>4. (ToSet(t) = {} <=> t = <<>>) /\ ToSet(t) \subseteq T  BY <2>2, <2>3, NothingIn
  <2>5. t \in Seq(RepeatType(n))  BY <2>1, <2>2, <2>3
  <2>. QED  BY <2>1, <2>2, <2>3, <2>4, <2>5
<1>6. ToSet(FlattenSeq(rows)) = UNION {ToSet(rows[k]) : k \in 1 .. n}
  <2>. DEFINE T == RepeatType(n)
  <2>1. \A k \in 1 .. n : rows[k] \in Seq(T)  BY <1>5
  <2>. HIDE DEF T
  <2>2. rows \in Seq(Seq(T)) /\ DOMAIN rows = 1 .. n  BY <1>4, <2>1, EachOf
  <2>. QED  BY <2>2, Flattened
<1>7. i \in 1 .. n  BY <1>2
<1>8. (\E r \in ToSet(FlattenSeq(rows)) : r.at = i) <=> ToSet(rows[i]) # {}
  <2>1. \A r : r \in ToSet(FlattenSeq(rows)) <=> \E k \in 1 .. n : r \in ToSet(rows[k])  BY <1>6
  <2>2. \A k \in 1 .. n : \A r \in ToSet(rows[k]) : r.at = k  BY <1>5
  <2>. QED  BY <1>7, <2>1, <2>2
<1>9. ToSet(rows[i]) = {} <=> ~ RepeatedAt(s, p, i)  BY <1>5, <1>7
<1>10. RepeatedAt(s, p, i) \in BOOLEAN  BY DEF RepeatedAt
<1>. QED  BY <1>1, <1>8, <1>9, <1>10, Zenon

(* A reason for each repeat. *)
EachRepeat(rs, h, T) ==
    /\ h = [k \in DOMAIN rs |-> h[k]]
    /\ \A k \in DOMAIN rs : h[k] \in T /\ h[k].index = rs[k].at - 1

(* It blames the segments that repeat another. *)
LEMMA RepeatsBlame ==
    ASSUME NEW d \in DraftType, NEW p, NEW i \in DOMAIN Scan(d), NEW T, NEW h,
           EachRepeat(ForbiddenRepeats(d, p), h, T)
    PROVE  h \in Seq(T) /\ (Blames(h, i - 1) <=> RepeatedAt(Scan(d), p, i))
<1>. DEFINE rs == ForbiddenRepeats(d, p)
<1>0. /\ h = [k \in DOMAIN rs |-> h[k]]
      /\ \A k \in DOMAIN rs : h[k] \in T /\ h[k].index = rs[k].at - 1
  BY DEF EachRepeat
<1>1. PICK m \in Nat : Len(rs) = m /\ DOMAIN rs = 1 .. m  BY RepeatsAre
<1>2. \A k \in 1 .. m : h[k] \in T  BY <1>0, <1>1
<1>3. h = [k \in 1 .. m |-> h[k]]  BY <1>0, <1>1
<1>. HIDE DEF rs
<1>4. h \in Seq(T) /\ DOMAIN h = 1 .. m  BY <1>2, <1>3, EachOf
<1>5. PICK n \in Nat : Len(Scan(d)) = n /\ DOMAIN Scan(d) = 1 .. n  BY ScanIs
<1>6. rs \in Seq(RepeatType(n))  BY <1>5, RepeatsAre DEF rs
<1>7. \A k \in 1 .. m : rs[k].at \in 1 .. n
  <2>1. \A k \in 1 .. m : rs[k] \in RepeatType(n)  BY <1>1, <1>6
  <2>. QED  BY <2>1 DEF RepeatType
<1>8. \A k \in 1 .. m : h[k].index = i - 1 <=> rs[k].at = i  BY <1>0, <1>1, <1>5, <1>7
<1>9. Blames(h, i - 1) <=> \E k \in 1 .. m : h[k].index = i - 1  BY <1>4 DEF Blames, ToSet
<1>10. (\E r \in ToSet(rs) : r.at = i) <=> \E k \in 1 .. m : rs[k].at = i  BY <1>1 DEF ToSet
<1>. QED  BY <1>4, <1>8, <1>9, <1>10, RepeatsAt DEF rs

(* What a profile that is known asks of one segment. *)
FitsHere(s, p, i) ==
    /\ s[i].kind \in p.kinds /\ Len(s[i].payload) <= p.payload_width
    /\ ~ RepeatedAt(s, p, i)

(* The check of the profile blames a segment that does not fit; only the   *)
(* first segment is also blamed for something else.                        *)
LEMMA ProfileBlames ==
    ASSUME NEW d \in DraftType, NEW p \in Profiles, NEW i \in DOMAIN Scan(d)
    PROVE  /\ ~ FitsHere(Scan(d), p, i) => Blames(check_profile(d, p), i - 1)
           /\ i # 1 /\ Blames(check_profile(d, p), i - 1) => ~ FitsHere(Scan(d), p, i)
<1>. DEFINE T == Found({5})
            U == Blame(5, 0)
            s == Scan(d)
            rs == ForbiddenRepeats(d, p)
            a == If(p.gen = 0, "ProfileGenerationInvalid", 0, 0)
            b == If(d.profile_generation \notin {0, p.gen}, "ProfileGenerationMismatch", 0, p.gen)
            c == If(~ p.empty /\ d.segments = <<>>, "ProfileEmptyNotPermitted", 0, 0)
            e == If(d.strictness = "Loose" /\ ~ p.loose, "ProfileStrictnessUnsupported", 0, 0)
            f == If(Len(d.segments) > p.max_depth, "ProfileMaxDepthExceeded", 0, p.max_depth)
            ss == [k \in DOMAIN s |-> profile_segment(p, s[k], k - 1)]
            g == FlattenSeq(ss)
            h == [k \in DOMAIN rs |->
                     Reason("ProfileRepeatNotPermitted", rs[k].at - 1, s[rs[k].at].id)]
            v == a \o b \o c \o e \o f
<1>1. p.gen \in Nat /\ p.max_depth \in Nat /\ p # None /\ 0 \in Nat  BY ProfileIs
<1>2. v \in Seq(U)
  <2>1. /\ "ProfileGenerationInvalid" \in Names(5) /\ "ProfileGenerationMismatch" \in Names(5)
        /\ "ProfileEmptyNotPermitted" \in Names(5) /\ "ProfileStrictnessUnsupported" \in Names(5)
        /\ "ProfileMaxDepthExceeded" \in Names(5)
    BY NamesAre
  <2>2. /\ Reason("ProfileGenerationInvalid", 0, 0) \in U
        /\ Reason("ProfileGenerationMismatch", 0, p.gen) \in U
        /\ Reason("ProfileEmptyNotPermitted", 0, 0) \in U
        /\ Reason("ProfileStrictnessUnsupported", 0, 0) \in U
        /\ Reason("ProfileMaxDepthExceeded", 0, p.max_depth) \in U
    BY <1>1, <2>1, ReasonHere
  <2>. HIDE DEF U
  <2>3. a \in Seq(U)  BY <2>2, IfIn, Zenon
  <2>4. b \in Seq(U)  BY <2>2, IfIn, Zenon
  <2>5. c \in Seq(U)  BY <2>2, IfIn, Zenon
  <2>6. e \in Seq(U)  BY <2>2, IfIn, Zenon
  <2>7. f \in Seq(U)  BY <2>2, IfIn, Zenon
  <2>. HIDE DEF a, b, c, e, f
  <2>. QED  BY <2>3, <2>4, <2>5, <2>6, <2>7
<1>3. PICK n \in Nat : Len(s) = n /\ DOMAIN s = 1 .. n /\ \A k \in 1 .. n : s[k] \in SegmentType
  BY ScanIs
<1>4. i \in 1 .. n /\ (i - 1 = 0 <=> i = 1)  BY <1>3
<1>5. g \in Seq(T) /\ (Blames(g, i - 1)
          <=> ~ (s[i].kind \in p.kinds /\ Len(s[i].payload) <= p.payload_width))
  <2>1. /\ ss = [k \in 1 .. n |-> ss[k]]
        /\ \A k \in 1 .. n : ss[k] = profile_segment(p, s[k], k - 1)
    BY <1>3
  <2>. HIDE DEF ss
  <2>2. \A k \in 1 .. n : ss[k] \in Seq(Blame(5, k - 1))
    <3>. SUFFICES ASSUME NEW k \in 1 .. n PROVE ss[k] \in Seq(Blame(5, k - 1))  OBVIOUS
    <3>1. PICK x, y : x = k - 1 /\ y = s[k]  OBVIOUS
    <3>2. x \in Nat /\ y \in SegmentType /\ ss[k] = profile_segment(p, y, x)  BY <1>3, <2>1, <3>1
    <3>3. ss[k] \in Seq(Blame(5, x))  BY <3>2, ProfileSegmentHere
    <3>. QED  BY <3>1, <3>3
  <2>3. EachHere(5, n, ss)  BY <2>1, <2>2 DEF EachHere
  <2>4. g \in Seq(T) /\ (Blames(g, i - 1) <=> ss[i] # <<>>)  BY <1>4, <2>3, BlamedAt
  <2>5. ss[i] = <<>> <=> s[i].kind \in p.kinds /\ Len(s[i].payload) <= p.payload_width
    <3>1. PICK x, y : x = i - 1 /\ y = s[i]  OBVIOUS
    <3>2. x \in Nat /\ y \in SegmentType /\ ss[i] = profile_segment(p, y, x)
      BY <1>3, <1>4, <2>1, <3>1
    <3>3. ss[i] = <<>> <=> y.kind \in p.kinds /\ Len(y.payload) <= p.payload_width
      BY <3>2, ProfileSegmentIs
    <3>. QED  BY <3>1, <3>3
  <2>. QED  BY <2>4, <2>5
<1>6. h \in Seq(T) /\ (Blames(h, i - 1) <=> RepeatedAt(s, p, i))
  <2>1. rs \in Seq(RepeatType(n))  BY <1>3, RepeatsAre
  <2>2. ASSUME NEW k \in DOMAIN rs PROVE h[k] \in T /\ h[k].index = rs[k].at - 1
    <3>1. rs[k] \in RepeatType(n)  BY <2>1
    <3>2. rs[k].at \in 1 .. n  BY <3>1 DEF RepeatType
    <3>3. PICK x, y : x = rs[k].at - 1 /\ y = s[rs[k].at].id  OBVIOUS
    <3>4. x \in Nat /\ y \in Nat
      <4>1. s[rs[k].at] \in SegmentType  BY <1>3, <3>2
      <4>. QED  BY <3>2, <3>3, <4>1, SegmentIs
    <3>5. "ProfileRepeatNotPermitted" \in Names(5)  BY NamesAre
    <3>6. h[k] = Reason("ProfileRepeatNotPermitted", x, y)  BY <3>3
    <3>7. h[k] \in Blame(5, x)  BY <3>4, <3>5, <3>6, ReasonHere
    <3>. QED  BY <3>3, <3>7 DEF Blame
  <2>3. h = [k \in DOMAIN rs |-> h[k]]  OBVIOUS
  <2>. HIDE DEF h, T
  <2>4. EachRepeat(ForbiddenRepeats(d, p), h, T)  BY <2>2, <2>3 DEF EachRepeat
  <2>. QED  BY <2>4, RepeatsBlame
<1>7. check_profile(d, p) = v \o g \o h  BY <1>1 DEF check_profile
<1>. HIDE DEF v, g, h, U, T
<1>8. v \in Seq(T) /\ (Blames(v, i - 1) => i - 1 = 0)
  <2>1. PICK ph, y : ph = 5 /\ y = 0  OBVIOUS
  <2>2. v \in Seq(Blame(ph, y))  BY <1>2, <2>1 DEF U
  <2>3. v \in Seq(Found({ph})) /\ \A x : Blames(v, x) <=> v # <<>> /\ x = y
    BY <2>2, BlamesHere
  <2>. QED  BY <2>1, <2>3 DEF T
<1>9. PICK w : w = v \o g  OBVIOUS
<1>10. w \in Seq(T) /\ (Blames(w, i - 1) <=> Blames(v, i - 1) \/ Blames(g, i - 1))
  BY <1>5, <1>8, <1>9, BlamesEither
<1>11. Blames(w \o h, i - 1) <=> Blames(w, i - 1) \/ Blames(h, i - 1)
  BY <1>6, <1>10, BlamesEither
<1>. QED  BY <1>4, <1>5, <1>6, <1>7, <1>8, <1>9, <1>10, <1>11 DEF FitsHere

(* The structural check blames a segment that is not sound or repeats      *)
(* another, and no other.                                                  *)
LEMMA StructuralBlames ==
    ASSUME NEW d \in DraftType, NEW p, NEW i \in DOMAIN Scan(d)
    PROVE  Blames(check_structural(d, p), i - 1)
             <=> ~ SoundSegment(Scan(d)[i]) \/ RepeatedAt(Scan(d), p, i)
<1>. DEFINE T == Found({7})
            s == Scan(d)
            rs == ForbiddenRepeats(d, p)
            name(r) == IF r.consecutive THEN "SegmentDuplicateConsecutive"
                                        ELSE "SegmentDuplicateNonConsecutive"
            ss == [k \in DOMAIN s |-> structural_segment(s[k], k - 1)]
            g == FlattenSeq(ss)
            h == [k \in DOMAIN rs |-> Reason(name(rs[k]), rs[k].at - 1, s[rs[k].at].id)]
<1>1. check_structural(d, p) = g \o h  BY DEF check_structural, structural
<1>2. PICK n \in Nat : Len(s) = n /\ DOMAIN s = 1 .. n /\ \A k \in 1 .. n : s[k] \in SegmentType
  BY ScanIs
<1>3. i \in 1 .. n  BY <1>2
<1>4. g \in Seq(T) /\ (Blames(g, i - 1) <=> ~ SoundSegment(s[i]))
  <2>1. /\ ss = [k \in 1 .. n |-> ss[k]]
        /\ \A k \in 1 .. n : ss[k] = structural_segment(s[k], k - 1)
    BY <1>2
  <2>. HIDE DEF ss
  <2>2. \A k \in 1 .. n : ss[k] \in Seq(Blame(7, k - 1)) /\ (ss[k] = <<>> <=> SoundSegment(s[k]))
    <3>. SUFFICES ASSUME NEW k \in 1 .. n
                  PROVE  ss[k] \in Seq(Blame(7, k - 1)) /\ (ss[k] = <<>> <=> SoundSegment(s[k]))
      OBVIOUS
    <3>1. PICK x, y : x = k - 1 /\ y = s[k]  OBVIOUS
    <3>2. x \in Nat /\ y \in SegmentType /\ ss[k] = structural_segment(y, x)
      BY <1>2, <2>1, <3>1
    <3>3. ss[k] \in Seq(Blame(7, x))  BY <3>2, StructuralSegmentHere
    <3>4. ss[k] = <<>> <=> SoundSegment(y)  BY <3>2, StructuralSegmentIs
    <3>. QED  BY <3>1, <3>3, <3>4
  <2>3. EachHere(7, n, ss)  BY <2>1, <2>2 DEF EachHere
  <2>4. g \in Seq(T) /\ (Blames(g, i - 1) <=> ss[i] # <<>>)  BY <1>3, <2>3, BlamedAt
  <2>5. ss[i] = <<>> <=> SoundSegment(s[i])  BY <1>3, <2>2
  <2>. QED  BY <2>4, <2>5
<1>5. h \in Seq(T) /\ (Blames(h, i - 1) <=> RepeatedAt(s, p, i))
  <2>1. rs \in Seq(RepeatType(n))  BY <1>2, RepeatsAre
  <2>2. ASSUME NEW k \in DOMAIN rs PROVE h[k] \in T /\ h[k].index = rs[k].at - 1
    <3>1. rs[k] \in RepeatType(n)  BY <2>1
    <3>2. rs[k].at \in 1 .. n  BY <3>1 DEF RepeatType
    <3>3. PICK x, y, z : x = rs[k].at - 1 /\ y = s[rs[k].at].id /\ z = name(rs[k])  OBVIOUS
    <3>4. x \in Nat /\ y \in Nat
      <4>1. s[rs[k].at] \in SegmentType  BY <1>2, <3>2
      <4>. QED  BY <3>2, <3>3, <4>1, SegmentIs
    <3>5. z \in Names(7)  BY <3>3, NamesAre
    <3>6. h[k] = Reason(z, x, y)  BY <3>3
    <3>7. h[k] \in Blame(7, x)  BY <3>4, <3>5, <3>6, ReasonHere
    <3>. QED  BY <3>3, <3>7 DEF Blame
  <2>3. h = [k \in DOMAIN rs |-> h[k]]  OBVIOUS
  <2>. HIDE DEF h, T
  <2>4. EachRepeat(ForbiddenRepeats(d, p), h, T)  BY <2>2, <2>3 DEF EachRepeat
  <2>. QED  BY <2>4, RepeatsBlame
<1>. HIDE DEF g, h, T
<1>6. Blames(g \o h, i - 1) <=> Blames(g, i - 1) \/ Blames(h, i - 1)
  BY <1>4, <1>5, BlamesEither
<1>. QED  BY <1>1, <1>4, <1>5, <1>6

(* Of a list within the limit, the limits blame a segment that is too wide. *)
LEMMA LimitsBlame ==
    ASSUME NEW d \in DraftType, Len(d.segments) <= MaxSegments, NEW i \in DOMAIN d.segments
    PROVE  Blames(check_resource_limits(d), i - 1) <=> ~ (Len(d.segments[i].payload) <= MaxPayload)
<1>. DEFINE T == Found({13})
            s == d.segments
            wide(k) == If(Len(s[k].payload) > MaxPayload, "LimitMaxSegmentPayloadBytes", k - 1,
                          MaxPayload)
            ss == [k \in DOMAIN s |-> wide(k)]
            a == If(Len(s) > MaxSegments, "LimitMaxSegmentsPerList", 0, MaxSegments)
            b == FlattenSeq(ss)
<1>0. check_resource_limits(d) = a \o b  BY DEF check_resource_limits
<1>1. 0 \in Nat /\ MaxSegments \in Nat /\ MaxPayload \in Nat  BY ValidationAssumption
<1>2. PICK n \in Nat : Len(s) = n /\ DOMAIN s = 1 .. n /\ \A k \in 1 .. n : s[k] \in SegmentType
  BY DraftIs
<1>3. a = <<>>
  <2>1. ~ (Len(s) > MaxSegments)  BY <1>1, <1>2
  <2>. QED  BY <2>1 DEF If
<1>4. i \in 1 .. n  BY <1>2
<1>5. b \in Seq(T) /\ (Blames(b, i - 1) <=> ~ (Len(s[i].payload) <= MaxPayload))
  <2>1. ss = [k \in 1 .. n |-> ss[k]] /\ \A k \in 1 .. n : ss[k] = wide(k)
    <3>. HIDE DEF wide
    <3>. QED  BY <1>2
  <2>2. ASSUME NEW k \in 1 .. n
        PROVE  /\ ss[k] \in Seq(Blame(13, k - 1))
               /\ ss[k] = <<>> <=> Len(s[k].payload) <= MaxPayload
    <3>1. k - 1 \in Nat /\ Len(s[k].payload) \in Nat  BY <1>2, SegmentIs
    <3>2. "LimitMaxSegmentPayloadBytes" \in Names(13)  BY NamesAre
    <3>3. PICK x : x = k - 1  OBVIOUS
    <3>4. PICK r : r = Reason("LimitMaxSegmentPayloadBytes", x, MaxPayload)  OBVIOUS
    <3>5. <<r>> \in Seq(Blame(13, x)) /\ <<r>> # <<>>
      BY <1>1, <3>1, <3>2, <3>3, <3>4, ReasonHere
    <3>6. CASE Len(s[k].payload) > MaxPayload
      <4>1. wide(k) = <<r>>  BY <3>3, <3>4, <3>6 DEF If
      <4>2. ~ (Len(s[k].payload) <= MaxPayload)  BY <1>1, <3>1, <3>6
      <4>. HIDE DEF wide, ss
      <4>. QED  BY <2>1, <3>3, <3>5, <4>1, <4>2
    <3>7. CASE ~ (Len(s[k].payload) > MaxPayload)
      <4>1. wide(k) = <<>>  BY <3>7 DEF If
      <4>2. Len(s[k].payload) <= MaxPayload  BY <1>1, <3>1, <3>7
      <4>3. <<>> \in Seq(Blame(13, k - 1))  OBVIOUS
      <4>. HIDE DEF wide, ss
      <4>. QED  BY <2>1, <4>1, <4>2, <4>3
    <3>. QED  BY <3>6, <3>7, Zenon
  <2>. HIDE DEF ss
  <2>3. EachHere(13, n, ss)  BY <2>1, <2>2 DEF EachHere
  <2>4. b \in Seq(T) /\ (Blames(b, i - 1) <=> ss[i] # <<>>)  BY <1>4, <2>3, BlamedAt
  <2>5. ss[i] = <<>> <=> Len(s[i].payload) <= MaxPayload  BY <1>4, <2>2
  <2>. QED  BY <2>4, <2>5
<1>. HIDE DEF a, b, T
<1>6. a \o b = b  BY <1>3, <1>5
<1>. QED  BY <1>0, <1>5, <1>6

(* What the evidence on capabilities and topology says of a list. *)
Between(l, p, fabric) ==
    (IF p = None THEN <<>> ELSE check_capability(p, 0, fabric))
    \o check_topology(l.segments, l.topology, fabric)

(* A segment is not an adjacency, or one that is current. *)
IsCurrent(s, fabric) ==
    s.kind = "Adjacency" => fabric.adjacencies[s.ref] \in {s.ref} \ {0}

(* It is reported phase by phase; it blames a segment that is not current, *)
(* and of the others only the first.                                       *)
LEMMA BetweenIs ==
    ASSUME NEW l, StoredList(l), NEW fabric, Describes(fabric, l), NEW p \in Profiles \cup {None},
           NEW n \in Nat, DOMAIN l.segments = 1 .. n, NEW c, c = Between(l, p, fabric)
    PROVE  /\ c \in Seq({r \in ReasonType : phase_of(r) \in 8 .. 12}) /\ InPhaseOrder(c)
           /\ \A i \in 1 .. n :
                 /\ ~ IsCurrent(l.segments[i], fabric) => Blames(c, i - 1)
                 /\ i # 1 /\ Blames(c, i - 1) => ~ IsCurrent(l.segments[i], fabric)
<1>. DEFINE V == {r \in ReasonType : phase_of(r) \in 8 .. 12}
            U == Found({8})
            W == Found({9})
<1>1. PICK k : k = IF p = None THEN <<>> ELSE check_capability(p, 0, fabric)  OBVIOUS
<1>2. PICK a : a = GenerationReason(l, fabric)  OBVIOUS
<1>3. PICK tt : tt = TopologyReasons(l, fabric)  OBVIOUS
<1>4. PICK b : b = FlattenSeq(tt)  OBVIOUS
<1>5. k \in Seq(Blame(8, 0))
  <2>1. CASE p = None
    <3>1. <<>> \in Seq(Blame(8, 0))  OBVIOUS
    <3>. QED  BY <1>1, <2>1, <3>1
  <2>2. CASE p # None
    <3>1. p \in Profiles  BY <2>2
    <3>2. /\ fabric.capability \in Nat
          /\ \A x \in ToSet(p.capabilities) : fabric.capabilities[x] \in Nat
      BY <3>1 DEF Describes
    <3>3. check_capability(p, 0, fabric) \in Seq(Blame(8, 0))  BY <3>1, <3>2, CapabilitiesAre
    <3>. QED  BY <1>1, <2>2, <3>3
  <2>. QED  BY <2>1, <2>2
<1>6. a \in Seq(Blame(9, 0)) /\ check_topology(l.segments, l.topology, fabric) = a \o b
  <2>1. PICK at : at = FlattenSeq(AdjacencyEntries(l, fabric))  OBVIOUS
  <2>. QED  BY <1>2, <1>3, <1>4, <2>1, TopologyIs
<1>7. /\ tt = [i \in 1 .. n |-> tt[i]]
      /\ \A i \in 1 .. n : /\ tt[i] \in Seq(Blame(9, i - 1))
                           /\ tt[i] = <<>> <=> IsCurrent(l.segments[i], fabric)
  <2>1. PICK ee : ee = AdjacencyEntries(l, fabric)  OBVIOUS
  <2>. QED  BY <1>3, <2>1, TopologySegmentsAre DEF IsCurrent
<1>8. k \in Seq(U) /\ \A x : Blames(k, x) => x = 0
  <2>1. PICK ph, y : ph = 8 /\ y = 0  OBVIOUS
  <2>2. k \in Seq(Blame(ph, y))  BY <1>5, <2>1
  <2>3. k \in Seq(Found({ph})) /\ \A x : Blames(k, x) <=> k # <<>> /\ x = y
    BY <2>2, BlamesHere
  <2>. QED  BY <2>1, <2>3
<1>9. a \in Seq(W) /\ \A x : Blames(a, x) => x = 0
  <2>1. PICK ph, y : ph = 9 /\ y = 0  OBVIOUS
  <2>2. a \in Seq(Blame(ph, y))  BY <1>6, <2>1
  <2>3. a \in Seq(Found({ph})) /\ \A x : Blames(a, x) <=> a # <<>> /\ x = y
    BY <2>2, BlamesHere
  <2>. QED  BY <2>1, <2>3
<1>10. b \in Seq(W) /\ \A i \in 1 .. n : Blames(b, i - 1) <=> ~ IsCurrent(l.segments[i], fabric)
  <2>1. EachHere(9, n, tt)  BY <1>7 DEF EachHere
  <2>2. \A i \in 1 .. n : b \in Seq(W) /\ (Blames(b, i - 1) <=> tt[i] # <<>>)
    BY <1>4, <2>1, BlamedAt
  <2>3. CASE n = 0
    <3>1. \A i \in 1 .. n : tt[i] \in Seq(W)  BY <2>3
    <3>. HIDE DEF W
    <3>2. FlattenSeq(tt) \in Seq(W)  BY <1>7, <3>1, Everywhere
    <3>. QED  BY <1>4, <2>3, <3>2
  <2>4. CASE n # 0
    <3>1. 1 \in 1 .. n  BY <2>4
    <3>. QED  BY <1>7, <2>2, <3>1
  <2>. QED  BY <2>3, <2>4
<1>11. c = k \o (a \o b)  BY <1>1, <1>6 DEF Between
<1>12. U \subseteq V /\ W \subseteq V  BY DEF Found
<1>13. Within(k, 0, 8)
  <2>1. PICK ph : ph = 8  OBVIOUS
  <2>2. ph \in Nat /\ k \in Seq(Found({ph})) /\ 0 \in Nat /\ 0 <= ph /\ ph <= ph  BY <1>8, <2>1
  <2>3. Within(k, 0, ph)  BY <2>2, OnePhase
  <2>. QED  BY <2>1, <2>3
<1>14. a \o b \in Seq(W) /\ \A x : Blames(a \o b, x) <=> Blames(a, x) \/ Blames(b, x)
  <2>. HIDE DEF W
  <2>. QED  BY <1>9, <1>10, BlamesEither
<1>15. PICK t : t = a \o b  OBVIOUS
<1>16. Within(t, 8, 9)
  <2>1. PICK ph, lo : ph = 9 /\ lo = 8  OBVIOUS
  <2>2. ph \in Nat /\ t \in Seq(Found({ph})) /\ lo \in Nat /\ lo <= ph /\ ph <= ph
    BY <1>14, <1>15, <2>1
  <2>3. Within(t, lo, ph)  BY <2>2, OnePhase
  <2>. QED  BY <2>1, <2>3
<1>17. InPhaseOrder(c)
  <2>1. PICK lo, hi : lo = 8 /\ hi = 9  OBVIOUS
  <2>2. lo \in Nat /\ hi \in Nat /\ lo <= hi /\ Within(k, 0, lo) /\ Within(t, lo, hi)
    BY <1>13, <1>16, <2>1
  <2>3. Within(k \o t, 0, hi)  BY <2>2, LaterPhases
  <2>. QED  BY <1>11, <1>15, <2>3 DEF Within
<1>. HIDE DEF U, V, W
<1>18. k \in Seq(V) /\ t \in Seq(V)  BY <1>8, <1>12, <1>14, <1>15
<1>19. k \o t \in Seq(V) /\ \A x : Blames(k \o t, x) <=> Blames(k, x) \/ Blames(t, x)
  BY <1>18, BlamesEither
<1>20. ASSUME NEW i \in 1 .. n
       PROVE  /\ ~ IsCurrent(l.segments[i], fabric) => Blames(c, i - 1)
              /\ i # 1 /\ Blames(c, i - 1) => ~ IsCurrent(l.segments[i], fabric)
  <2>1. Blames(c, i - 1) <=> Blames(k, i - 1) \/ Blames(a, i - 1) \/ Blames(b, i - 1)
    BY <1>11, <1>14, <1>15, <1>19
  <2>2. i - 1 = 0 <=> i = 1  OBVIOUS
  <2>3. Blames(b, i - 1) <=> ~ IsCurrent(l.segments[i], fabric)  BY <1>10
  <2>4. Blames(k, i - 1) \/ Blames(a, i - 1) => i = 1  BY <1>8, <1>9, <2>2
  <2>. QED  BY <2>1, <2>3, <2>4
<1>. QED  BY <1>11, <1>15, <1>17, <1>19, <1>20 DEF V

(* The request explain_segment validates: the segments are those of the    *)
(* list, all of them are scanned, and neither the lifecycle nor a policy   *)
(* has a reason.                                                           *)
LEMMA SegmentRequestIs ==
    ASSUME NEW q, NEW l, l = q.list, StoredList(l), NEW fabric, fabric = q.fabric,
           Describes(fabric, l), l.segments # <<>>,
           NEW p, p = ProfileOf(l), NEW d, d = SegmentRequest(q)
    PROVE  /\ d \in DraftType /\ InPhaseOrder(d.before) /\ InPhaseOrder(d.between)
           /\ d.between = Between(l, p, fabric) /\ p = Find(Profiles, d.profile)
           /\ d.segments = l.segments /\ Scan(d) = l.segments
           /\ d.before = <<>> /\ check_list_lifecycle(d) = <<>>
           /\ check_list_content_lifecycle(d, p) = <<>> /\ check_policy(d) = <<>>
<1>1. /\ d.before = <<>> /\ d.between = Between(l, p, fabric) /\ d.existing = 0 /\ d.expected = 0
      /\ d.id = l.id /\ d.call = "batch" /\ d.state = "Active"
      /\ d.supersedes_generation = 0 /\ d.superseded_generation = 0
      /\ d.superseded = "none" /\ d.profile = l.profile[1] /\ d.profile_generation = 0
      /\ d.policy = 0 /\ d.policy_generation = 0 /\ d.scope = 0 /\ d.strictness = "Strict"
      /\ d.derived = FALSE /\ d.segments = l.segments
  BY DEF SegmentRequest, Between
<1>2. d = [before |-> d.before, between |-> d.between, id |-> d.id, call |-> d.call,
           existing |-> d.existing, state |-> d.state, expected |-> d.expected,
           superseded |-> d.superseded, supersedes_generation |-> d.supersedes_generation,
           superseded_generation |-> d.superseded_generation, profile |-> d.profile,
           profile_generation |-> d.profile_generation, policy |-> d.policy,
           policy_generation |-> d.policy_generation, scope |-> d.scope,
           strictness |-> d.strictness, derived |-> d.derived, segments |-> d.segments]
  BY DEF SegmentRequest
<1>3. p \in Profiles \cup {None}  BY FindIs DEF ProfileOf
<1>4. PICK n \in Nat : Len(l.segments) = n /\ DOMAIN l.segments = 1 .. n  BY StoredIs
<1>5. /\ d.between \in Seq({r \in ReasonType : phase_of(r) \in 8 .. 12})
      /\ InPhaseOrder(d.between)
  <2>1. PICK c : c = Between(l, p, fabric)  OBVIOUS
  <2>. QED  BY <1>1, <1>3, <1>4, <2>1, BetweenIs
<1>6. /\ d.before \in Seq({r \in ReasonType : phase_of(r) < 4}) /\ InPhaseOrder(d.before)
  <2>1. DOMAIN <<>> = {}  OBVIOUS
  <2>. QED  BY <1>1, <2>1 DEF InPhaseOrder
<1>7. /\ l.segments \in Seq(SegmentType) /\ l.profile[1] \in Nat /\ Len(l.segments) <= MaxSegments
      /\ l.id \in Nat /\ l.id # 0
  BY DEF StoredList
<1>8. d \in DraftType
  <2>0. 0 \in 0 .. MaxGeneration  BY ValidationAssumption
  <2>1. /\ d.existing \in 0 .. MaxGeneration /\ d.expected \in Nat
        /\ d.id \in Nat /\ d.call \in {"create", "replace", "revalidate", "batch"}
        /\ d.state \in LifecycleState
        /\ d.superseded \in {"none", "unknown"} \cup LifecycleState
        /\ d.supersedes_generation \in Nat /\ d.superseded_generation \in Nat
        /\ d.profile \in Nat /\ d.profile_generation \in Nat /\ d.policy \in Nat
        /\ d.policy_generation \in Nat /\ d.scope \in Nat /\ d.strictness \in {"Strict", "Loose"}
        /\ d.segments \in Seq(SegmentType)
    BY <1>1, <1>7, <2>0 DEF LifecycleState
  <2>2. d.derived \in BOOLEAN  BY <1>1
  <2>. QED  BY <1>2, <1>5, <1>6, <2>1, <2>2, Zenon DEF DraftType
<1>9. Scan(d) = l.segments  BY <1>1, <1>7, <1>8, ScanIs
<1>10. check_list_lifecycle(d) = <<>> /\ check_list_content_lifecycle(d, p) = <<>>
  <2>1. MayFollow(d)  BY <1>1, <1>7 DEF MayFollow
  <2>. QED  BY <1>1, <1>8, <2>1, LifecycleIs
<1>11. check_policy(d) = <<>>
  <2>1. Find(Policies, 0) = None
    <3>1. \A x \in Policies : x.id # 0  BY ValidationAssumption DEF PolicyType
    <3>. QED  BY <3>1, FindIs
  <2>. QED  BY <1>1, <1>8, <2>1, CheckPolicyIs
<1>. QED  BY <1>1, <1>5, <1>6, <1>8, <1>9, <1>10, <1>11 DEF ProfileOf

(* What is asked of a segment of a stored list, without reference to the   *)
(* checks.                                                                 *)
InOrderHere(l, p, fabric, i) ==
    LET s == l.segments[i]
    IN  /\ WellFormed(s)
        /\ p # None =>
              /\ s.kind \in p.kinds /\ Len(s.payload) <= p.payload_width
              /\ \A j \in 1 .. i - 1 :
                    /\ Len(l.segments[j].payload) <= p.payload_width
                    /\ Canonical(l.segments[j], p.payload_width) = Canonical(s, p.payload_width)
                    => IF j = i - 1 THEN p.consecutive ELSE p.nonconsecutive
        /\ s.kind = "Adjacency" => fabric.adjacencies[s.ref] = s.ref

(* The conditions of a profile on a segment, in terms of canonical forms. *)
LEMMA FitsHereIs ==
    ASSUME NEW l, StoredList(l), NEW p \in Profiles, NEW i \in DOMAIN l.segments
    PROVE  FitsHere(l.segments, p, i)
             <=> /\ l.segments[i].kind \in p.kinds /\ Len(l.segments[i].payload) <= p.payload_width
                 /\ \A j \in 1 .. i - 1 :
                       /\ Len(l.segments[j].payload) <= p.payload_width
                       /\ Canonical(l.segments[j], p.payload_width)
                              = Canonical(l.segments[i], p.payload_width)
                       => IF j = i - 1 THEN p.consecutive ELSE p.nonconsecutive
<1>. DEFINE s == l.segments
            w == p.payload_width
<1>1. PICK n \in Nat : Len(s) = n /\ DOMAIN s = 1 .. n /\ \A k \in 1 .. n : s[k] \in SegmentType
  BY StoredIs
<1>2. w \in Nat /\ p # None  BY ProfileIs
<1>. HIDE DEF s, w
<1>3. ASSUME Len(s[i].payload) <= w, NEW j \in 1 .. i - 1
      PROVE  Forbidden(s, p, j, i)
               <=> /\ Len(s[j].payload) <= w /\ Canonical(s[j], w) = Canonical(s[i], w)
                   /\ ~ IF j = i - 1 THEN p.consecutive ELSE p.nonconsecutive
  <2>1. i \in 1 .. n /\ j \in 1 .. n /\ (j + 1 = i <=> j = i - 1)  BY <1>1 DEF s
  <2>2. PICK x, y : x = s[j] /\ y = s[i]  OBVIOUS
  <2>3. x \in SegmentType /\ y \in SegmentType /\ Len(y.payload) <= w  BY <1>1, <1>3, <2>1, <2>2
  <2>4. SegmentSemanticEqual(x, y, w) <=> Len(x.payload) <= w /\ Canonical(x, w) = Canonical(y, w)
    <3>1. CASE Len(x.payload) <= w  BY <1>2, <2>3, <3>1, SameCanonicalForm
    <3>2. CASE ~ (Len(x.payload) <= w)  BY <3>2 DEF SegmentSemanticEqual
    <3>. QED  BY <3>1, <3>2
  <2>5. Forbidden(s, p, j, i) <=> /\ SegmentSemanticEqual(x, y, w)
                                  /\ ~ IF j = i - 1 THEN p.consecutive ELSE p.nonconsecutive
    BY <1>2, <2>1, <2>2 DEF Forbidden, w
  <2>. QED  BY <2>2, <2>4, <2>5
<1>4. FitsHere(s, p, i) <=> /\ s[i].kind \in p.kinds /\ Len(s[i].payload) <= w
                            /\ \A j \in 1 .. i - 1 : ~ Forbidden(s, p, j, i)
  BY DEF FitsHere, RepeatedAt, w
<1>. QED  BY <1>3, <1>4 DEF s, w

(* The request blames a segment other than the first exactly if it is not  *)
(* in order, and the first if it is not.                                   *)
LEMMA RequestBlames ==
    ASSUME NEW q, NEW l, l = q.list, StoredList(l), NEW fabric, fabric = q.fabric,
           Describes(fabric, l), NEW p, p = ProfileOf(l), NEW d, d = SegmentRequest(q),
           NEW i \in DOMAIN l.segments
    PROVE  /\ Reported(d) \in Seq(Sources)
           /\ ~ Blames(Reported(d), i - 1) => InOrderHere(l, p, fabric, i)
           /\ InOrderHere(l, p, fabric, i) /\ i # 1 /\ p # None => ~ Blames(Reported(d), i - 1)
<1>. DEFINE s == l.segments
            x == i - 1
<1>1. PICK n \in Nat : Len(s) = n /\ DOMAIN s = 1 .. n /\ \A k \in 1 .. n : s[k] \in SegmentType
  BY StoredIs
<1>2. s # <<>> /\ i \in 1 .. n /\ Len(s) <= MaxSegments  BY <1>1 DEF StoredList
<1>3. /\ d \in DraftType /\ InPhaseOrder(d.before) /\ InPhaseOrder(d.between)
      /\ d.between = Between(l, p, fabric) /\ p = Find(Profiles, d.profile)
      /\ d.segments = s /\ Scan(d) = s
      /\ d.before = <<>> /\ check_list_lifecycle(d) = <<>>
      /\ check_list_content_lifecycle(d, p) = <<>> /\ check_policy(d) = <<>>
  BY <1>2, SegmentRequestIs
<1>4. Reported(d) \in Seq(Sources)  BY <1>3, ReportedIs
<1>5. PICK c4, c6, c7, c8 : /\ c4 = check_profile(d, p) /\ c6 = check_structural(d, p)
                            /\ c7 = d.between /\ c8 = check_resource_limits(d)
  OBVIOUS
<1>6. c4 \in Seq(Sources) /\ c6 \in Seq(Sources) /\ c7 \in Seq(Sources) /\ c8 \in Seq(Sources)
  <2>1. /\ Found({5}) \subseteq Sources /\ Found({7}) \subseteq Sources
        /\ Found({13}) \subseteq Sources
    BY DEF Found, Sources
  <2>2. p \in Profiles \cup {None}  BY <1>3, FindIs
  <2>3. c4 \in Seq(Found({5})) /\ c6 \in Seq(Found({7})) /\ c8 \in Seq(Found({13}))
    BY <1>3, <1>5, <2>2, CheckProfileIs, CheckStructuralIs, CheckLimitsIs
  <2>4. \A S, T : S \subseteq T => Seq(S) \subseteq Seq(T)  OBVIOUS
  <2>5. {r \in ReasonType : phase_of(r) \in 8 .. 12} \subseteq Sources
    <3>1. \A r \in ReasonType : r.code = LastCode => phase_of(r) = 13
      BY CodesAre DEF phase_of
    <3>. QED  BY <3>1 DEF Sources
  <2>6. c7 \in Seq({r \in ReasonType : phase_of(r) \in 8 .. 12})  BY <1>3, <1>5 DEF DraftType
  <2>. QED  BY <2>1, <2>3, <2>4, <2>5, <2>6
<1>7. Reported(d) = c4 \o c6 \o c7 \o c8
  <2>1. Reported(d) = <<>> \o <<>> \o <<>> \o c4 \o <<>> \o c6 \o c7 \o c8
    BY <1>3, <1>5 DEF Reported
  <2>2. <<>> \o <<>> \o <<>> \o c4 = c4 /\ c4 \o <<>> = c4  BY <1>6
  <2>. QED  BY <2>1, <2>2
<1>8. Blames(Reported(d), x) <=> Blames(c4, x) \/ Blames(c6, x) \/ Blames(c7, x) \/ Blames(c8, x)
  <2>1. PICK u : u = c4 \o c6  OBVIOUS
  <2>2. u \in Seq(Sources) /\ (Blames(u, x) <=> Blames(c4, x) \/ Blames(c6, x))
    BY <1>6, <2>1, BlamesEither
  <2>3. PICK v : v = u \o c7  OBVIOUS
  <2>4. v \in Seq(Sources) /\ (Blames(v, x) <=> Blames(u, x) \/ Blames(c7, x))
    BY <1>6, <2>2, <2>3, BlamesEither
  <2>5. Blames(v \o c8, x) <=> Blames(v, x) \/ Blames(c8, x)  BY <1>6, <2>4, BlamesEither
  <2>. QED  BY <1>7, <2>1, <2>2, <2>3, <2>4, <2>5
<1>9. Blames(c6, x) <=> ~ SoundSegment(s[i]) \/ RepeatedAt(s, p, i)
  BY <1>1, <1>2, <1>3, <1>5, StructuralBlames
<1>10. Blames(c8, x) <=> ~ (Len(s[i].payload) <= MaxPayload)
  BY <1>1, <1>2, <1>3, <1>5, LimitsBlame
<1>11. /\ ~ IsCurrent(s[i], fabric) => Blames(c7, x)
       /\ i # 1 /\ Blames(c7, x) => ~ IsCurrent(s[i], fabric)
  <2>1. p \in Profiles \cup {None}  BY <1>3, FindIs
  <2>. QED  BY <1>1, <1>2, <1>3, <1>5, <2>1, BetweenIs
<1>12. ASSUME p # None
       PROVE  /\ ~ FitsHere(s, p, i) => Blames(c4, x)
              /\ i # 1 /\ Blames(c4, x) => ~ FitsHere(s, p, i)
  <2>1. p \in Profiles  BY <1>3, <1>12, FindIs
  <2>. QED  BY <1>1, <1>2, <1>3, <1>5, <2>1, ProfileBlames
<1>13. p # None => ( FitsHere(s, p, i)
                       <=> /\ s[i].kind \in p.kinds /\ Len(s[i].payload) <= p.payload_width
                           /\ \A j \in 1 .. i - 1 :
                                 /\ Len(s[j].payload) <= p.payload_width
                                 /\ Canonical(s[j], p.payload_width)
                                        = Canonical(s[i], p.payload_width)
                                 => IF j = i - 1 THEN p.consecutive ELSE p.nonconsecutive )
  <2>1. p # None => p \in Profiles  BY <1>3, FindIs
  <2>. QED  BY <2>1, FitsHereIs
<1>14. WellFormed(s[i]) <=> SoundSegment(s[i]) /\ Len(s[i].payload) <= MaxPayload
  BY DEF WellFormed, SoundSegment
<1>15. WellFormed(s[i]) =>
         (IsCurrent(s[i], fabric) <=> (s[i].kind = "Adjacency" => fabric.adjacencies[s[i].ref] = s[i].ref))
  <2>1. ASSUME WellFormed(s[i]), s[i].kind = "Adjacency" PROVE s[i].ref # 0
    <3>1. s[i].fields = Required["Adjacency"]  BY <2>1 DEF WellFormed
    <3>2. Required["Adjacency"] # {}  BY DEF Required
    <3>3. s[i] \in ToSet(s)  BY <1>1, <1>2 DEF ToSet
    <3>. QED  BY <3>1, <3>2, <3>3 DEF StoredList
  <2>. QED  BY <2>1 DEF IsCurrent
<1>16. InOrderHere(l, p, fabric, i)
         <=> /\ SoundSegment(s[i]) /\ Len(s[i].payload) <= MaxPayload
             /\ p # None => FitsHere(s, p, i)
             /\ IsCurrent(s[i], fabric)
  BY <1>13, <1>14, <1>15 DEF InOrderHere
<1>17. ~ Blames(Reported(d), x) => InOrderHere(l, p, fabric, i)
  BY <1>8, <1>9, <1>10, <1>11, <1>12, <1>16
<1>18. InOrderHere(l, p, fabric, i) /\ i # 1 /\ p # None => ~ Blames(Reported(d), x)
  <2>1. p # None /\ FitsHere(s, p, i) => ~ RepeatedAt(s, p, i)  BY DEF FitsHere
  <2>. QED  BY <1>8, <1>9, <1>10, <1>11, <1>12, <1>16, <2>1
<1>. QED  BY <1>4, <1>17, <1>18

(* No reason is called Ok. *)
LEMMA NoCodeIsOk == \A c \in 1 .. LastCode : kCodes[c][1] # "Ok"
  BY DEF kCodes, LastCode

(* A validation that is not truncated reports an index exactly if the      *)
(* checks blame it; explain_segment then has no entry Ok.                  *)
LEMMA SegmentReasonsAre ==
    ASSUME NEW q, NEW d, d = SegmentRequest(q), Reported(d) \in Seq(Sources),
           ~ validate_request(d).truncated, NEW rs, rs = SegmentReasons(q)
    PROVE  rs \in Seq(ReasonType) /\ (rs = <<>> <=> ~ Blames(Reported(d), q.index))
<1>1. PICK res : res = validate_request(d)  OBVIOUS
<1>2. res = AddAll(Success, Reported(d))  BY <1>1 DEF validate_request, Reported
<1>3. Complete(Success, {})
  <2>1. Success \in ResultType  BY SuccessIs
  <2>. QED  BY <2>1 DEF Complete, Success
<1>4. Complete(res, {} \cup ToSet(Reported(d)))
  <2>1. {} \in SUBSET Sources  OBVIOUS
  <2>. QED  BY <1>2, <1>3, <2>1, AddAllCompletes
<1>5. res.reasons = ToSet(Reported(d)) /\ res.reasons \subseteq ReasonType /\ IsFiniteSet(res.reasons)
  <2>1. ~ res.truncated  BY <1>1
  <2>. QED  BY <1>4, <2>1 DEF Complete, ResultType
<1>6. PICK R : R = {r \in res.reasons : r.index = q.index}  OBVIOUS
<1>7. R \in SUBSET ReasonType /\ IsFiniteSet(R)
  <2>1. R \subseteq res.reasons  BY <1>6
  <2>. QED  BY <1>5, <2>1, FS_Subset
<1>8. rs = InOrder(R)  BY <1>1, <1>6 DEF SegmentReasons
<1>9. rs \in Seq(R) /\ ToSet(rs) = R  BY <1>7, <1>8, InOrderIs
<1>10. rs = <<>> <=> R = {}  BY <1>9, NothingIn
<1>11. R = {} <=> ~ Blames(Reported(d), q.index)  BY <1>5, <1>6 DEF Blames
<1>. QED  BY <1>7, <1>9, <1>10, <1>11

(* The explanations of a segment are sound. *)
LEMMA SegmentFollows == AnswerInv => SegmentExplanationIsSound
<1>. DEFINE q == question
            says == answer.entries # <<>> /\ answer.entries[1].code = "Ok"
<1>. SUFFICES ASSUME AnswerInv, Answered("segment"), q.list # None,
                     q.index < Len(q.list.segments),
                     ~ validate_request(SegmentRequest(q)).truncated
              PROVE  LET p == ProfileOf(q.list)
                         ok == InOrderHere(q.list, p, q.fabric, q.index + 1)
                     IN  (says => ok) /\ (ok /\ q.index > 0 /\ p # None => says)
  <2>1. q.list # None /\ AnswerInv /\ Answered("segment") => q.index \in Nat
    BY ExplainedIs DEF Answered
  <2>2. q.index \in Nat => (q.index + 1) - 1 = q.index  OBVIOUS
  <2>. QED  BY <2>1, <2>2 DEF SegmentExplanationIsSound, InOrderHere
<1>1. /\ q.limit \in Nat \ {0} /\ StoredList(q.list) /\ Describes(q.fabric, q.list)
      /\ q.index \in Nat /\ answer = explain_segment(q)
  BY ExplainedIs DEF Answered, AnswerInv
<1>2. PICK qq, l, fabric, p, d, i, rs :
          /\ qq = q /\ l = qq.list /\ fabric = qq.fabric /\ p = ProfileOf(l)
          /\ d = SegmentRequest(qq) /\ i = qq.index + 1 /\ rs = SegmentReasons(qq)
  OBVIOUS
<1>3. i - 1 = qq.index /\ (i # 1 <=> qq.index > 0) /\ i \in DOMAIN l.segments
  <2>1. Len(l.segments) \in Nat /\ DOMAIN l.segments = 1 .. Len(l.segments)
    BY <1>1, <1>2, StoredIs
  <2>. QED  BY <1>1, <1>2, <2>1
<1>4. /\ Reported(d) \in Seq(Sources)
      /\ ~ Blames(Reported(d), i - 1) => InOrderHere(l, p, fabric, i)
      /\ InOrderHere(l, p, fabric, i) /\ i # 1 /\ p # None => ~ Blames(Reported(d), i - 1)
  <2>1. /\ l = qq.list /\ StoredList(l) /\ fabric = qq.fabric /\ Describes(fabric, l)
        /\ p = ProfileOf(l) /\ d = SegmentRequest(qq) /\ i \in DOMAIN l.segments
    BY <1>1, <1>2, <1>3
  <2>. HIDE DEF q
  <2>. QED  BY <2>1, RequestBlames
<1>5. rs \in Seq(ReasonType) /\ (rs = <<>> <=> ~ Blames(Reported(d), qq.index))
  <2>1. d = SegmentRequest(qq) /\ rs = SegmentReasons(qq) /\ ~ validate_request(d).truncated
    BY <1>2
  <2>. HIDE DEF q
  <2>. QED  BY <1>4, <2>1, SegmentReasonsAre
<1>6. PICK es : es = IF rs = <<>> THEN <<Entry("Ok", qq.index, 0)>>
                     ELSE [k \in DOMAIN rs |->
                              Entry(kCodes[rs[k].code][1], rs[k].index, rs[k].detail)]
  OBVIOUS
<1>7. answer = Present(qq.limit, es)
  <2>1. qq.list # None /\ ~ (qq.index >= Len(qq.list.segments)) /\ answer = explain_segment(qq)
    <3>1. Len(q.list.segments) \in Nat  BY <1>1, StoredIs
    <3>. QED  BY <1>1, <1>2, <3>1
  <2>. HIDE DEF q
  <2>. QED  BY <1>2, <1>6, <2>1 DEF explain_segment
<1>8. PICK m \in Nat : DOMAIN es = 1 .. m /\ m # 0 /\ es = [k \in 1 .. m |-> es[k]]
  <2>1. CASE rs = <<>>
    <3>1. PICK e : e = Entry("Ok", qq.index, 0)  OBVIOUS
    <3>2. es = <<e>>  BY <1>6, <2>1, <3>1
    <3>3. DOMAIN <<e>> = 1 .. 1 /\ <<e>> = [k \in 1 .. 1 |-> <<e>>[k]]  OBVIOUS
    <3>. QED  BY <3>2, <3>3
  <2>2. CASE rs # <<>>
    <3>1. DOMAIN rs = 1 .. Len(rs) /\ Len(rs) \in Nat /\ Len(rs) # 0  BY <1>5, <2>2
    <3>2. es = [k \in 1 .. Len(rs) |-> Entry(kCodes[rs[k].code][1], rs[k].index, rs[k].detail)]
      BY <1>6, <2>2, <3>1
    <3>. QED  BY <3>1, <3>2
  <2>. QED  BY <2>1, <2>2
<1>9. es[1].code = "Ok" <=> rs = <<>>
  <2>1. CASE rs = <<>>
    <3>1. es[1] = Entry("Ok", qq.index, 0)  BY <1>6, <2>1
    <3>. QED  BY <2>1, <3>1 DEF Entry
  <2>2. CASE rs # <<>>
    <3>1. 1 \in DOMAIN rs /\ rs[1] \in ReasonType  BY <1>5, <2>2
    <3>2. rs[1].code \in 1 .. LastCode  BY <3>1, CodesAre DEF ReasonType
    <3>3. es[1] = Entry(kCodes[rs[1].code][1], rs[1].index, rs[1].detail)  BY <1>6, <2>2, <3>1
    <3>4. es[1].code = kCodes[rs[1].code][1]  BY <3>3 DEF Entry
    <3>. QED  BY <2>2, <3>2, <3>4, NoCodeIsOk
  <2>. QED  BY <2>1, <2>2
<1>10. says <=> rs = <<>>
  <2>1. PICK T : T = {es[k] : k \in 1 .. m}  OBVIOUS
  <2>2. \A k \in 1 .. m : es[k] \in T  BY <2>1
  <2>3. es \in Seq(T) /\ (es = <<>> <=> m = 0)  BY <1>8, <2>2, EachOf
  <2>4. PICK ans, limit : ans = answer /\ limit = qq.limit  OBVIOUS
  <2>5. ans = Present(limit, es) /\ limit \in Nat \ {0}  BY <1>1, <1>2, <1>7, <2>4
  <2>6. (ans.entries = <<>> <=> es = <<>>) /\ (es # <<>> => ans.entries[1] = es[1])
    BY <2>3, <2>5, Shown
  <2>. QED  BY <1>8, <1>9, <2>3, <2>4, <2>6
<1>. QED  BY <1>2, <1>3, <1>4, <1>5, <1>10

(* The explanations agree with validation: the segment, the capability and *)
(* the topology that explain.cpp finds in order would be accepted now, and *)
(* what it blames would be refused.  For every profile, policy, evidence,  *)
(* limit and list.                                                         *)
THEOREM ExplanationsAreTrue == MessageSpec => []ExplanationsAgree
<1>1. AnswerInv => ExplanationsAgree
  BY FabricFollows, SegmentFollows DEF ExplanationsAgree
<1>. QED  BY <1>1, AnswersAre, PTL DEF MessageSpec
--------------------------------------------------------------------------------
(* Payloads of messages.  A reader is followed by its place in the payload *)
(* that arrived, which may have lost its end or gained a value.            *)

Pairs(N) == N \X Nat

(* From place at on, the payload is a, as far as it goes. *)
Along(payload, at, a) ==
    \A i \in 1 .. Len(a) : at + i <= Len(payload) => payload[at + i] = a[i]

(* A reader that has not failed is at a place of the payload and has read  *)
(* the fields F, each with its value in v.                                 *)
Reads(r, payload, at, F, v) ==
    r.why = "Ok" => /\ at <= Len(payload)
                    /\ r.rest = SubSeq(payload, at + 1, Len(payload))
                    /\ r.read = [f \in F |-> v[f]]

(* The checks of a layout accept the values. *)
Passes(checks, layout, v) ==
    \A c \in DOMAIN checks : checks[c][1] \in FieldNames(layout) /\ v[checks[c][1]] \in checks[c][2]

(* A function on an interval is a sequence. *)
LEMMA SequenceOf ==
    ASSUME NEW T, NEW n \in Nat, NEW s, s = [k \in 1 .. n |-> s[k]], \A k \in 1 .. n : s[k] \in T
    PROVE  s \in Seq(T) /\ Len(s) = n /\ DOMAIN s = 1 .. n
<1>1. s \in Seq(T) /\ Len(s) = n  OBVIOUS
<1>. QED  BY <1>1

OneAfterOther(g, x, y, k, n) ==
    /\ g = [i \in 1 .. k + n |-> g[i]]
    /\ \A i \in 1 .. k : g[i] = x[i]
    /\ \A i \in 1 .. n : g[k + i] = y[i]

(* A function that holds two sequences one after the other is their        *)
(* concatenation.                                                          *)
LEMMA JoinIs ==
    ASSUME NEW T, NEW k \in Nat, NEW n \in Nat, NEW x \in Seq(T), NEW y \in Seq(T), NEW g,
           Len(x) = k, Len(y) = n, OneAfterOther(g, x, y, k, n)
    PROVE  g = x \o y
<1>0. /\ g = [i \in 1 .. k + n |-> g[i]]
      /\ \A i \in 1 .. k : g[i] = x[i]
      /\ \A i \in 1 .. n : g[k + i] = y[i]
  BY DEF OneAfterOther
<1>1. x \o y \in Seq(T) /\ Len(x \o y) = k + n /\ DOMAIN (x \o y) = 1 .. k + n
  OBVIOUS
<1>2. ASSUME NEW i \in 1 .. k + n PROVE (x \o y)[i] = g[i]
  <2>1. CASE i <= k
    <3>1. i \in 1 .. k /\ (x \o y)[i] = x[i]  BY <2>1
    <3>. QED  BY <1>0, <3>1
  <2>2. CASE ~ (i <= k)
    <3>1. i - k \in 1 .. n /\ (x \o y)[i] = y[i - k] /\ k + (i - k) = i  BY <2>2
    <3>. QED  BY <1>0, <3>1
  <2>. QED  BY <2>1, <2>2
<1>3. PICK c : c = x \o y  OBVIOUS
<1>4. c \in Seq(T) /\ DOMAIN c = 1 .. k + n  BY <1>1, <1>3
<1>5. c = [i \in 1 .. k + n |-> c[i]]  BY <1>4
<1>. QED  BY <1>0, <1>2, <1>3, <1>5

(* Layouts are sequences of pairs. *)
LEMMA LayoutIs ==
    ASSUME NEW N, NEW width \in Nat, NEW names \in Seq(N)
    PROVE  /\ Fields(width, names) \in Seq(Pairs(N))
           /\ Len(Fields(width, names)) = Len(names)
           /\ FieldNames(Fields(width, names)) = ToSet(names)
<1>0. PICK n \in Nat : Len(names) = n  OBVIOUS
<1>1. PICK T : T = Pairs(N)  OBVIOUS
<1>2. PICK l : l = Fields(width, names)  OBVIOUS
<1>3. DOMAIN names = 1 .. n /\ \A i \in 1 .. n : names[i] \in N  BY <1>0
<1>4. l = [i \in 1 .. n |-> <<names[i], width>>]  BY <1>2, <1>3 DEF Fields
<1>5. \A i \in 1 .. n : l[i] = <<names[i], width>>  BY <1>4
<1>6. \A i \in 1 .. n : l[i] \in T /\ l[i][1] = names[i]
  <2>. SUFFICES ASSUME NEW i \in 1 .. n PROVE l[i] \in T /\ l[i][1] = names[i]  OBVIOUS
  <2>1. names[i] \in N /\ l[i] = <<names[i], width>>  BY <1>3, <1>5
  <2>. QED  BY <1>1, <2>1 DEF Pairs
<1>7. l = [i \in 1 .. n |-> l[i]]  BY <1>4
<1>8. l \in Seq(T) /\ Len(l) = n /\ DOMAIN l = 1 .. n  BY <1>6, <1>7, SequenceOf
<1>9. FieldNames(l) = ToSet(names)  BY <1>3, <1>6, <1>8 DEF FieldNames, ToSet
<1>. QED  BY <1>0, <1>1, <1>2, <1>8, <1>9

(* The fields of two layouts. *)
LEMMA LayoutsJoin ==
    ASSUME NEW T, NEW a \in Seq(T), NEW b \in Seq(T)
    PROVE  /\ a \o b \in Seq(T) /\ Len(a \o b) = Len(a) + Len(b)
           /\ FieldNames(a \o b) = FieldNames(a) \cup FieldNames(b)
<1>1. PICK k \in Nat, n \in Nat : Len(a) = k /\ Len(b) = n /\ DOMAIN a = 1 .. k /\ DOMAIN b = 1 .. n
  OBVIOUS
<1>2. /\ a \o b \in Seq(T) /\ Len(a \o b) = k + n /\ DOMAIN (a \o b) = 1 .. k + n
      /\ \A i \in 1 .. k + n : (a \o b)[i] = IF i <= k THEN a[i] ELSE b[i - k]
  BY <1>1
<1>3. ASSUME NEW x \in FieldNames(a \o b) PROVE x \in FieldNames(a) \cup FieldNames(b)
  <2>1. PICK i \in 1 .. k + n : x = (a \o b)[i][1]  BY <1>2, <1>3 DEF FieldNames
  <2>2. CASE i <= k
    <3>1. i \in 1 .. k /\ x = a[i][1]  BY <1>2, <2>1, <2>2
    <3>. QED  BY <1>1, <3>1 DEF FieldNames
  <2>3. CASE ~ (i <= k)
    <3>1. i - k \in 1 .. n /\ x = b[i - k][1]  BY <1>2, <2>1, <2>3
    <3>. QED  BY <1>1, <3>1 DEF FieldNames
  <2>. QED  BY <2>2, <2>3
<1>4. ASSUME NEW x \in FieldNames(a) PROVE x \in FieldNames(a \o b)
  <2>1. PICK i \in 1 .. k : x = a[i][1]  BY <1>1, <1>4 DEF FieldNames
  <2>2. i \in 1 .. k + n /\ (a \o b)[i] = a[i]  BY <1>2
  <2>. QED  BY <1>2, <2>1, <2>2 DEF FieldNames
<1>5. ASSUME NEW x \in FieldNames(b) PROVE x \in FieldNames(a \o b)
  <2>1. PICK i \in 1 .. n : x = b[i][1]  BY <1>1, <1>5 DEF FieldNames
  <2>2. i + k \in 1 .. k + n /\ ~ (i + k <= k) /\ (i + k) - k = i  OBVIOUS
  <2>3. (a \o b)[i + k] = b[i]  BY <1>2, <2>2
  <2>. QED  BY <1>2, <2>1, <2>2, <2>3 DEF FieldNames
<1>. QED  BY <1>1, <1>2, <1>3, <1>4, <1>5

(* What is written of a layout. *)
LEMMA WrittenIs ==
    ASSUME NEW N, NEW l \in Seq(Pairs(N)), NEW v, \A f \in FieldNames(l) : v[f] \in Nat
    PROVE  /\ Written(l, v) \in Seq(Item) /\ Len(Written(l, v)) = Len(l)
           /\ \A i \in 1 .. Len(l) :
                 Written(l, v)[i].width = l[i][2] /\ Written(l, v)[i].value = v[l[i][1]]
<1>1. PICK n \in Nat : Len(l) = n /\ DOMAIN l = 1 .. n  OBVIOUS
<1>2. \A i \in 1 .. n : l[i][1] \in FieldNames(l) /\ l[i][2] \in Nat
  <2>1. \A i \in 1 .. n : l[i] \in Pairs(N)  BY <1>1
  <2>. QED  BY <1>1, <2>1 DEF FieldNames, Pairs
<1>3. Written(l, v) = [i \in 1 .. n |-> [width |-> l[i][2], value |-> v[l[i][1]]]]
  BY <1>1 DEF Written
<1>4. \A i \in 1 .. n : [width |-> l[i][2], value |-> v[l[i][1]]] \in Item  BY <1>2 DEF Item
<1>5. Written(l, v) \in Seq(Item) /\ Len(Written(l, v)) = n  BY <1>3, <1>4
<1>6. \A i \in 1 .. n : Written(l, v)[i] = [width |-> l[i][2], value |-> v[l[i][1]]]  BY <1>3
<1>. QED  BY <1>1, <1>5, <1>6

(* Layouts are written one after the other. *)
LEMMA WrittenJoin ==
    ASSUME NEW N, NEW a \in Seq(Pairs(N)), NEW b \in Seq(Pairs(N)), NEW v,
           \A f \in FieldNames(a) \cup FieldNames(b) : v[f] \in Nat
    PROVE  Written(a \o b, v) = Written(a, v) \o Written(b, v)
<1>1. PICK k \in Nat, n \in Nat : Len(a) = k /\ Len(b) = n /\ DOMAIN a = 1 .. k /\ DOMAIN b = 1 .. n
  OBVIOUS
<1>4. Len(a \o b) = k + n /\ DOMAIN (a \o b) = 1 .. k + n  BY <1>1
<1>5. PICK g, x, y : g = Written(a \o b, v) /\ x = Written(a, v) /\ y = Written(b, v)  OBVIOUS
<1>6. x \in Seq(Item) /\ Len(x) = k /\ y \in Seq(Item) /\ Len(y) = n  BY <1>1, <1>5, WrittenIs
<1>7. /\ g = [i \in 1 .. k + n |-> [width |-> (a \o b)[i][2], value |-> v[(a \o b)[i][1]]]]
      /\ x = [i \in 1 .. k |-> [width |-> a[i][2], value |-> v[a[i][1]]]]
      /\ y = [i \in 1 .. n |-> [width |-> b[i][2], value |-> v[b[i][1]]]]
  BY <1>1, <1>4, <1>5 DEF Written
<1>8. g = [i \in 1 .. k + n |-> g[i]]  BY <1>7
<1>9. ASSUME NEW i \in 1 .. k PROVE g[i] = x[i]
  <2>1. i \in 1 .. k + n /\ (a \o b)[i] = a[i]  BY <1>1
  <2>. QED  BY <1>7, <2>1
<1>10. ASSUME NEW i \in 1 .. n PROVE g[k + i] = y[i]
  <2>1. k + i \in 1 .. k + n /\ (a \o b)[k + i] = b[i]  BY <1>1
  <2>2. PICK j : j = k + i  OBVIOUS
  <2>3. j \in 1 .. k + n /\ (a \o b)[j] = b[i]  BY <2>1, <2>2
  <2>4. g[j] = [width |-> (a \o b)[j][2], value |-> v[(a \o b)[j][1]]]  BY <1>7, <2>3
  <2>5. y[i] = [width |-> b[i][2], value |-> v[b[i][1]]]  BY <1>7
  <2>6. PICK e : e = b[i]  OBVIOUS
  <2>7. g[j] = [width |-> e[2], value |-> v[e[1]]]  BY <2>3, <2>4, <2>6
  <2>8. y[i] = [width |-> e[2], value |-> v[e[1]]]  BY <2>5, <2>6
  <2>. QED  BY <2>2, <2>7, <2>8
<1>11. OneAfterOther(g, x, y, k, n)  BY <1>8, <1>9, <1>10 DEF OneAfterOther
<1>12. g = x \o y  BY <1>6, <1>11, JoinIs
<1>. QED  BY <1>5, <1>12

(* What comes first and what comes after it. *)
LEMMA AlongBoth ==
    ASSUME NEW payload \in Seq(Item), NEW at \in Nat, NEW a \in Seq(Item), NEW b \in Seq(Item),
           Along(payload, at, a \o b)
    PROVE  Along(payload, at, a) /\ Along(payload, at + Len(a), b)
<1>1. PICK k \in Nat, n \in Nat : Len(a) = k /\ Len(b) = n  OBVIOUS
<1>2. Len(a \o b) = k + n /\ \A i \in 1 .. k + n : (a \o b)[i] = IF i <= k THEN a[i] ELSE b[i - k]
  BY <1>1
<1>3. ASSUME NEW i \in 1 .. k, at + i <= Len(payload) PROVE payload[at + i] = a[i]
  <2>1. i \in 1 .. k + n /\ i <= k  OBVIOUS
  <2>. QED  BY <1>2, <1>3, <2>1 DEF Along
<1>4. ASSUME NEW i \in 1 .. n, (at + k) + i <= Len(payload) PROVE payload[(at + k) + i] = b[i]
  <2>1. k + i \in 1 .. k + n /\ ~ (k + i <= k) /\ (k + i) - k = i /\ at + (k + i) = (at + k) + i
    OBVIOUS
  <2>. QED  BY <1>2, <1>4, <2>1 DEF Along
<1>. QED  BY <1>1, <1>3, <1>4 DEF Along

(* What is left of what is left. *)
LEMMA SubSeqTwice ==
    ASSUME NEW T, NEW s \in Seq(T), NEW k \in Nat, NEW a \in Nat, NEW n \in Nat, NEW e \in Nat,
           Len(s) = k, e = a + n, e <= k, NEW t, t = SubSeq(s, a + 1, k)
    PROVE  SubSeq(t, n + 1, k - a) = SubSeq(s, e + 1, k)
<1>1. PICK x, y, m : x = SubSeq(t, n + 1, k - a) /\ y = SubSeq(s, e + 1, k) /\ m = k - e  OBVIOUS
<1>2. m \in Nat /\ k - a \in Nat  BY <1>1
<1>3. t \in Seq(T) /\ Len(t) = k - a /\ \A i \in 1 .. k - a : t[i] = s[a + i]
  OBVIOUS
<1>4. x \in Seq(T) /\ Len(x) = m /\ \A i \in 1 .. m : x[i] = t[n + i]  BY <1>1, <1>2, <1>3
<1>5. y \in Seq(T) /\ Len(y) = m /\ \A i \in 1 .. m : y[i] = s[e + i]  BY <1>1, <1>2
<1>6. \A i \in 1 .. m : n + i \in 1 .. k - a /\ a + (n + i) = e + i  BY <1>1, <1>2
<1>7. \A i \in 1 .. m : x[i] = y[i]  BY <1>3, <1>4, <1>5, <1>6
<1>8. x = y  BY <1>4, <1>5, <1>7
<1>. QED  BY <1>1, <1>8

(* A reader before a layout that was written with the values v; it has     *)
(* read the fields F, with their values in u.                              *)
BeforeTake(r, payload, at, N, l, v, F, u, end, G) ==
    /\ payload \in Seq(Item) /\ at \in Nat /\ l \in Seq(Pairs(N))
    /\ \A f \in FieldNames(l) : v[f] \in Nat
    /\ Along(payload, at, Written(l, v)) /\ Reads(r, payload, at, F, u)
    /\ \A f \in F \ FieldNames(l) : u[f] = v[f]
    /\ end = at + Len(l) /\ G = F \cup FieldNames(l)

(* Reading a layout that was written: the reader moves on and has read the *)
(* values.                                                                 *)
LEMMA TakeReads ==
    ASSUME NEW r, NEW payload, NEW at, NEW N, NEW l, NEW v, NEW F, NEW u, NEW end, NEW G,
           BeforeTake(r, payload, at, N, l, v, F, u, end, G), NEW checks
    PROVE  /\ Reads(Take(r, l, checks), payload, end, G, v)
           /\ r.why = "Ok" /\ end <= Len(payload) /\ Passes(checks, l, v) =>
                 Take(r, l, checks).why = "Ok"
<1>. /\ payload \in Seq(Item) /\ at \in Nat /\ l \in Seq(Pairs(N))
     /\ \A f \in FieldNames(l) : v[f] \in Nat
     /\ Along(payload, at, Written(l, v)) /\ Reads(r, payload, at, F, u)
     /\ \A f \in F \ FieldNames(l) : u[f] = v[f]
     /\ end = at + Len(l) /\ G = F \cup FieldNames(l)
  BY DEF BeforeTake
<1>. DEFINE fits == Fits(r.rest, l)
            read == ReadFields(r, l)
            bad  == Failed(read, checks)
            q    == Take(r, l, checks)
            place(f) == CHOOSE i \in DOMAIN l : l[i][1] = f
<1>1. PICK n \in Nat : Len(l) = n /\ DOMAIN l = 1 .. n  OBVIOUS
<1>2. q = IF r.why # "Ok" THEN r
          ELSE IF ~ fits THEN [r EXCEPT !.why = "WireMalformedFrame"]
          ELSE [rest |-> SubSeq(r.rest, Len(l) + 1, Len(r.rest)), read |-> read,
                why |-> IF bad = {} THEN "Ok" ELSE checks[Min(bad)][3]]
  BY DEF Take
<1>3. read = [f \in FieldNames(l) \cup DOMAIN r.read |->
                IF f \in FieldNames(l) THEN r.rest[place(f)].value ELSE r.read[f]]
  BY DEF ReadFields
<1>4. CASE r.why # "Ok"  BY <1>2, <1>4 DEF Reads
<1>5. CASE r.why = "Ok"
  <2>1. /\ at <= Len(payload) /\ r.rest = SubSeq(payload, at + 1, Len(payload))
        /\ r.read = [f \in F |-> u[f]]
    BY <1>5 DEF Reads
  <2>2. PICK k \in Nat : k = Len(payload)  OBVIOUS
  <2>3. /\ r.rest \in Seq(Item) /\ Len(r.rest) = k - at
        /\ \A i \in 1 .. k - at : r.rest[i] = payload[at + i]
    BY <2>1, <2>2
  <2>4. \A i \in 1 .. n : i <= k - at =>
            r.rest[i].width = l[i][2] /\ r.rest[i].value = v[l[i][1]]
    <3>. SUFFICES ASSUME NEW i \in 1 .. n, i <= k - at
                  PROVE  r.rest[i].width = l[i][2] /\ r.rest[i].value = v[l[i][1]]
      OBVIOUS
    <3>1. i \in 1 .. k - at /\ at + i <= k  BY <2>1, <2>2
    <3>2. PICK w : w = Written(l, v)  OBVIOUS
    <3>3. Len(w) = n /\ w[i].width = l[i][2] /\ w[i].value = v[l[i][1]]  BY <1>1, <3>2, WrittenIs
    <3>4. payload[at + i] = w[i]  BY <2>2, <3>1, <3>2, <3>3 DEF Along
    <3>. QED  BY <2>3, <3>1, <3>3, <3>4
  <2>5. fits <=> n <= k - at
    <3>1. k - at \in Nat  BY <2>1, <2>2
    <3>. QED  BY <1>1, <2>3, <2>4, <3>1 DEF Fits
  <2>6. fits => read = [f \in G |-> v[f]]
    <3>. SUFFICES ASSUME fits PROVE read = [f \in G |-> v[f]]  OBVIOUS
    <3>1. FieldNames(l) \cup DOMAIN r.read = G  BY <2>1
    <3>2. ASSUME NEW f \in FieldNames(l) PROVE r.rest[place(f)].value = v[f]
      <4>1. \E i \in DOMAIN l : l[i][1] = f  BY DEF FieldNames
      <4>2. place(f) \in 1 .. n /\ l[place(f)][1] = f  BY <1>1, <4>1
      <4>. HIDE DEF place
      <4>3. place(f) <= k - at  BY <1>1, <2>1, <2>2, <2>5, <4>2
      <4>. QED  BY <2>4, <4>2, <4>3
    <3>3. ASSUME NEW f \in G, f \notin FieldNames(l) PROVE r.read[f] = v[f]
      <4>1. f \in F \ FieldNames(l)  BY <3>3
      <4>. QED  BY <2>1, <4>1
    <3>. HIDE DEF read, place
    <3>. QED  BY <1>3, <3>1, <3>2, <3>3
  <2>7. fits => SubSeq(r.rest, n + 1, Len(r.rest)) = SubSeq(payload, end + 1, Len(payload)) /\ end <= Len(payload)
    <3>. SUFFICES ASSUME fits
                  PROVE  SubSeq(r.rest, n + 1, Len(r.rest)) = SubSeq(payload, end + 1, Len(payload))
                         /\ end <= Len(payload)
      OBVIOUS
    <3>1. end = at + n /\ end \in Nat /\ n <= k - at /\ end <= k  BY <1>1, <2>1, <2>2, <2>5
    <3>2. PICK x, y : x = SubSeq(r.rest, n + 1, k - at) /\ y = SubSeq(payload, end + 1, k)  OBVIOUS
    <3>4. x = y  BY <1>1, <2>1, <2>2, <3>1, <3>2, SubSeqTwice
    <3>. QED  BY <2>2, <2>3, <3>1, <3>2, <3>4
  <2>8. /\ q.why = "Ok" => fits
        /\ fits => /\ q.rest = SubSeq(r.rest, n + 1, Len(r.rest)) /\ q.read = read
                   /\ bad = {} => q.why = "Ok"
    <3>1. CASE ~ fits
      <4>. HIDE DEF fits, read, bad, q
      <4>1. q = [r EXCEPT !.why = "WireMalformedFrame"]  BY <1>2, <1>5, <3>1
      <4>2. q.why # "Ok"  BY <1>5, <4>1
      <4>. QED  BY <3>1, <4>2
    <3>2. CASE fits
      <4>. HIDE DEF fits, read, bad, q
      <4>1. q = [rest |-> SubSeq(r.rest, n + 1, Len(r.rest)), read |-> read,
                 why |-> IF bad = {} THEN "Ok" ELSE checks[Min(bad)][3]]
        BY <1>1, <1>2, <1>5, <3>2
      <4>. QED  BY <3>2, <4>1
    <3>. QED  BY <3>1, <3>2
  <2>9. fits /\ Passes(checks, l, v) => bad = {}
    <3>. SUFFICES ASSUME fits, Passes(checks, l, v), NEW c \in DOMAIN checks
                  PROVE  read[checks[c][1]] \in checks[c][2]
      BY DEF Failed
    <3>1. checks[c][1] \in FieldNames(l) /\ v[checks[c][1]] \in checks[c][2]  BY DEF Passes
    <3>2. checks[c][1] \in G  BY <3>1
    <3>. HIDE DEF read, fits
    <3>. QED  BY <2>6, <3>1, <3>2
  <2>10. end <= Len(payload) => fits
    <3>. HIDE DEF fits
    <3>. QED  BY <1>1, <2>1, <2>2, <2>5
  <2>. HIDE DEF fits, read, bad, q
  <2>11. Reads(q, payload, end, G, v)  BY <2>6, <2>7, <2>8 DEF Reads
  <2>12. end <= Len(payload) /\ Passes(checks, l, v) => q.why = "Ok"  BY <2>8, <2>9, <2>10
  <2>. QED  BY <2>11, <2>12 DEF q
<1>. QED  BY <1>4, <1>5

(* Elements one after the other: the places where each of them begins. *)
Places(p, payload, at, parts, n) ==
    /\ p[0] = at
    /\ \A k \in 0 .. n : p[k] \in Nat
    /\ \A k \in 1 .. n : p[k] = p[k - 1] + Len(parts[k]) /\ Along(payload, p[k - 1], parts[k])

(* A payload that holds all of them holds each at its place. *)
LEMMA AlongParts ==
    ASSUME NEW payload \in Seq(Item), NEW at \in Nat, NEW parts \in Seq(Seq(Item)), NEW n \in Nat,
           Len(parts) = n, Along(payload, at, FlattenSeq(parts))
    PROVE  /\ FlattenSeq(parts) \in Seq(Item)
           /\ \E p : Places(p, payload, at, parts, n) /\ p[n] = at + Len(FlattenSeq(parts))
<1>0. \A i \in 1 .. n : parts[i] \in Seq(Item)  OBVIOUS
<1>1. CASE n = 0
  <2>1. parts = <<>> /\ FlattenSeq(parts) = <<>>  BY <1>1 DEF FlattenSeq
  <2>2. Len(<<>>) = 0 /\ <<>> \in Seq(Item)  OBVIOUS
  <2>. DEFINE p == [k \in {0} |-> at]
  <2>3. Places(p, payload, at, parts, n) /\ p[n] = at + 0  BY <1>1 DEF Places
  <2>. QED  BY <2>1, <2>2, <2>3
<1>2. CASE n # 0
  <2>0. n \in Nat \ {0}  BY <1>2
  <2>1. PICK f : FlattenSeq(parts) = f[n] /\ FlattenSteps(f, parts, n)  BY <2>0, FlattenRun
  <2>. DEFINE p == [k \in 0 .. n |-> IF k = 0 THEN at ELSE at + Len(f[k])]
              S == {k \in 0 .. n : k # 0 /\ f[k] \notin Seq(Item)}
  <2>2. ASSUME NEW k \in 1 .. n, k - 1 \notin S PROVE k \notin S
    <3>1. CASE k = 1  BY <1>0, <2>1, <3>1 DEF FlattenSteps
    <3>2. CASE k # 1
      <4>1. k - 1 \in 1 .. n /\ k \in 2 .. n  BY <3>2
      <4>2. f[k] = f[k - 1] \o parts[k]  BY <2>1, <4>1 DEF FlattenSteps
      <4>3. k - 1 \in 0 .. n /\ k - 1 # 0  BY <4>1
      <4>4. f[k - 1] \in Seq(Item)  BY <2>2, <4>3
      <4>5. f[k] \in Seq(Item)  BY <1>0, <4>2, <4>4
      <4>. QED  BY <4>5
    <3>. QED  BY <3>1, <3>2
  <2>3. S = {}
    <3>1. S \in SUBSET (0 .. n) /\ 0 \notin S  OBVIOUS
    <3>. HIDE DEF S
    <3>. QED  BY <2>2, <3>1, NoFailure
  <2>4. \A k \in 1 .. n : f[k] \in Seq(Item)  BY <2>3
  <2>. HIDE DEF S
  <2>. DEFINE R == {j \in 0 .. n : j # n /\ ~ Along(payload, at, f[n - j])}
  <2>5. R = {}
    <3>1. ASSUME NEW j \in 1 .. n, j - 1 \notin R PROVE j \notin R
      <4>1. CASE j = n  BY <4>1
      <4>2. CASE j # n
        <5>1. PICK k : k = n - j  OBVIOUS
        <5>2. k \in 1 .. n /\ k + 1 \in 2 .. n /\ (k + 1) - 1 = k /\ n - (j - 1) = k + 1 /\ j - 1 \in 0 .. n
              /\ j - 1 # n
          BY <4>2, <5>1
        <5>3. Along(payload, at, f[k + 1])  BY <3>1, <5>2
        <5>4. f[k + 1] = f[k] \o parts[k + 1]  BY <2>1, <5>2 DEF FlattenSteps
        <5>5. f[k] \in Seq(Item) /\ parts[k + 1] \in Seq(Item)  BY <1>0, <2>4, <5>2
        <5>6. Along(payload, at, f[k])  BY <5>3, <5>4, <5>5, AlongBoth
        <5>. QED  BY <5>1, <5>6
      <4>. QED  BY <4>1, <4>2
    <3>2. 0 \notin R  BY <2>1
    <3>3. R \in SUBSET (0 .. n)  OBVIOUS
    <3>. HIDE DEF R
    <3>. QED  BY <3>1, <3>2, <3>3, NoFailure
  <2>6. \A k \in 1 .. n : Along(payload, at, f[k])
    <3>. SUFFICES ASSUME NEW k \in 1 .. n PROVE Along(payload, at, f[k])  OBVIOUS
    <3>1. PICK j : j = n - k  OBVIOUS
    <3>2. j \in 0 .. n /\ j # n /\ n - j = k  BY <3>1
    <3>3. j \notin R  BY <2>5
    <3>. QED  BY <3>2, <3>3
  <2>. HIDE DEF R
  <2>7. p[0] = at /\ p[n] = at + Len(f[n])  BY <1>2
  <2>8. ASSUME NEW k \in 0 .. n PROVE p[k] \in Nat
    <3>1. CASE k = 0  BY <3>1
    <3>2. CASE k # 0
      <4>1. f[k] \in Seq(Item)  BY <2>4, <3>2
      <4>2. Len(f[k]) \in Nat  BY <4>1
      <4>. QED  BY <3>2, <4>2
    <3>. QED  BY <3>1, <3>2
  <2>9. ASSUME NEW k \in 1 .. n
        PROVE  p[k] = p[k - 1] + Len(parts[k]) /\ Along(payload, p[k - 1], parts[k])
    <3>0. parts[k] \in Seq(Item) /\ Len(parts[k]) \in Nat  BY <1>0
    <3>1. CASE k = 1
      <4>1. f[1] = parts[1]  BY <2>1 DEF FlattenSteps
      <4>2. p[k] = at + Len(parts[k]) /\ p[k - 1] = at
        <5>1. k \in 0 .. n /\ k - 1 \in 0 .. n /\ k # 0 /\ k - 1 = 0  BY <3>1
        <5>. QED  BY <3>1, <4>1, <5>1
      <4>3. Along(payload, at, parts[k])  BY <2>6, <3>1, <4>1
      <4>. QED  BY <4>2, <4>3
    <3>2. CASE k # 1
      <4>1. k - 1 \in 1 .. n /\ k \in 2 .. n /\ k - 1 # 0 /\ k # 0 /\ k - 1 \in 0 .. n  BY <3>2
      <4>2. f[k] = f[k - 1] \o parts[k] /\ f[k - 1] \in Seq(Item) /\ Along(payload, at, f[k])
        BY <2>1, <2>4, <2>6, <4>1 DEF FlattenSteps
      <4>3. PICK x, y : x = f[k - 1] /\ y = parts[k]  OBVIOUS
      <4>4. x \in Seq(Item) /\ y \in Seq(Item) /\ Along(payload, at, x \o y)  BY <3>0, <4>2, <4>3
      <4>5. Along(payload, at + Len(x), y)  BY <4>4, AlongBoth
      <4>6. Len(x \o y) = Len(x) + Len(y) /\ Len(x) \in Nat /\ Len(y) \in Nat  BY <4>4
      <4>7. p[k] = at + Len(x \o y) /\ p[k - 1] = at + Len(x)
        <5>1. p[k] = at + Len(f[k]) /\ p[k - 1] = at + Len(f[k - 1])  BY <4>1
        <5>. HIDE DEF p
        <5>. QED  BY <4>2, <4>3, <5>1
      <4>. HIDE DEF p
      <4>8. p[k] = p[k - 1] + Len(y)  BY <4>6, <4>7
      <4>. QED  BY <4>3, <4>5, <4>7, <4>8
    <3>. QED  BY <3>1, <3>2
  <2>. HIDE DEF p
  <2>10. Places(p, payload, at, parts, n)  BY <2>7, <2>8, <2>9 DEF Places
  <2>11. f[n] \in Seq(Item)  BY <2>0, <2>4
  <2>. QED  BY <2>1, <2>7, <2>10, <2>11
<1>. QED  BY <1>1, <1>2

(* No place is after the last. *)
LEMMA PlacesGrow ==
    ASSUME NEW payload, NEW at, NEW parts \in Seq(Seq(Item)), NEW n \in Nat, Len(parts) = n,
           NEW p, Places(p, payload, at, parts, n)
    PROVE  \A k \in 0 .. n : p[k] <= p[n]
<1>0. /\ \A k \in 0 .. n : p[k] \in Nat
      /\ \A k \in 1 .. n : p[k] = p[k - 1] + Len(parts[k]) /\ Len(parts[k]) \in Nat
  BY DEF Places
<1>. DEFINE S == {j \in 0 .. n : ~ p[n - j] <= p[n]}
<1>1. 0 \notin S  BY <1>0
<1>2. ASSUME NEW j \in 1 .. n, j - 1 \notin S PROVE j \notin S
  <2>1. PICK k : k = n - j + 1  OBVIOUS
  <2>2. k \in 1 .. n /\ k - 1 \in 0 .. n /\ k \in 0 .. n /\ j - 1 \in 0 .. n /\ n - (j - 1) = k /\ n - j = k - 1
        /\ n \in 0 .. n
    BY <2>1
  <2>3. p[k] <= p[n]  BY <1>2, <2>2
  <2>4. p[k - 1] <= p[k]  BY <1>0, <2>2
  <2>5. p[k - 1] <= p[n]  BY <1>0, <2>2, <2>3, <2>4
  <2>. QED  BY <2>2, <2>5
<1>3. S = {}
  <2>1. S \in SUBSET (0 .. n)  OBVIOUS
  <2>. HIDE DEF S
  <2>. QED  BY <1>1, <1>2, <2>1, NoFailure
<1>. SUFFICES ASSUME NEW k \in 0 .. n PROVE p[k] <= p[n]  OBVIOUS
<1>4. PICK j : j = n - k  OBVIOUS
<1>5. j \in 0 .. n /\ n - j = k  BY <1>4
<1>6. j \notin S  BY <1>3
<1>. QED  BY <1>5, <1>6

(* Repeat, one element at a time. *)
RepeatSteps(a, r, name, n) ==
    /\ a[0] = [r EXCEPT !.read = With(@, name, <<>>)]
    /\ \A k \in 1 .. n : a[k] = ReadNext(a[k - 1], name)

(* What Repeat returns is the end of such a run. *)
LEMMA RepeatRun ==
    ASSUME NEW r, NEW name, NEW n \in Nat, r.why = "Ok", r.read["count"] = n
    PROVE  \E a : RepeatSteps(a, r, name, n) /\ Repeat(r, name) = a[n]
<1>. DEFINE first == [r EXCEPT !.read = With(@, name, <<>>)]
            Built(a, m) == a = [i \in 0 .. m |-> IF i = 0 THEN first ELSE ReadNext(a[i - 1], name)]
            S == {m \in 0 .. n : ~ \E a : Built(a, m)}
<1>1. 0 \notin S
  <2>. DEFINE g == [i \in 0 .. 0 |-> first]
  <2>. HIDE DEF first
  <2>1. Built(g, 0)  OBVIOUS
  <2>. QED  BY <2>1
<1>2. ASSUME NEW k \in 1 .. n, k - 1 \notin S PROVE k \notin S
  <2>. HIDE DEF first
  <2>0. k - 1 \in 0 .. n /\ \E a : Built(a, k - 1)
    <3>. HIDE DEF Built
    <3>. QED  BY <1>2
  <2>1. PICK a : Built(a, k - 1)  BY <2>0
  <2>. DEFINE g == [i \in 0 .. k |-> IF i = k THEN ReadNext(a[i - 1], name) ELSE a[i]]
  <2>2. Built(g, k)
    <3>1. \A i \in 0 .. k - 1 : g[i] = a[i]  OBVIOUS
    <3>2. ASSUME NEW i \in 0 .. k
          PROVE  g[i] = IF i = 0 THEN first ELSE ReadNext(g[i - 1], name)
      <4>1. CASE i = k
        <5>1. k - 1 \in 0 .. k - 1 /\ k # 0  OBVIOUS
        <5>2. g[k] = ReadNext(a[k - 1], name) /\ g[k - 1] = a[k - 1]  BY <3>1, <5>1
        <5>. HIDE DEF g
        <5>. QED  BY <4>1, <5>1, <5>2
      <4>2. CASE i # k
        <5>1. i \in 0 .. k - 1  BY <4>2
        <5>2. a[i] = IF i = 0 THEN first ELSE ReadNext(a[i - 1], name)  BY <2>1, <5>1
        <5>3. i # 0 => i - 1 \in 0 .. k - 1  BY <5>1
        <5>. HIDE DEF g
        <5>. QED  BY <3>1, <5>1, <5>2, <5>3
      <4>. QED  BY <4>1, <4>2
    <3>. QED  BY <3>2
  <2>. QED  BY <2>2
<1>3. S = {}
  <2>1. S \in SUBSET (0 .. n)  OBVIOUS
  <2>. HIDE DEF S
  <2>. QED  BY <1>1, <1>2, <2>1, NoFailure
<1>4. \E a : Built(a, n)
  <2>. HIDE DEF Built
  <2>1. n \in 0 .. n  OBVIOUS
  <2>2. n \notin S  BY <1>3 DEF S
  <2>. QED  BY <2>1, <2>2
<1>. DEFINE A == CHOOSE a : Built(a, n)
<1>5. Built(A, n)  BY <1>4
<1>6. Repeat(r, name) = A[n]  BY DEF Repeat
<1>. HIDE DEF A, first
<1>7. A[0] = first  BY <1>5
<1>8. ASSUME NEW k \in 1 .. n PROVE A[k] = ReadNext(A[k - 1], name)
  <2>1. k \in 0 .. n /\ k # 0  OBVIOUS
  <2>. QED  BY <1>5, <2>1
<1>. QED  BY <1>6, <1>7, <1>8 DEF RepeatSteps, first

(* Reading an element whose values are part gives x, if it does not fail. *)
ElementReads(payload, name, part, x) ==
    \A at \in 0 .. Len(payload) :
        LET e == ReadElement(name, Reader(SubSeq(payload, at + 1, Len(payload))))
        IN  Along(payload, at, part) /\ e.why = "Ok" =>
                /\ at + Len(part) <= Len(payload)
                /\ e.rest = SubSeq(payload, at + Len(part) + 1, Len(payload))
                /\ e.read = x

(* And it does not fail if it is all there. *)
ElementPasses(payload, name, part) ==
    \A at \in 0 .. Len(payload) :
        Along(payload, at, part) /\ at + Len(part) <= Len(payload) =>
            ReadElement(name, Reader(SubSeq(payload, at + 1, Len(payload)))).why = "Ok"

(* What is known after some of the elements. *)
Partly(u, name, xs, k, G) == [f \in G |-> IF f = name THEN SubSeq(xs, 1, k) ELSE u[f]]

(* A reader before element k. *)
BeforeNext(q, payload, at, part, name, X, xs, k, x, G, u, w, z, end) ==
    /\ payload \in Seq(Item) /\ at \in Nat /\ part \in Seq(Item) /\ name \in G
    /\ xs \in Seq(X) /\ k \in 1 .. Len(xs) /\ x = xs[k] /\ end = at + Len(part)
    /\ w = Partly(u, name, xs, k - 1, G) /\ z = Partly(u, name, xs, k, G)
    /\ Along(payload, at, part) /\ ElementReads(payload, name, part, x)
    /\ Reads(q, payload, at, G, w)

(* One element more. *)
LEMMA NextReads ==
    ASSUME NEW q, NEW payload, NEW at, NEW part, NEW name, NEW X, NEW xs, NEW k, NEW x, NEW G, NEW u,
           NEW w, NEW z, NEW end, BeforeNext(q, payload, at, part, name, X, xs, k, x, G, u, w, z, end)
    PROVE  /\ Reads(ReadNext(q, name), payload, end, G, z)
           /\ q.why = "Ok" /\ ElementPasses(payload, name, part) /\ end <= Len(payload) =>
                 ReadNext(q, name).why = "Ok"
<1>. /\ payload \in Seq(Item) /\ at \in Nat /\ part \in Seq(Item) /\ name \in G
     /\ xs \in Seq(X) /\ k \in 1 .. Len(xs) /\ x = xs[k] /\ end = at + Len(part)
     /\ w = Partly(u, name, xs, k - 1, G) /\ z = Partly(u, name, xs, k, G)
     /\ Along(payload, at, part) /\ ElementReads(payload, name, part, x)
     /\ Reads(q, payload, at, G, w)
  BY DEF BeforeNext
<1>. DEFINE e == ReadElement(name, Reader(q.rest))
<1>1. CASE q.why # "Ok"  BY <1>1 DEF ReadNext, Reads
<1>2. CASE q.why = "Ok"
  <2>1. /\ at <= Len(payload) /\ q.rest = SubSeq(payload, at + 1, Len(payload))
        /\ q.read = [f \in G |-> w[f]]
    BY <1>2 DEF Reads
  <2>2. at \in 0 .. Len(payload)  BY <2>1
  <2>3. ReadNext(q, name) = [rest |-> e.rest, why |-> e.why,
                             read |-> With(q.read, name, Append(q.read[name], e.read))]
    BY <1>2 DEF ReadNext
  <2>4. e = ReadElement(name, Reader(SubSeq(payload, at + 1, Len(payload))))  BY <2>1
  <2>. HIDE DEF e
  <2>5. e.why = "Ok" => /\ at + Len(part) <= Len(payload)
                        /\ e.rest = SubSeq(payload, at + Len(part) + 1, Len(payload))
                        /\ e.read = xs[k]
    BY <2>2, <2>4 DEF ElementReads
  <2>6. ElementPasses(payload, name, part) /\ at + Len(part) <= Len(payload) => e.why = "Ok"
    BY <2>2, <2>4 DEF ElementPasses
  <2>7. q.read[name] = SubSeq(xs, 1, k - 1) /\ DOMAIN q.read = G
        /\ \A f \in G \ {name} : q.read[f] = u[f]
    BY <2>1 DEF Partly
  <2>8. Append(SubSeq(xs, 1, k - 1), xs[k]) = SubSeq(xs, 1, k)  OBVIOUS
  <2>9. e.why = "Ok" => With(q.read, name, Append(q.read[name], e.read)) = [f \in G |-> z[f]]
    <3>. SUFFICES ASSUME e.why = "Ok"
                  PROVE  With(q.read, name, Append(q.read[name], e.read)) = [f \in G |-> z[f]]
      OBVIOUS
    <3>1. PICK s : s = SubSeq(xs, 1, k)  OBVIOUS
    <3>2. Append(q.read[name], e.read) = s  BY <2>5, <2>7, <2>8, <3>1
    <3>3. With(q.read, name, s) = [f \in G |-> IF f = name THEN s ELSE u[f]]
      <4>1. G \cup {name} = G  OBVIOUS
      <4>. QED  BY <2>7, <4>1 DEF With
    <3>4. [f \in G |-> z[f]] = [f \in G |-> IF f = name THEN s ELSE u[f]]  BY <3>1 DEF Partly
    <3>. QED  BY <3>2, <3>3, <3>4
  <2>10. PICK b : b = With(q.read, name, Append(q.read[name], e.read))  OBVIOUS
  <2>11. PICK t : t = ReadNext(q, name)  OBVIOUS
  <2>12. t.rest = e.rest /\ t.why = e.why /\ t.read = b  BY <2>3, <2>10, <2>11
  <2>13. Reads(t, payload, end, G, z)  BY <2>5, <2>9, <2>10, <2>12 DEF Reads
  <2>. QED  BY <2>6, <2>11, <2>12, <2>13
<1>. QED  BY <1>1, <1>2

(* A reader before n elements. *)
BeforeRepeat(r, payload, at, parts, n, name, X, xs, F, u, v, end, G) ==
    /\ payload \in Seq(Item) /\ at \in Nat /\ parts \in Seq(Seq(Item)) /\ n \in Nat
    /\ Len(parts) = n /\ xs \in Seq(X) /\ Len(xs) = n
    /\ Along(payload, at, FlattenSeq(parts)) /\ Reads(r, payload, at, F, u)
    /\ \A i \in 1 .. n : ElementReads(payload, name, parts[i], xs[i])
    /\ "count" \in F /\ u["count"] = n /\ v[name] = xs
    /\ \A f \in F \ {name} : u[f] = v[f]
    /\ end = at + Len(FlattenSeq(parts)) /\ G = F \cup {name}

(* All the elements. *)
LEMMA RepeatReads ==
    ASSUME NEW r, NEW payload, NEW at, NEW parts, NEW n, NEW name, NEW X, NEW xs, NEW F, NEW u,
           NEW v, NEW end, NEW G,
           BeforeRepeat(r, payload, at, parts, n, name, X, xs, F, u, v, end, G)
    PROVE  /\ Reads(Repeat(r, name), payload, end, G, v)
           /\ /\ r.why = "Ok" /\ end <= Len(payload)
              /\ \A i \in 1 .. n : ElementPasses(payload, name, parts[i])
              => Repeat(r, name).why = "Ok"
<1>. /\ payload \in Seq(Item) /\ at \in Nat /\ parts \in Seq(Seq(Item)) /\ n \in Nat
     /\ Len(parts) = n /\ xs \in Seq(X) /\ Len(xs) = n
     /\ Along(payload, at, FlattenSeq(parts)) /\ Reads(r, payload, at, F, u)
     /\ \A i \in 1 .. n : ElementReads(payload, name, parts[i], xs[i])
     /\ "count" \in F /\ u["count"] = n /\ v[name] = xs
     /\ \A f \in F \ {name} : u[f] = v[f]
     /\ end = at + Len(FlattenSeq(parts)) /\ G = F \cup {name}
  BY DEF BeforeRepeat
<1>1. CASE r.why # "Ok"  BY <1>1 DEF Repeat, Reads
<1>2. CASE r.why = "Ok"
  <2>1. /\ at <= Len(payload) /\ r.rest = SubSeq(payload, at + 1, Len(payload))
        /\ r.read = [f \in F |-> u[f]]
    BY <1>2 DEF Reads
  <2>2. PICK p : Places(p, payload, at, parts, n) /\ p[n] = end
    <3>1. PICK c : c = Len(FlattenSeq(parts))  OBVIOUS
    <3>2. \E p : Places(p, payload, at, parts, n) /\ p[n] = at + c  BY <3>1, AlongParts
    <3>. QED  BY <3>1, <3>2
  <2>3. /\ p[0] = at /\ \A k \in 0 .. n : p[k] \in Nat
        /\ \A k \in 1 .. n : p[k] = p[k - 1] + Len(parts[k]) /\ Along(payload, p[k - 1], parts[k])
    BY <2>2 DEF Places
  <2>4. \A k \in 0 .. n : p[k] <= end
    <3>1. parts \in Seq(Seq(Item)) /\ n \in Nat /\ Len(parts) = n /\ Places(p, payload, at, parts, n)
      BY <2>2
    <3>2. \A k \in 0 .. n : p[k] <= p[n]  BY <3>1, PlacesGrow, Zenon
    <3>. QED  BY <2>2, <3>2
  <2>5. r.read["count"] = n  BY <2>1
  <2>6. PICK a : RepeatSteps(a, r, name, n) /\ Repeat(r, name) = a[n]
    <3>1. PICK c \in Nat : c = n  OBVIOUS
    <3>2. r.why = "Ok" /\ r.read["count"] = c  BY <1>2, <2>5, <3>1
    <3>3. \E a : RepeatSteps(a, r, name, c) /\ Repeat(r, name) = a[c]  BY <3>2, RepeatRun
    <3>. QED  BY <3>1, <3>3
  <2>. DEFINE all == end <= Len(payload) /\ \A i \in 1 .. n : ElementPasses(payload, name, parts[i])
              Good(k) == /\ Reads(a[k], payload, p[k], G, Partly(u, name, xs, k, G))
                         /\ all => a[k].why = "Ok"
              S == {k \in 0 .. n : ~ Good(k)}
  <2>7. Good(0)
    <3>1. PICK b : b = With(r.read, name, <<>>)  OBVIOUS
    <3>2. a[0].why = "Ok" /\ a[0].rest = r.rest
      BY <1>2, <2>6 DEF RepeatSteps
    <3>3. a[0].read = b
      BY <2>6, <3>1 DEF RepeatSteps
    <3>4. PICK e : e = <<>>  OBVIOUS
    <3>5. SubSeq(xs, 1, 0) = e  BY <3>4
    <3>6. b = [f \in G |-> IF f = name THEN e ELSE u[f]]
      <4>1. DOMAIN r.read = F /\ \A f \in F : r.read[f] = u[f]  BY <2>1
      <4>. QED  BY <3>1, <3>4, <4>1 DEF With
    <3>7. b = [f \in G |-> Partly(u, name, xs, 0, G)[f]]  BY <3>5, <3>6 DEF Partly
    <3>8. Reads(a[0], payload, p[0], G, Partly(u, name, xs, 0, G))
      <4>1. PICK z : z = Partly(u, name, xs, 0, G)  OBVIOUS
      <4>. QED  BY <2>1, <2>3, <3>2, <3>3, <3>7, <4>1 DEF Reads
    <3>. QED  BY <3>2, <3>8
  <2>8. ASSUME NEW k \in 1 .. n, k - 1 \notin S PROVE k \notin S
    <3>. HIDE DEF all
    <3>1. k - 1 \in 0 .. n /\ k \in 0 .. n /\ k \in 1 .. Len(xs)  OBVIOUS
    <3>2. Reads(a[k - 1], payload, p[k - 1], G, Partly(u, name, xs, k - 1, G))
          /\ (all => a[k - 1].why = "Ok")
      BY <2>8, <3>1
    <3>3. /\ p[k - 1] \in Nat /\ parts[k] \in Seq(Item) /\ Along(payload, p[k - 1], parts[k])
          /\ p[k] = p[k - 1] + Len(parts[k]) /\ a[k] = ReadNext(a[k - 1], name)
          /\ ElementReads(payload, name, parts[k], xs[k]) /\ p[k] <= end
      BY <2>3, <2>4, <2>6, <3>1 DEF RepeatSteps
    <3>4. PICK q, here, there, part, x, w, z :
              /\ q = a[k - 1] /\ here = p[k - 1] /\ there = p[k] /\ part = parts[k] /\ x = xs[k]
              /\ w = Partly(u, name, xs, k - 1, G) /\ z = Partly(u, name, xs, k, G)
      OBVIOUS
    <3>5. /\ here \in Nat /\ part \in Seq(Item) /\ name \in G /\ there = here + Len(part)
          /\ Along(payload, here, part) /\ ElementReads(payload, name, part, x)
          /\ Reads(q, payload, here, G, w)
      BY <3>2, <3>3, <3>4
    <3>6. /\ Reads(ReadNext(q, name), payload, there, G, z)
          /\ q.why = "Ok" /\ ElementPasses(payload, name, part) /\ there <= Len(payload) =>
                ReadNext(q, name).why = "Ok"
      <4>1. BeforeNext(q, payload, here, part, name, X, xs, k, x, G, u, w, z, there)
        BY <3>1, <3>4, <3>5 DEF BeforeNext
      <4>. QED  BY <4>1, NextReads
    <3>7. Reads(a[k], payload, p[k], G, Partly(u, name, xs, k, G))  BY <3>3, <3>4, <3>6
    <3>8. ASSUME all PROVE a[k].why = "Ok"
      <4>1. end <= Len(payload) /\ ElementPasses(payload, name, parts[k])  BY <3>8 DEF all
      <4>2. p[k] \in Nat /\ end \in Nat /\ Len(payload) \in Nat  BY <2>2, <2>3, <3>1
      <4>3. p[k] <= Len(payload)  BY <3>3, <4>1, <4>2
      <4>4. there <= Len(payload)  BY <3>4, <4>3
      <4>. QED  BY <3>2, <3>3, <3>4, <3>6, <3>8, <4>1, <4>4
    <3>. QED  BY <3>7, <3>8
  <2>9. S = {}
    <3>1. S \in SUBSET (0 .. n)  OBVIOUS
    <3>2. 0 \notin S  BY <2>7
    <3>. HIDE DEF S
    <3>. QED  BY <2>8, <3>1, <3>2, NoFailure
  <2>10. Good(n)
    <3>1. n \in 0 .. n  OBVIOUS
    <3>. HIDE DEF Good
    <3>. QED  BY <2>9, <3>1
  <2>11. [f \in G |-> Partly(u, name, xs, n, G)[f]] = [f \in G |-> v[f]]
    <3>1. SubSeq(xs, 1, n) = xs  OBVIOUS
    <3>2. \A f \in G : Partly(u, name, xs, n, G)[f] = v[f]  BY <3>1 DEF Partly
    <3>. QED  BY <3>2
  <2>12. Reads(Repeat(r, name), payload, end, G, v)
    <3>. HIDE DEF all
    <3>1. PICK z, q : z = Partly(u, name, xs, n, G) /\ q = Repeat(r, name)  OBVIOUS
    <3>2. Reads(q, payload, end, G, z)  BY <2>2, <2>6, <2>10, <3>1
    <3>. QED  BY <2>11, <3>1, <3>2 DEF Reads
  <2>. QED  BY <2>6, <2>10, <2>12
<1>. QED  BY <1>1, <1>2

(* The same values are written the same. *)
LEMMA WrittenSame ==
    ASSUME NEW N, NEW l \in Seq(Pairs(N)), NEW u, NEW v, \A f \in FieldNames(l) : u[f] = v[f]
    PROVE  Written(l, u) = Written(l, v)
<1>1. \A i \in DOMAIN l : u[l[i][1]] = v[l[i][1]]  BY DEF FieldNames
<1>. QED  BY <1>1 DEF Written

(* A reader at a place that has read nothing. *)
LEMMA ReaderReads ==
    ASSUME NEW payload, NEW at, at <= Len(payload), NEW v
    PROVE  /\ Reads(Reader(SubSeq(payload, at + 1, Len(payload))), payload, at, {}, v)
           /\ Reader(SubSeq(payload, at + 1, Len(payload))).why = "Ok"
<1>1. [f \in {} |-> 0] = [f \in {} |-> v[f]]  OBVIOUS
<1>. QED  BY <1>1 DEF Reads, Reader

(* An element that is one layout. *)
LEMMA FlatElement ==
    ASSUME NEW payload \in Seq(Item), NEW N, NEW l \in Seq(Pairs(N)), NEW x, NEW name, NEW checks,
           \A f \in FieldNames(l) : x[f] \in Nat, x = [f \in FieldNames(l) |-> x[f]],
           \A r : ReadElement(name, r) = Take(r, l, checks), Passes(checks, l, x)
    PROVE  /\ ElementReads(payload, name, Written(l, x), x)
           /\ ElementPasses(payload, name, Written(l, x))
<1>1. PICK w : w = Written(l, x)  OBVIOUS
<1>2. PICK n \in Nat : Len(l) = n /\ Len(w) = n  BY <1>1, WrittenIs
<1>3. ASSUME NEW at \in 0 .. Len(payload), Along(payload, at, w),
             NEW e, e = ReadElement(name, Reader(SubSeq(payload, at + 1, Len(payload))))
      PROVE  /\ e.why = "Ok" => /\ at + n <= Len(payload)
                                /\ e.rest = SubSeq(payload, at + n + 1, Len(payload)) /\ e.read = x
             /\ at + n <= Len(payload) => e.why = "Ok"
  <2>1. PICK r : r = Reader(SubSeq(payload, at + 1, Len(payload)))  OBVIOUS
  <2>2. Reads(r, payload, at, {}, x) /\ r.why = "Ok"  BY <2>1, ReaderReads
  <2>3. PICK end, G, F : end = at + n /\ G = FieldNames(l) /\ F = {}  OBVIOUS
  <2>4. BeforeTake(r, payload, at, N, l, x, F, x, end, G)
    BY <1>1, <1>2, <1>3, <2>2, <2>3 DEF BeforeTake
  <2>5. /\ Reads(Take(r, l, checks), payload, end, G, x)
        /\ r.why = "Ok" /\ end <= Len(payload) /\ Passes(checks, l, x) => Take(r, l, checks).why = "Ok"
    BY <2>4, TakeReads
  <2>6. e = Take(r, l, checks)  BY <1>3, <2>1
  <2>. QED  BY <2>2, <2>3, <2>5, <2>6 DEF Reads
<1>4. ElementReads(payload, name, w, x)  BY <1>2, <1>3 DEF ElementReads
<1>5. ElementPasses(payload, name, w)  BY <1>2, <1>3 DEF ElementPasses
<1>. QED  BY <1>1, <1>4, <1>5

ReasonLayout == << <<"code", 2>>, <<"index", 4>>, <<"detail", 8>> >>

(* A reason of a response. *)
LEMMA ReasonReads ==
    ASSUME NEW payload \in Seq(Item), NEW x \in SentReason
    PROVE  /\ encode_reason(x) \in Seq(Item)
           /\ ElementReads(payload, "reasons", encode_reason(x), x)
           /\ ElementPasses(payload, "reasons", encode_reason(x))
<1>. DEFINE N == {"code", "index", "detail"}
<1>0. PICK l, name, checks : l = ReasonLayout /\ name = "reasons" /\ checks = <<>>  OBVIOUS
<1>1. l \in Seq(Pairs(N)) /\ FieldNames(l) = N
  BY <1>0 DEF ReasonLayout, Pairs, FieldNames
<1>2. (\A f \in N : x[f] \in Nat) /\ x = [f \in N |-> x[f]]  BY DEF SentReason
<1>3. \A r : ReadElement(name, r) = Take(r, l, checks)
  BY <1>0 DEF ReadElement, decode_reason, ReasonLayout
<1>4. Passes(checks, l, x)  BY <1>0 DEF Passes
<1>5. encode_reason(x) = Written(l, x)  BY <1>0 DEF encode_reason, ReasonLayout
<1>. HIDE DEF N
<1>6. Written(l, x) \in Seq(Item)  BY <1>1, <1>2, WrittenIs
<1>7. /\ ElementReads(payload, name, Written(l, x), x)
      /\ ElementPasses(payload, name, Written(l, x))
  BY <1>1, <1>2, <1>3, <1>4, FlatElement
<1>. QED  BY <1>0, <1>5, <1>6, <1>7

SummaryLayout ==
    U64(<<"list", "generation">>) \o Fields(1, <<"state", "currentness">>)
    \o U64(<<"profile", "profile_generation", "digest_hi", "digest_lo">>)
    \o Fields(4, <<"segment_count">>) \o U64(<<"epoch">>)

SummaryNames ==
    {"list", "generation", "state", "currentness", "profile", "profile_generation", "digest_hi",
     "digest_lo", "segment_count", "epoch"}

(* Its fields. *)
LEMMA SummaryLayoutIs == SummaryLayout \in Seq(Pairs(SummaryNames)) /\ FieldNames(SummaryLayout) = SummaryNames
<1>. DEFINE N == SummaryNames
<1>1. PICK a1, a2, a3, a4, a5 :
          /\ a1 = <<"list", "generation">> /\ a2 = <<"state", "currentness">>
          /\ a3 = <<"profile", "profile_generation", "digest_hi", "digest_lo">>
          /\ a4 = <<"segment_count">> /\ a5 = <<"epoch">>
  OBVIOUS
<1>2. a1 \in Seq(N) /\ ToSet(a1) = {"list", "generation"}
  BY <1>1 DEF SummaryNames, ToSet
<1>3. a2 \in Seq(N) /\ ToSet(a2) = {"state", "currentness"}
  BY <1>1 DEF SummaryNames, ToSet
<1>4. a3 \in Seq(N)
      /\ ToSet(a3) = {"profile", "profile_generation", "digest_hi", "digest_lo"}
  BY <1>1 DEF SummaryNames, ToSet
<1>5. a4 \in Seq(N) /\ ToSet(a4) = {"segment_count"}
  BY <1>1 DEF SummaryNames, ToSet
<1>6. a5 \in Seq(N) /\ ToSet(a5) = {"epoch"}
  BY <1>1 DEF SummaryNames, ToSet
<1>. HIDE DEF N
<1>7. PICK l1, l2, l3, l4, l5 : /\ l1 = Fields(8, a1) /\ l2 = Fields(1, a2) /\ l3 = Fields(8, a3)
                                /\ l4 = Fields(4, a4) /\ l5 = Fields(8, a5)
  OBVIOUS
<1>8. /\ l1 \in Seq(Pairs(N)) /\ FieldNames(l1) = {"list", "generation"}
      /\ l2 \in Seq(Pairs(N)) /\ FieldNames(l2) = {"state", "currentness"}
  BY <1>2, <1>3, <1>7, LayoutIs
<1>9. /\ l3 \in Seq(Pairs(N))
      /\ FieldNames(l3) = {"profile", "profile_generation", "digest_hi", "digest_lo"}
  BY <1>4, <1>7, LayoutIs
<1>10. /\ l4 \in Seq(Pairs(N)) /\ FieldNames(l4) = {"segment_count"}
       /\ l5 \in Seq(Pairs(N)) /\ FieldNames(l5) = {"epoch"}
  BY <1>5, <1>6, <1>7, LayoutIs
<1>11. SummaryLayout = l1 \o l2 \o l3 \o l4 \o l5  BY <1>1, <1>7 DEF SummaryLayout, U64
<1>12. PICK l12, l13, l14 : l12 = l1 \o l2 /\ l13 = l12 \o l3 /\ l14 = l13 \o l4  OBVIOUS
<1>13. l12 \in Seq(Pairs(N)) /\ FieldNames(l12) = FieldNames(l1) \cup FieldNames(l2)
  BY <1>8, <1>12, LayoutsJoin
<1>14. l13 \in Seq(Pairs(N)) /\ FieldNames(l13) = FieldNames(l12) \cup FieldNames(l3)
  <2>1. l12 \o l3 \in Seq(Pairs(N)) /\ FieldNames(l12 \o l3) = FieldNames(l12) \cup FieldNames(l3)
    BY <1>9, <1>13, LayoutsJoin
  <2>. QED  BY <1>12, <2>1
<1>15. l14 \in Seq(Pairs(N)) /\ FieldNames(l14) = FieldNames(l13) \cup FieldNames(l4)
  <2>1. l13 \o l4 \in Seq(Pairs(N)) /\ FieldNames(l13 \o l4) = FieldNames(l13) \cup FieldNames(l4)
    BY <1>10, <1>14, LayoutsJoin
  <2>. QED  BY <1>12, <2>1
<1>16. l14 \o l5 \in Seq(Pairs(N)) /\ FieldNames(l14 \o l5) = FieldNames(l14) \cup FieldNames(l5)
  BY <1>10, <1>15, LayoutsJoin
<1>17. SummaryLayout = l14 \o l5  BY <1>11, <1>12
<1>18. FieldNames(SummaryLayout) = SummaryNames
  BY <1>8, <1>9, <1>10, <1>13, <1>14, <1>15, <1>16, <1>17 DEF SummaryNames
<1>. QED  BY <1>16, <1>17, <1>18 DEF N

(* A summary of a response. *)
LEMMA SummaryReads ==
    ASSUME NEW payload \in Seq(Item), NEW x \in SentSummary
    PROVE  /\ encode_summary(x) \in Seq(Item)
           /\ ElementReads(payload, "summaries", encode_summary(x), x)
           /\ ElementPasses(payload, "summaries", encode_summary(x))
<1>0. PICK l, name, checks :
          /\ l = SummaryLayout /\ name = "summaries"
          /\ checks = <<Enumerator("state", 1 .. 9), Enumerator("currentness", 0 .. 11)>>
  OBVIOUS
<1>1. l \in Seq(Pairs(SummaryNames)) /\ FieldNames(l) = SummaryNames  BY <1>0, SummaryLayoutIs
<1>2. (\A f \in SummaryNames : x[f] \in Nat) /\ x = [f \in SummaryNames |-> x[f]]
  <2>0. x.state \in 1 .. 9 /\ x.currentness \in 0 .. 11  BY DEF SentSummary
  <2>1. x.state \in Nat /\ x.currentness \in Nat  BY <2>0
  <2>2. \A f \in SummaryNames \ {"state", "currentness"} : x[f] \in Nat  BY DEF SentSummary, SummaryNames
  <2>3. x = [f \in SummaryNames |-> x[f]]  BY DEF SentSummary, SummaryNames
  <2>. QED  BY <2>1, <2>2, <2>3
<1>3. \A r : ReadElement(name, r) = Take(r, l, checks)
  BY <1>0 DEF ReadElement, decode_summary, SummaryLayout
<1>4. Passes(checks, l, x)
  <2>1. x["state"] \in 1 .. 9 /\ x["currentness"] \in 0 .. 11  BY DEF SentSummary
  <2>2. {"state", "currentness"} \subseteq SummaryNames  BY DEF SummaryNames
  <2>3. DOMAIN checks = {1, 2} /\ checks[1] = Enumerator("state", 1 .. 9)
        /\ checks[2] = Enumerator("currentness", 0 .. 11)
    BY <1>0
  <2>4. /\ checks[1][1] = "state" /\ checks[1][2] = 1 .. 9
        /\ checks[2][1] = "currentness" /\ checks[2][2] = 0 .. 11
    BY <2>3 DEF Enumerator
  <2>. QED  BY <1>1, <2>1, <2>2, <2>3, <2>4 DEF Passes
<1>5. encode_summary(x) = Written(l, x)  BY <1>0 DEF encode_summary, SummaryLayout
<1>6. Written(l, x) \in Seq(Item)  BY <1>1, <1>2, WrittenIs
<1>7. /\ ElementReads(payload, name, Written(l, x), x)
      /\ ElementPasses(payload, name, Written(l, x))
  <2>1. /\ \A f \in FieldNames(l) : x[f] \in Nat
        /\ x = [f \in FieldNames(l) |-> x[f]]
    BY <1>1, <1>2
  <2>. QED  BY <1>1, <1>3, <1>4, <2>1, FlatElement
<1>. QED  BY <1>0, <1>5, <1>6, <1>7

(* One after the other. *)
LEMMA AlongJoin ==
    ASSUME NEW payload \in Seq(Item), NEW at \in Nat, NEW a \in Seq(Item), NEW b \in Seq(Item),
           Along(payload, at, a), Along(payload, at + Len(a), b)
    PROVE  Along(payload, at, a \o b)
<1>1. PICK k \in Nat, n \in Nat : Len(a) = k /\ Len(b) = n  OBVIOUS
<1>2. Len(a \o b) = k + n /\ \A i \in 1 .. k + n : (a \o b)[i] = IF i <= k THEN a[i] ELSE b[i - k]
  BY <1>1
<1>3. ASSUME NEW i \in 1 .. k + n, at + i <= Len(payload) PROVE payload[at + i] = (a \o b)[i]
  <2>1. CASE i <= k
    <3>1. i \in 1 .. k /\ (a \o b)[i] = a[i]  BY <1>2, <2>1
    <3>. QED  BY <1>1, <1>3, <3>1 DEF Along
  <2>2. CASE ~ (i <= k)
    <3>1. PICK j : j = i - k  OBVIOUS
    <3>2. j \in 1 .. n /\ (a \o b)[i] = b[j] /\ (at + k) + j = at + i  BY <1>2, <2>2, <3>1
    <3>3. payload[(at + k) + j] = b[j]  BY <1>1, <1>3, <3>2 DEF Along
    <3>. QED  BY <3>2, <3>3
  <2>. QED  BY <2>1, <2>2
<1>. QED  BY <1>2, <1>3 DEF Along

(* The fields of a segment, with the values that are written. *)
SegmentNames ==
    {"kind", "encoding", "id", "gen", "node", "adjacency", "endpoint", "binding", "policy",
     "policy_generation", "topology", "length"}

SegmentValues(s) ==
    [f \in SegmentNames |->
        IF f = "kind" THEN KindCode[s.kind]
        ELSE IF f = "encoding" THEN KindCode[s.encoding]
        ELSE IF f = "id" THEN s.id
        ELSE IF f = "gen" THEN s.gen
        ELSE IF f = "length" THEN Len(s.payload)
        ELSE IF f \in s.fields THEN s.ref ELSE 0]

HeadLayout == Fields(2, <<"kind", "encoding">>)
IdsLayout == U64(<<"id", "gen">>)
ReferencesLayout == U64(References)
LengthLayout == Fields(2, <<"length">>)
PayloadLayout(n) == Fields(1, [i \in 1 .. n |-> i])

(* The references. *)
LEMMA ReferencesAre ==
    /\ ToSet(References) = {"node", "adjacency", "endpoint", "binding", "policy", "policy_generation", "topology"}
    /\ ToSet(References) \subseteq SegmentNames
    /\ References \in Seq(SegmentNames) /\ Len(References) = 7
    /\ UNION {Required[k] : k \in SegmentKind} = ToSet(References)
<1>1. ToSet(References) = {"node", "adjacency", "endpoint", "binding", "policy", "policy_generation", "topology"}
  BY DEF References, ToSet
<1>2. References \in Seq(SegmentNames) /\ Len(References) = 7  BY DEF References, SegmentNames
<1>3. UNION {Required[k] : k \in SegmentKind} = ToSet(References)
  BY <1>1 DEF Required, SegmentKind
<1>4. ToSet(References) \subseteq SegmentNames  BY <1>1 DEF SegmentNames
<1>. QED  BY <1>1, <1>2, <1>3, <1>4

(* What is written of a segment, and the segment, are numbers. *)
LEMMA SegmentValuesAre ==
    ASSUME NEW s \in SentSegment
    PROVE  /\ \A f \in SegmentNames : SegmentValues(s)[f] \in Nat
           /\ SegmentValues(s)["kind"] = KindCode[s.kind] /\ SegmentValues(s)["encoding"] = KindCode[s.encoding]
           /\ SegmentValues(s)["id"] = s.id /\ SegmentValues(s)["gen"] = s.gen
           /\ SegmentValues(s)["length"] = Len(s.payload)
           /\ \A f \in ToSet(References) : SegmentValues(s)[f] = IF f \in s.fields THEN s.ref ELSE 0
<1>1. s \in SegmentType  BY DEF SentSegment
<1>2. s.id \in Nat /\ s.gen \in Nat /\ s.ref \in Nat /\ s.payload \in Seq(Nat)  BY <1>1 DEF SegmentType
<1>3. s.kind \in KindType /\ s.encoding \in KindType  BY <1>1 DEF SegmentType
<1>4. \A k \in KindType : KindCode[k] \in 0 .. 5  BY DEF KindType, SegmentKind, KindCode
<1>5. KindCode[s.kind] \in Nat /\ KindCode[s.encoding] \in Nat /\ Len(s.payload) \in Nat
  <2>1. KindCode[s.kind] \in 0 .. 5 /\ KindCode[s.encoding] \in 0 .. 5  BY <1>3, <1>4, Zenon
  <2>2. Len(s.payload) \in Nat  BY <1>2
  <2>3. 0 .. 5 \subseteq Nat  OBVIOUS
  <2>. QED  BY <2>1, <2>2, <2>3
<1>6. ASSUME NEW f \in SegmentNames PROVE SegmentValues(s)[f] \in Nat
  <2>1. SegmentValues(s)[f] = IF f = "kind" THEN KindCode[s.kind]
                              ELSE IF f = "encoding" THEN KindCode[s.encoding]
                              ELSE IF f = "id" THEN s.id
                              ELSE IF f = "gen" THEN s.gen
                              ELSE IF f = "length" THEN Len(s.payload)
                              ELSE IF f \in s.fields THEN s.ref ELSE 0
    BY DEF SegmentValues
  <2>2. PICK a, b, c, d, e, g : /\ a = KindCode[s.kind] /\ b = KindCode[s.encoding] /\ c = s.id
                                /\ d = s.gen /\ e = Len(s.payload) /\ g = s.ref
    OBVIOUS
  <2>3. {a, b, c, d, e, g, 0} \subseteq Nat  BY <1>2, <1>5, <2>2
  <2>. QED  BY <2>1, <2>2, <2>3
<1>7. {"kind", "encoding", "id", "gen", "length"} \subseteq SegmentNames  BY DEF SegmentNames
<1>8. /\ SegmentValues(s)["kind"] = KindCode[s.kind] /\ SegmentValues(s)["encoding"] = KindCode[s.encoding]
      /\ SegmentValues(s)["id"] = s.id /\ SegmentValues(s)["gen"] = s.gen
      /\ SegmentValues(s)["length"] = Len(s.payload)
  BY <1>7 DEF SegmentValues
<1>9. \A f \in ToSet(References) : SegmentValues(s)[f] = IF f \in s.fields THEN s.ref ELSE 0
  <2>. SUFFICES ASSUME NEW f \in ToSet(References)
                PROVE  SegmentValues(s)[f] = IF f \in s.fields THEN s.ref ELSE 0
    OBVIOUS
  <2>1. f \in SegmentNames /\ f \notin {"kind", "encoding", "id", "gen", "length"}  BY ReferencesAre
  <2>. QED  BY <2>1 DEF SegmentValues
<1>. QED  BY <1>6, <1>8, <1>9

(* The layouts of a segment. *)
LEMMA SegmentLayouts ==
    /\ HeadLayout \in Seq(Pairs(SegmentNames)) /\ Len(HeadLayout) = 2
    /\ FieldNames(HeadLayout) = {"kind", "encoding"}
    /\ IdsLayout \in Seq(Pairs(SegmentNames)) /\ Len(IdsLayout) = 2
    /\ FieldNames(IdsLayout) = {"id", "gen"}
    /\ ReferencesLayout \in Seq(Pairs(SegmentNames)) /\ Len(ReferencesLayout) = 7
    /\ FieldNames(ReferencesLayout) = ToSet(References)
    /\ LengthLayout \in Seq(Pairs(SegmentNames)) /\ Len(LengthLayout) = 1
    /\ FieldNames(LengthLayout) = {"length"}
    /\ \A n \in Nat : /\ PayloadLayout(n) \in Seq(Pairs(1 .. n)) /\ Len(PayloadLayout(n)) = n
                      /\ FieldNames(PayloadLayout(n)) = 1 .. n
<1>. DEFINE N == SegmentNames
<1>1. PICK a1, a2, a3 : a1 = <<"kind", "encoding">> /\ a2 = <<"id", "gen">> /\ a3 = <<"length">>  OBVIOUS
<1>2. /\ a1 \in Seq(N) /\ Len(a1) = 2 /\ ToSet(a1) = {"kind", "encoding"}
      /\ a2 \in Seq(N) /\ Len(a2) = 2 /\ ToSet(a2) = {"id", "gen"}
      /\ a3 \in Seq(N) /\ Len(a3) = 1 /\ ToSet(a3) = {"length"}
  BY <1>1 DEF SegmentNames, ToSet
<1>. HIDE DEF N
<1>3. HeadLayout = Fields(2, a1) /\ IdsLayout = Fields(8, a2) /\ LengthLayout = Fields(2, a3)
      /\ ReferencesLayout = Fields(8, References)
  BY <1>1 DEF HeadLayout, IdsLayout, LengthLayout, ReferencesLayout, U64
<1>4. /\ HeadLayout \in Seq(Pairs(N)) /\ Len(HeadLayout) = 2 /\ FieldNames(HeadLayout) = {"kind", "encoding"}
  BY <1>2, <1>3, LayoutIs
<1>5. /\ IdsLayout \in Seq(Pairs(N)) /\ Len(IdsLayout) = 2 /\ FieldNames(IdsLayout) = {"id", "gen"}
  BY <1>2, <1>3, LayoutIs
<1>6. /\ LengthLayout \in Seq(Pairs(N)) /\ Len(LengthLayout) = 1 /\ FieldNames(LengthLayout) = {"length"}
  BY <1>2, <1>3, LayoutIs
<1>7. /\ ReferencesLayout \in Seq(Pairs(N)) /\ Len(ReferencesLayout) = 7
      /\ FieldNames(ReferencesLayout) = ToSet(References)
  <2>1. References \in Seq(N) /\ Len(References) = 7  BY ReferencesAre DEF N
  <2>. QED  BY <1>3, <2>1, LayoutIs
<1>8. ASSUME NEW n \in Nat
      PROVE  /\ PayloadLayout(n) \in Seq(Pairs(1 .. n)) /\ Len(PayloadLayout(n)) = n
             /\ FieldNames(PayloadLayout(n)) = 1 .. n
  <2>1. PICK a, M : a = [i \in 1 .. n |-> i] /\ M = 1 .. n  OBVIOUS
  <2>2. a \in Seq(M) /\ Len(a) = n /\ ToSet(a) = M  BY <2>1 DEF ToSet
  <2>3. PayloadLayout(n) = Fields(1, a)  BY <2>1 DEF PayloadLayout
  <2>4. /\ Fields(1, a) \in Seq(Pairs(M)) /\ Len(Fields(1, a)) = n /\ FieldNames(Fields(1, a)) = M
    BY <2>2, LayoutIs
  <2>. QED  BY <2>1, <2>3, <2>4
<1>. QED  BY <1>4, <1>5, <1>6, <1>7, <1>8 DEF N

(* A segment is written as its layouts, one after the other. *)
LEMMA SegmentWritten ==
    ASSUME NEW s \in SentSegment, NEW v, v = SegmentValues(s)
    PROVE  /\ write_segment(s) = (((Written(HeadLayout, v) \o Written(IdsLayout, v))
                                   \o Written(ReferencesLayout, v)) \o Written(LengthLayout, v))
                                 \o Written(PayloadLayout(Len(s.payload)), s.payload)
           /\ Written(HeadLayout, v) \in Seq(Item) /\ Len(Written(HeadLayout, v)) = 2
           /\ Written(IdsLayout, v) \in Seq(Item) /\ Len(Written(IdsLayout, v)) = 2
           /\ Written(ReferencesLayout, v) \in Seq(Item) /\ Len(Written(ReferencesLayout, v)) = 7
           /\ Written(LengthLayout, v) \in Seq(Item) /\ Len(Written(LengthLayout, v)) = 1
           /\ Written(PayloadLayout(Len(s.payload)), s.payload) \in Seq(Item)
           /\ Len(Written(PayloadLayout(Len(s.payload)), s.payload)) = Len(s.payload)
<1>1. PICK N : N = SegmentNames  OBVIOUS
<1>2. s \in SegmentType  BY DEF SentSegment
<1>3. s.payload \in Seq(Nat)  BY <1>2 DEF SegmentType
<1>4. PICK n \in Nat : Len(s.payload) = n /\ DOMAIN s.payload = 1 .. n  BY <1>3
<1>5. \A i \in 1 .. n : s.payload[i] \in Nat  BY <1>3, <1>4
<1>6. \A f \in N : v[f] \in Nat  BY <1>1, SegmentValuesAre
<1>7. PICK l1, l2, l3, l4, l5 :
         /\ l1 = HeadLayout /\ l2 = IdsLayout /\ l3 = ReferencesLayout /\ l4 = LengthLayout
         /\ l5 = PayloadLayout(n)
  OBVIOUS
<1>8. /\ l1 \in Seq(Pairs(N)) /\ Len(l1) = 2 /\ FieldNames(l1) = {"kind", "encoding"}
      /\ l2 \in Seq(Pairs(N)) /\ Len(l2) = 2 /\ FieldNames(l2) = {"id", "gen"}
      /\ l3 \in Seq(Pairs(N)) /\ Len(l3) = 7 /\ FieldNames(l3) = ToSet(References)
      /\ l4 \in Seq(Pairs(N)) /\ Len(l4) = 1 /\ FieldNames(l4) = {"length"}
      /\ l5 \in Seq(Pairs(1 .. n)) /\ Len(l5) = n /\ FieldNames(l5) = 1 .. n
  BY <1>1, <1>7, SegmentLayouts
<1>9. /\ FieldNames(l1) \subseteq N /\ FieldNames(l2) \subseteq N /\ FieldNames(l3) \subseteq N
      /\ FieldNames(l4) \subseteq N
  BY <1>1, <1>8, ReferencesAre DEF SegmentNames
<1>10. /\ Written(l1, v) \in Seq(Item) /\ Len(Written(l1, v)) = 2
       /\ Written(l2, v) \in Seq(Item) /\ Len(Written(l2, v)) = 2
  <2>1. (\A f \in FieldNames(l1) : v[f] \in Nat) /\ (\A f \in FieldNames(l2) : v[f] \in Nat)
    BY <1>6, <1>9
  <2>. QED  BY <1>8, <2>1, WrittenIs
<1>11. /\ Written(l3, v) \in Seq(Item) /\ Len(Written(l3, v)) = 7
       /\ Written(l4, v) \in Seq(Item) /\ Len(Written(l4, v)) = 1
  <2>1. (\A f \in FieldNames(l3) : v[f] \in Nat) /\ (\A f \in FieldNames(l4) : v[f] \in Nat)
    BY <1>6, <1>9
  <2>. QED  BY <1>8, <2>1, WrittenIs
<1>12. Written(l5, s.payload) \in Seq(Item) /\ Len(Written(l5, s.payload)) = n
  <2>1. PICK p : p = s.payload  OBVIOUS
  <2>2. \A f \in FieldNames(l5) : p[f] \in Nat  BY <1>5, <1>8, <2>1
  <2>3. Written(l5, p) \in Seq(Item) /\ Len(Written(l5, p)) = n  BY <1>8, <2>2, WrittenIs
  <2>. QED  BY <2>1, <2>3
<1>13. PICK u1, u3, u4 :
          /\ u1 = [kind |-> KindCode[s.kind], encoding |-> KindCode[s.encoding]]
          /\ u3 = [f \in ToSet(References) |-> IF f \in s.fields THEN s.ref ELSE 0]
          /\ u4 = [length |-> Len(s.payload)]
  OBVIOUS
<1>14. write_segment(s) = Written(l1, u1) \o Written(l2, s) \o Written(l3, u3) \o Written(l4, u4)
                          \o Written(l5, s.payload)
  <2>1. [i \in DOMAIN s.payload |-> i] = [i \in 1 .. n |-> i]  BY <1>4
  <2>2. l5 = Fields(1, [i \in DOMAIN s.payload |-> i])  BY <1>7, <2>1 DEF PayloadLayout
  <2>. QED  BY <1>7, <1>13, <2>2
            DEF write_segment, HeadLayout, IdsLayout, ReferencesLayout, LengthLayout
<1>15. Written(l1, u1) = Written(l1, v)
  <2>1. u1["kind"] = v["kind"] /\ u1["encoding"] = v["encoding"]  BY <1>13, SegmentValuesAre
  <2>2. \A f \in FieldNames(l1) : u1[f] = v[f]  BY <1>8, <2>1
  <2>. QED  BY <1>8, <2>2, WrittenSame
<1>16. Written(l2, s) = Written(l2, v)
  <2>1. s["id"] = v["id"] /\ s["gen"] = v["gen"]  BY SegmentValuesAre
  <2>2. \A f \in FieldNames(l2) : s[f] = v[f]  BY <1>8, <2>1
  <2>. QED  BY <1>8, <2>2, WrittenSame
<1>17. Written(l3, u3) = Written(l3, v)
  <2>1. \A f \in ToSet(References) : v[f] = IF f \in s.fields THEN s.ref ELSE 0  BY SegmentValuesAre
  <2>2. \A f \in FieldNames(l3) : u3[f] = v[f]  BY <1>8, <1>13, <2>1
  <2>. QED  BY <1>8, <2>2, WrittenSame
<1>18. Written(l4, u4) = Written(l4, v)
  <2>1. u4["length"] = v["length"]  BY <1>13, SegmentValuesAre
  <2>2. \A f \in FieldNames(l4) : u4[f] = v[f]  BY <1>8, <2>1
  <2>. QED  BY <1>8, <2>2, WrittenSame
<1>19. write_segment(s) = Written(l1, v) \o Written(l2, v) \o Written(l3, v) \o Written(l4, v)
                          \o Written(l5, s.payload)
  BY <1>14, <1>15, <1>16, <1>17, <1>18
<1>. QED  BY <1>4, <1>7, <1>10, <1>11, <1>12, <1>19

(* The layout of the identifiers and references that read_segment reads. *)
LEMMA ReadLayout ==
    U64(<<"id", "gen", "node", "adjacency", "endpoint", "binding", "policy", "policy_generation",
          "topology">>) = IdsLayout \o ReferencesLayout
<1>1. PICK x, y, g :
         /\ x = IdsLayout /\ y = ReferencesLayout
         /\ g = U64(<<"id", "gen", "node", "adjacency", "endpoint", "binding", "policy",
                      "policy_generation", "topology">>)
  OBVIOUS
<1>2. x \in Seq(Pairs(SegmentNames)) /\ Len(x) = 2 /\ y \in Seq(Pairs(SegmentNames)) /\ Len(y) = 7
  BY <1>1, SegmentLayouts
<1>3. /\ x[1] = <<"id", 8>> /\ x[2] = <<"gen", 8>>
      /\ y[1] = <<"node", 8>> /\ y[2] = <<"adjacency", 8>> /\ y[3] = <<"endpoint", 8>>
      /\ y[4] = <<"binding", 8>> /\ y[5] = <<"policy", 8>> /\ y[6] = <<"policy_generation", 8>>
      /\ y[7] = <<"topology", 8>>
  BY <1>1 DEF IdsLayout, ReferencesLayout, References, U64, Fields
<1>4. /\ g = [i \in 1 .. 9 |-> g[i]]
      /\ g[1] = <<"id", 8>> /\ g[2] = <<"gen", 8>>
      /\ g[3] = <<"node", 8>> /\ g[4] = <<"adjacency", 8>> /\ g[5] = <<"endpoint", 8>>
      /\ g[6] = <<"binding", 8>> /\ g[7] = <<"policy", 8>> /\ g[8] = <<"policy_generation", 8>>
      /\ g[9] = <<"topology", 8>>
  BY <1>1 DEF U64, Fields
<1>5. \A i \in 1 .. 2 : g[i] = x[i]  BY <1>3, <1>4
<1>6. \A i \in 1 .. 7 : g[2 + i] = y[i]
  <2>1. \A i \in 1 .. 7 : i \in {1, 2, 3, 4, 5, 6, 7}  OBVIOUS
  <2>2. /\ g[2 + 1] = y[1] /\ g[2 + 2] = y[2] /\ g[2 + 3] = y[3] /\ g[2 + 4] = y[4]
        /\ g[2 + 5] = y[5] /\ g[2 + 6] = y[6] /\ g[2 + 7] = y[7]
    BY <1>3, <1>4
  <2>. QED  BY <2>1, <2>2
<1>7. OneAfterOther(g, x, y, 2, 7)  BY <1>4, <1>5, <1>6 DEF OneAfterOther
<1>8. PICK k \in Nat, n \in Nat : k = 2 /\ n = 7  OBVIOUS
<1>9. PICK T : T = Pairs(SegmentNames)  OBVIOUS
<1>10. x \in Seq(T) /\ y \in Seq(T) /\ Len(x) = k /\ Len(y) = n /\ OneAfterOther(g, x, y, k, n)
  BY <1>2, <1>7, <1>8, <1>9
<1>11. g = x \o y  BY <1>10, JoinIs
<1>. QED  BY <1>1, <1>11

(* Where the layouts of a segment are, in a payload that holds it. *)
LEMMA SegmentAlong ==
    ASSUME NEW s \in SentSegment, NEW v, v = SegmentValues(s), NEW payload \in Seq(Item),
           NEW at \in Nat, Along(payload, at, write_segment(s))
    PROVE  /\ Along(payload, at, Written(HeadLayout, v))
           /\ Along(payload, at + 2, Written(IdsLayout \o ReferencesLayout, v))
           /\ Along(payload, at + 11, Written(LengthLayout, v))
           /\ Along(payload, at + 12, Written(PayloadLayout(Len(s.payload)), s.payload))
<1>1. PICK a, b, c, d, e : /\ a = Written(HeadLayout, v) /\ b = Written(IdsLayout, v)
                           /\ c = Written(ReferencesLayout, v) /\ d = Written(LengthLayout, v)
                           /\ e = Written(PayloadLayout(Len(s.payload)), s.payload)
  OBVIOUS
<1>2. /\ write_segment(s) = (((a \o b) \o c) \o d) \o e
      /\ a \in Seq(Item) /\ Len(a) = 2 /\ b \in Seq(Item) /\ Len(b) = 2
      /\ c \in Seq(Item) /\ Len(c) = 7 /\ d \in Seq(Item) /\ Len(d) = 1 /\ e \in Seq(Item)
  BY <1>1, SegmentWritten
<1>3. PICK ab, abc, abcd : ab = a \o b /\ abc = ab \o c /\ abcd = abc \o d  OBVIOUS
<1>4. ab \in Seq(Item) /\ Len(ab) = 4
  <2>1. a \o b \in Seq(Item) /\ Len(a \o b) = Len(a) + Len(b)  BY <1>2, LayoutsJoin
  <2>. QED  BY <1>2, <1>3, <2>1
<1>5. abc \in Seq(Item) /\ Len(abc) = 11
  <2>1. ab \o c \in Seq(Item) /\ Len(ab \o c) = Len(ab) + Len(c)  BY <1>2, <1>4, LayoutsJoin
  <2>. QED  BY <1>2, <1>3, <1>4, <2>1
<1>6. abcd \in Seq(Item) /\ Len(abcd) = 12
  <2>1. abc \o d \in Seq(Item) /\ Len(abc \o d) = Len(abc) + Len(d)  BY <1>2, <1>5, LayoutsJoin
  <2>. QED  BY <1>2, <1>3, <1>5, <2>1
<1>7. Along(payload, at, abcd) /\ Along(payload, at + 12, e)
  <2>1. Along(payload, at, abcd \o e)  BY <1>2, <1>3
  <2>. QED  BY <1>2, <1>6, <2>1, AlongBoth
<1>8. Along(payload, at, abc) /\ Along(payload, at + 11, d)
  <2>1. Along(payload, at, abc \o d)  BY <1>3, <1>7
  <2>. QED  BY <1>2, <1>5, <2>1, AlongBoth
<1>9. Along(payload, at, ab) /\ Along(payload, at + 4, c)
  <2>1. Along(payload, at, ab \o c)  BY <1>3, <1>8
  <2>. QED  BY <1>2, <1>4, <2>1, AlongBoth
<1>10. Along(payload, at, a) /\ Along(payload, at + 2, b)
  <2>1. Along(payload, at, a \o b)  BY <1>3, <1>9
  <2>. QED  BY <1>2, <2>1, AlongBoth
<1>11. Along(payload, at + 2, b \o c)
  <2>1. PICK here : here = at + 2  OBVIOUS
  <2>2. here \in Nat /\ here + Len(b) = at + 4  BY <1>2, <2>1
  <2>3. Along(payload, here, b) /\ Along(payload, here + Len(b), c)  BY <1>9, <1>10, <2>1, <2>2
  <2>4. Along(payload, here, b \o c)  BY <1>2, <2>2, <2>3, AlongJoin
  <2>. QED  BY <2>1, <2>4
<1>12. b \o c = Written(IdsLayout \o ReferencesLayout, v)
  <2>1. PICK N, l, m : N = SegmentNames /\ l = IdsLayout /\ m = ReferencesLayout  OBVIOUS
  <2>2. l \in Seq(Pairs(N)) /\ m \in Seq(Pairs(N))  BY <2>1, SegmentLayouts
  <2>3. FieldNames(l) \cup FieldNames(m) \subseteq N
    BY <2>1, SegmentLayouts, ReferencesAre DEF SegmentNames
  <2>0. \A f \in SegmentNames : v[f] \in Nat  BY SegmentValuesAre
  <2>4. \A f \in FieldNames(l) \cup FieldNames(m) : v[f] \in Nat  BY <2>0, <2>1, <2>3, Zenon
  <2>5. PICK w : w = v  OBVIOUS
  <2>6. \A f \in FieldNames(l) \cup FieldNames(m) : w[f] \in Nat  BY <2>4, <2>5
  <2>7. Written(l \o m, w) = Written(l, w) \o Written(m, w)  BY <2>2, <2>6, WrittenJoin, SMTT(60)
  <2>. QED  BY <1>1, <2>1, <2>5, <2>7
<1>. QED  BY <1>1, <1>7, <1>8, <1>10, <1>11, <1>12

(* The kinds have codes of their own. *)
LEMMA KindsNamed == \A k \in KindType : KindNamed(KindCode[k]) = k
<1>. SUFFICES ASSUME NEW k \in KindType PROVE KindNamed(KindCode[k]) = k  OBVIOUS
<1>1. DOMAIN KindCode = KindType  BY DEF KindCode, KindType, SegmentKind
<1>2. \A j \in KindType : KindCode[j] = KindCode[k] => j = k  BY DEF KindCode, KindType, SegmentKind
<1>3. PICK code : code = KindCode[k]  OBVIOUS
<1>4. \E j \in DOMAIN KindCode : KindCode[j] = code  BY <1>1, <1>3
<1>5. KindNamed(code) \in DOMAIN KindCode /\ KindCode[KindNamed(code)] = code  BY <1>4 DEF KindNamed
<1>. QED  BY <1>1, <1>2, <1>3, <1>5

(* A segment is made again of the values that were written of it. *)
LEMMA SegmentAgain ==
    ASSUME NEW s \in SentSegment, NEW v, v = SegmentValues(s)
    PROVE  SegmentRead(v, s.payload) = s
<1>0. s \in SegmentType /\ (s.fields = {} <=> s.ref = 0)  BY DEF SentSegment
<1>1. s.kind \in KindType /\ s.encoding \in KindType  BY <1>0, SegmentIs
<1>2. s.fields \subseteq ToSet(References)  BY <1>0, ReferencesAre DEF SegmentType
<1>. DEFINE given == {f \in ToSet(References) : v[f] # 0}
<1>3. \A f \in ToSet(References) : v[f] = IF f \in s.fields THEN s.ref ELSE 0  BY SegmentValuesAre
<1>4. given = s.fields  BY <1>0, <1>2, <1>3
<1>5. (IF given = {} THEN 0 ELSE v[CHOOSE f \in given : TRUE]) = s.ref
  <2>1. CASE given = {}  BY <1>0, <1>4, <2>1
  <2>2. CASE given # {}
    <3>1. PICK c : c = CHOOSE f \in given : TRUE  OBVIOUS
    <3>2. c \in given  BY <2>2, <3>1
    <3>3. v[c] = s.ref  BY <1>2, <1>3, <1>4, <3>2
    <3>. QED  BY <2>2, <3>1, <3>3
  <2>. QED  BY <2>1, <2>2
<1>6. KindNamed(v["kind"]) = s.kind /\ KindNamed(v["encoding"]) = s.encoding
  BY <1>1, SegmentValuesAre, KindsNamed
<1>7. v["id"] = s.id /\ v["gen"] = s.gen  BY SegmentValuesAre
<1>8. SegmentRead(v, s.payload) =
         [kind |-> KindNamed(v["kind"]), encoding |-> KindNamed(v["encoding"]),
          id |-> v["id"], gen |-> v["gen"], fields |-> given,
          ref |-> (IF given = {} THEN 0 ELSE v[CHOOSE f \in given : TRUE]),
          payload |-> s.payload]
  BY DEF SegmentRead
<1>9. s = [kind |-> s.kind, encoding |-> s.encoding, id |-> s.id, gen |-> s.gen,
           fields |-> s.fields, ref |-> s.ref, payload |-> s.payload]
  BY <1>0 DEF SegmentType
<1>. HIDE DEF given
<1>. QED  BY <1>4, <1>5, <1>6, <1>7, <1>8, <1>9

SegmentChecks == <<Enumerator("kind", 1 .. 5), Enumerator("encoding", 0 .. 5)>>
LengthChecks == << <<"length", 0 .. MaxPayload, "WireFieldOutOfRange">> >>

(* The checks on a segment accept those that validation may accept. *)
LEMMA SegmentPasses ==
    ASSUME NEW s \in SentSegment, NEW v, v = SegmentValues(s),
           s.kind # "Invalid", Len(s.payload) <= MaxPayload
    PROVE  /\ Passes(SegmentChecks, HeadLayout, v)
           /\ Passes(<<>>, IdsLayout \o ReferencesLayout, v)
           /\ Passes(LengthChecks, LengthLayout, v)
<1>0. s \in SegmentType  BY DEF SentSegment
<1>1. s.kind \in KindType /\ s.encoding \in KindType /\ Len(s.payload) \in Nat  BY <1>0, SegmentIs
<1>2. \A k \in KindType : KindCode[k] \in 0 .. 5 /\ (k # "Invalid" => KindCode[k] \in 1 .. 5)
  BY DEF KindCode, KindType, SegmentKind
<1>3. v["kind"] \in 1 .. 5 /\ v["encoding"] \in 0 .. 5
  <2>1. v["kind"] = KindCode[s.kind] /\ v["encoding"] = KindCode[s.encoding]  BY SegmentValuesAre
  <2>2. KindCode[s.kind] \in 1 .. 5 /\ KindCode[s.encoding] \in 0 .. 5  BY <1>1, <1>2, Zenon
  <2>. QED  BY <2>1, <2>2, Zenon
<1>4. v["length"] \in 0 .. MaxPayload
  <2>1. v["length"] = Len(s.payload)  BY SegmentValuesAre
  <2>2. MaxPayload \in Nat  BY ValidationAssumption
  <2>3. Len(s.payload) \in 0 .. MaxPayload  BY <1>1, <2>2
  <2>. QED  BY <2>1, <2>3, Zenon
<1>5. "kind" \in FieldNames(HeadLayout) /\ "encoding" \in FieldNames(HeadLayout)
      /\ "length" \in FieldNames(LengthLayout)
  BY SegmentLayouts
<1>6. Passes(SegmentChecks, HeadLayout, v)
  <2>1. PICK c : c = SegmentChecks  OBVIOUS
  <2>2. DOMAIN c = {1, 2} /\ c[1] = Enumerator("kind", 1 .. 5) /\ c[2] = Enumerator("encoding", 0 .. 5)
    BY <2>1 DEF SegmentChecks
  <2>3. /\ c[1][1] = "kind" /\ c[1][2] = 1 .. 5 /\ c[2][1] = "encoding" /\ c[2][2] = 0 .. 5
    BY <2>2 DEF Enumerator
  <2>4. v[c[1][1]] \in c[1][2] /\ v[c[2][1]] \in c[2][2]
        /\ c[1][1] \in FieldNames(HeadLayout) /\ c[2][1] \in FieldNames(HeadLayout)
    BY <1>3, <1>5, <2>3, Zenon
  <2>5. Passes(c, HeadLayout, v)  BY <2>2, <2>4 DEF Passes
  <2>. QED  BY <2>1, <2>5
<1>7. Passes(<<>>, IdsLayout \o ReferencesLayout, v)  BY DEF Passes
<1>8. Passes(LengthChecks, LengthLayout, v)
  <2>1. PICK c : c = LengthChecks  OBVIOUS
  <2>2. DOMAIN c = {1} /\ c[1][1] = "length" /\ c[1][2] = 0 .. MaxPayload
    BY <2>1 DEF LengthChecks
  <2>3. v[c[1][1]] \in c[1][2] /\ c[1][1] \in FieldNames(LengthLayout)  BY <1>4, <1>5, <2>2, Zenon
  <2>4. Passes(c, LengthLayout, v)  BY <2>2, <2>3 DEF Passes
  <2>. QED  BY <2>1, <2>4
<1>. QED  BY <1>6, <1>7, <1>8

(* Reading a segment at its place. *)
LEMMA SegmentTaken ==
    ASSUME NEW s \in SentSegment, NEW payload \in Seq(Item), NEW at \in Nat, at <= Len(payload),
           Along(payload, at, write_segment(s)),
           NEW r, r = Reader(SubSeq(payload, at + 1, Len(payload))),
           NEW n \in Nat, Len(s.payload) = n, NEW e, e = read_segment(r)
    PROVE  /\ e.why = "Ok" => /\ at + (12 + n) <= Len(payload)
                              /\ e.rest = SubSeq(payload, at + (12 + n) + 1, Len(payload))
                              /\ e.read = s
           /\ at + (12 + n) <= Len(payload) /\ s.kind # "Invalid" /\ n <= MaxPayload => e.why = "Ok"
<1>0. s \in SegmentType  BY DEF SentSegment
<1>1. PICK v : v = SegmentValues(s)  OBVIOUS
<1>2. PICK N, k : N = SegmentNames /\ k = Len(payload)  OBVIOUS
<1>23. k \in Nat  BY <1>2
<1>3. PICK l1, l2, l3, l4, x : /\ l1 = HeadLayout /\ l2 = IdsLayout \o ReferencesLayout
                               /\ l3 = LengthLayout /\ l4 = PayloadLayout(n) /\ x = s.payload
  OBVIOUS
<1>4. /\ l1 \in Seq(Pairs(N)) /\ Len(l1) = 2 /\ FieldNames(l1) = {"kind", "encoding"}
      /\ l3 \in Seq(Pairs(N)) /\ Len(l3) = 1 /\ FieldNames(l3) = {"length"}
      /\ l4 \in Seq(Pairs(1 .. n)) /\ Len(l4) = n /\ FieldNames(l4) = 1 .. n
  BY <1>2, <1>3, SegmentLayouts
<1>5. l2 \in Seq(Pairs(N)) /\ Len(l2) = 9 /\ FieldNames(l2) = {"id", "gen"} \cup ToSet(References)
  <2>1. PICK a, b : a = IdsLayout /\ b = ReferencesLayout  OBVIOUS
  <2>2. /\ a \in Seq(Pairs(N)) /\ Len(a) = 2 /\ FieldNames(a) = {"id", "gen"}
        /\ b \in Seq(Pairs(N)) /\ Len(b) = 7 /\ FieldNames(b) = ToSet(References)
    BY <1>2, <2>1, SegmentLayouts
  <2>3. a \o b \in Seq(Pairs(N)) /\ Len(a \o b) = Len(a) + Len(b)
        /\ FieldNames(a \o b) = FieldNames(a) \cup FieldNames(b)
    BY <2>2, LayoutsJoin
  <2>. QED  BY <1>3, <2>1, <2>2, <2>3
<1>6. PICK p1 \in Nat, p2 \in Nat, p3 \in Nat, p4 \in Nat :
         p1 = at + 2 /\ p2 = at + 11 /\ p3 = at + 12 /\ p4 = at + (12 + n)
  OBVIOUS
<1>7. /\ Along(payload, at, Written(l1, v)) /\ Along(payload, p1, Written(l2, v))
      /\ Along(payload, p2, Written(l3, v)) /\ Along(payload, p3, Written(l4, x))
  BY <1>1, <1>3, <1>6, SegmentAlong
<1>8. \A f \in N : v[f] \in Nat  BY <1>1, <1>2, SegmentValuesAre
<1>9. PICK F1, F2, F3 : /\ F1 = {"kind", "encoding"} /\ F2 = F1 \cup FieldNames(l2)
                        /\ F3 = F2 \cup FieldNames(l3)
  OBVIOUS
<1>10. F3 = N /\ FieldNames(l1) \subseteq N /\ FieldNames(l2) \subseteq N /\ FieldNames(l3) \subseteq N
  BY <1>2, <1>4, <1>5, <1>9, ReferencesAre DEF SegmentNames
<1>11. PICK head, refs, size : /\ head = Take(r, l1, SegmentChecks) /\ refs = Take(head, l2, <<>>)
                               /\ size = Take(refs, l3, LengthChecks)
  OBVIOUS
<1>. DEFINE good == p4 <= k /\ s.kind # "Invalid" /\ n <= MaxPayload
<1>12. good => /\ Passes(SegmentChecks, l1, v) /\ Passes(<<>>, l2, v) /\ Passes(LengthChecks, l3, v)
  BY <1>1, <1>3, SegmentPasses
<1>13. Reads(r, payload, at, {}, v) /\ r.why = "Ok"  BY ReaderReads
<1>14. Reads(head, payload, p1, F1, v) /\ (good => head.why = "Ok")
  <2>1. BeforeTake(r, payload, at, N, l1, v, {}, v, p1, F1)
    BY <1>4, <1>6, <1>7, <1>8, <1>9, <1>10, <1>13 DEF BeforeTake
  <2>2. Reads(head, payload, p1, F1, v)
        /\ (r.why = "Ok" /\ p1 <= Len(payload) /\ Passes(SegmentChecks, l1, v) => head.why = "Ok")
    BY <1>11, <2>1, TakeReads
  <2>. QED  BY <1>2, <1>23, <1>6, <1>12, <1>13, <2>2
<1>15. Reads(refs, payload, p2, F2, v) /\ (good => refs.why = "Ok")
  <2>1. p2 = p1 + Len(l2)  BY <1>5, <1>6
  <2>2. BeforeTake(head, payload, p1, N, l2, v, F1, v, p2, F2)
    BY <1>5, <1>7, <1>8, <1>9, <1>10, <1>14, <2>1 DEF BeforeTake
  <2>3. Reads(refs, payload, p2, F2, v)
        /\ (head.why = "Ok" /\ p2 <= Len(payload) /\ Passes(<<>>, l2, v) => refs.why = "Ok")
    BY <1>11, <2>2, TakeReads
  <2>. QED  BY <1>2, <1>23, <1>6, <1>12, <1>14, <2>3
<1>16. Reads(size, payload, p3, F3, v) /\ (good => size.why = "Ok")
  <2>1. p3 = p2 + Len(l3)  BY <1>4, <1>6
  <2>2. BeforeTake(refs, payload, p2, N, l3, v, F2, v, p3, F3)
    BY <1>4, <1>7, <1>8, <1>9, <1>10, <1>15, <2>1 DEF BeforeTake
  <2>3. Reads(size, payload, p3, F3, v)
        /\ (refs.why = "Ok" /\ p3 <= Len(payload) /\ Passes(LengthChecks, l3, v) => size.why = "Ok")
    BY <1>11, <2>2, TakeReads
  <2>. QED  BY <1>2, <1>23, <1>6, <1>12, <1>15, <2>3
<1>17. PICK rest : rest = Take(Reader(size.rest), Fields(1, [i \in 1 .. size.read["length"] |-> i]), <<>>)
  OBVIOUS
<1>18. e = IF size.why # "Ok" THEN size
           ELSE IF rest.why # "Ok" THEN rest ELSE [rest EXCEPT !.read = SegmentRead(size.read, @)]
  <2>1. head = Take(r, Fields(2, <<"kind", "encoding">>),
                    <<Enumerator("kind", 1 .. 5), Enumerator("encoding", 0 .. 5)>>)
    BY <1>3, <1>11 DEF HeadLayout, SegmentChecks
  <2>2. refs = Take(head, U64(<<"id", "gen", "node", "adjacency", "endpoint", "binding", "policy",
                                "policy_generation", "topology">>), <<>>)
    BY <1>3, <1>11, ReadLayout
  <2>3. size = Take(refs, Fields(2, <<"length">>),
                    << <<"length", 0 .. MaxPayload, "WireFieldOutOfRange">> >>)
    BY <1>3, <1>11 DEF LengthLayout, LengthChecks
  <2>. QED  BY <1>17, <2>1, <2>2, <2>3 DEF read_segment
<1>19. CASE size.why # "Ok"  BY <1>6, <1>2, <1>23, <1>16, <1>18, <1>19
<1>20. CASE size.why = "Ok"
  <2>1. /\ p3 <= k /\ size.rest = SubSeq(payload, p3 + 1, Len(payload))
        /\ size.read = [f \in N |-> v[f]]
    BY <1>2, <1>10, <1>16, <1>20 DEF Reads
  <2>2. size.read = v /\ v["length"] = n
    <3>1. v = [f \in N |-> v[f]]  BY <1>1, <1>2 DEF SegmentValues
    <3>2. v["length"] = n  BY <1>1, SegmentValuesAre
    <3>. QED  BY <2>1, <3>1, <3>2
  <2>3. PICK q : q = Reader(size.rest)  OBVIOUS
  <2>4. rest = Take(q, l4, <<>>)  BY <1>3, <1>17, <2>2, <2>3 DEF PayloadLayout
  <2>5. Reads(q, payload, p3, {}, x) /\ q.why = "Ok"
    <3>1. q = Reader(SubSeq(payload, p3 + 1, Len(payload))) /\ p3 <= Len(payload)  BY <1>2, <2>1, <2>3
    <3>2. /\ Reads(Reader(SubSeq(payload, p3 + 1, Len(payload))), payload, p3, {}, x)
          /\ Reader(SubSeq(payload, p3 + 1, Len(payload))).why = "Ok"
      BY <3>1, ReaderReads
    <3>. QED  BY <3>1, <3>2
  <2>6. x \in Seq(Nat) /\ Len(x) = n /\ x = [i \in 1 .. n |-> x[i]] /\ \A i \in 1 .. n : x[i] \in Nat
    <3>1. x \in Seq(Nat) /\ Len(x) = n  BY <1>0, <1>3, SegmentIs
    <3>2. DOMAIN x = 1 .. n  BY <3>1
    <3>3. x = [i \in 1 .. n |-> x[i]] /\ \A i \in 1 .. n : x[i] \in Nat  BY <3>1, <3>2
    <3>. QED  BY <3>1, <3>3
  <2>7. PICK M : M = 1 .. n  OBVIOUS
  <2>8. p4 = p3 + Len(l4)  BY <1>4, <1>6
  <2>9. BeforeTake(q, payload, p3, M, l4, x, {}, x, p4, M)
    BY <1>4, <1>7, <2>5, <2>6, <2>7, <2>8 DEF BeforeTake
  <2>10. /\ Reads(rest, payload, p4, M, x)
         /\ q.why = "Ok" /\ p4 <= Len(payload) /\ Passes(<<>>, l4, x) => rest.why = "Ok"
    BY <2>4, <2>9, TakeReads
  <2>11. Passes(<<>>, l4, x)  BY DEF Passes
  <2>12. CASE rest.why # "Ok"
    <3>1. e = rest  BY <1>18, <1>20, <2>12
    <3>. QED  BY <1>2, <1>23, <1>6, <2>5, <2>10, <2>11, <2>12, <3>1
  <2>13. CASE rest.why = "Ok"
    <3>1. e = [rest EXCEPT !.read = SegmentRead(size.read, @)]  BY <1>18, <1>20, <2>13
    <3>2. /\ p4 <= Len(payload) /\ rest.rest = SubSeq(payload, p4 + 1, Len(payload))
          /\ rest.read = x
      BY <2>6, <2>7, <2>10, <2>13 DEF Reads
    <3>3. SegmentRead(v, x) = s  BY <1>1, <1>3, SegmentAgain
    <3>4. rest = [rest |-> rest.rest, read |-> rest.read, why |-> rest.why]
      <4>1. q = [rest |-> q.rest, read |-> q.read, why |-> "Ok"]  BY <2>3 DEF Reader
      <4>2. CASE ~ Fits(q.rest, l4)
        <5>1. rest = [q EXCEPT !.why = "WireMalformedFrame"]  BY <2>4, <2>5, <4>2 DEF Take
        <5>2. rest.why = "WireMalformedFrame"  BY <4>1, <5>1
        <5>. QED  BY <2>13, <5>2
      <4>3. CASE Fits(q.rest, l4)
        <5>1. \E a, b, c : rest = [rest |-> a, read |-> b, why |-> c]  BY <2>4, <2>5, <4>3 DEF Take
        <5>. QED  BY <5>1
      <4>. QED  BY <4>2, <4>3
    <3>5. e.rest = rest.rest /\ e.why = "Ok" /\ e.read = s
      BY <2>2, <2>13, <3>1, <3>2, <3>3, <3>4
    <3>. QED  BY <1>6, <3>2, <3>5
  <2>. QED  BY <2>12, <2>13
<1>. QED  BY <1>19, <1>20

(* Reading a segment that was written. *)
LEMMA SegmentReads ==
    ASSUME NEW payload \in Seq(Item), NEW s \in SentSegment
    PROVE  /\ write_segment(s) \in Seq(Item)
           /\ ElementReads(payload, "segments", write_segment(s), s)
           /\ s.kind # "Invalid" /\ Len(s.payload) <= MaxPayload =>
                 ElementPasses(payload, "segments", write_segment(s))
<1>0. s \in SegmentType  BY DEF SentSegment
<1>1. PICK n \in Nat : Len(s.payload) = n  BY <1>0, SegmentIs
<1>2. write_segment(s) \in Seq(Item) /\ Len(write_segment(s)) = 12 + n
  <2>1. PICK v : v = SegmentValues(s)  OBVIOUS
  <2>2. PICK a, b, c, d, e : /\ a = Written(HeadLayout, v) /\ b = Written(IdsLayout, v)
                             /\ c = Written(ReferencesLayout, v) /\ d = Written(LengthLayout, v)
                             /\ e = Written(PayloadLayout(Len(s.payload)), s.payload)
    OBVIOUS
  <2>3. write_segment(s) = (((a \o b) \o c) \o d) \o e  BY <2>1, <2>2, SegmentWritten
  <2>4. /\ a \in Seq(Item) /\ Len(a) = 2 /\ b \in Seq(Item) /\ Len(b) = 2
        /\ c \in Seq(Item) /\ Len(c) = 7 /\ d \in Seq(Item) /\ Len(d) = 1
        /\ e \in Seq(Item) /\ Len(e) = n
    BY <1>1, <2>1, <2>2, SegmentWritten
  <2>5. PICK ab, abc, abcd : ab = a \o b /\ abc = ab \o c /\ abcd = abc \o d  OBVIOUS
  <2>6. ab \in Seq(Item) /\ Len(ab) = Len(a) + Len(b)  BY <2>4, <2>5, LayoutsJoin
  <2>7. abc \in Seq(Item) /\ Len(abc) = Len(ab) + Len(c)  BY <2>4, <2>5, <2>6, LayoutsJoin
  <2>8. abcd \in Seq(Item) /\ Len(abcd) = Len(abc) + Len(d)  BY <2>4, <2>5, <2>7, LayoutsJoin
  <2>9. abcd \o e \in Seq(Item) /\ Len(abcd \o e) = Len(abcd) + Len(e)  BY <2>4, <2>8, LayoutsJoin
  <2>10. write_segment(s) = abcd \o e  BY <2>3, <2>5
  <2>11. Len(abcd \o e) = 12 + n  BY <2>4, <2>6, <2>7, <2>8, <2>9
  <2>. QED  BY <2>9, <2>10, <2>11
<1>3. \A r : ReadElement("segments", r) = read_segment(r)  BY DEF ReadElement
<1>4. ASSUME NEW at \in 0 .. Len(payload), Along(payload, at, write_segment(s)),
             NEW e, e = ReadElement("segments", Reader(SubSeq(payload, at + 1, Len(payload))))
      PROVE  /\ e.why = "Ok" => /\ at + (12 + n) <= Len(payload)
                                /\ e.rest = SubSeq(payload, at + (12 + n) + 1, Len(payload))
                                /\ e.read = s
             /\ at + (12 + n) <= Len(payload) /\ s.kind # "Invalid" /\ n <= MaxPayload => e.why = "Ok"
  <2>1. PICK r : r = Reader(SubSeq(payload, at + 1, Len(payload)))  OBVIOUS
  <2>2. e = read_segment(r)  BY <1>3, <1>4, <2>1
  <2>3. at \in Nat /\ at <= Len(payload)  OBVIOUS
  <2>. QED  BY <1>1, <1>4, <2>1, <2>2, <2>3, SegmentTaken
<1>5. ElementReads(payload, "segments", write_segment(s), s)  BY <1>2, <1>4 DEF ElementReads
<1>6. s.kind # "Invalid" /\ Len(s.payload) <= MaxPayload =>
         ElementPasses(payload, "segments", write_segment(s))
  BY <1>1, <1>2, <1>4 DEF ElementPasses
<1>. QED  BY <1>2, <1>5, <1>6

(* A reader at the start of what arrived. *)
LEMMA StartReads ==
    ASSUME NEW payload \in Seq(Item), NEW v
    PROVE  Reads(Reader(payload), payload, 0, {}, v) /\ Reader(payload).why = "Ok"
<1>1. PICK k \in Nat : k = Len(payload)  OBVIOUS
<1>2. payload = SubSeq(payload, 0 + 1, Len(payload)) /\ 0 <= Len(payload)  BY <1>1
<1>3. PICK at : at = 0  OBVIOUS
<1>4. at <= Len(payload)  BY <1>2, <1>3
<1>5. /\ Reads(Reader(SubSeq(payload, at + 1, Len(payload))), payload, at, {}, v)
      /\ Reader(SubSeq(payload, at + 1, Len(payload))).why = "Ok"
  BY <1>4, ReaderReads
<1>. QED  BY <1>2, <1>3, <1>5

(* A reader at the end of what was written, if nothing is left. *)
LEMMA EndReads ==
    ASSUME NEW payload \in Seq(Item), NEW end \in Nat, NEW r, NEW G, NEW v,
           Reads(r, payload, end, G, v)
    PROVE  /\ AtEnd(r).why = "Ok" => Len(payload) = end /\ \A f \in G : AtEnd(r).read[f] = v[f]
           /\ r.why = "Ok" /\ Len(payload) = end => AtEnd(r).why = "Ok"
<1>1. PICK k \in Nat : k = Len(payload)  OBVIOUS
<1>2. CASE r.why # "Ok"  BY <1>2 DEF AtEnd
<1>3. CASE r.why = "Ok"
  <2>1. /\ end <= k /\ r.rest = SubSeq(payload, end + 1, k) /\ r.read = [f \in G |-> v[f]]
    BY <1>1, <1>3 DEF Reads
  <2>2. r.rest = <<>> <=> end = k
    <3>1. k - end \in Nat  BY <2>1
    <3>2. r.rest \in Seq(Item) /\ Len(r.rest) = k - end  BY <1>1, <2>1, <3>1
    <3>3. r.rest = <<>> <=> Len(r.rest) = 0  BY <3>2
    <3>. QED  BY <2>1, <3>1, <3>2, <3>3
  <2>3. CASE r.rest # <<>>
    <3>1. AtEnd(r) = [r EXCEPT !.why = "WireTrailingBytes"]  BY <1>3, <2>3 DEF AtEnd
    <3>2. AtEnd(r).why # "Ok"  BY <1>3, <3>1
    <3>. QED  BY <1>1, <2>2, <2>3, <3>2
  <2>4. CASE r.rest = <<>>
    <3>1. AtEnd(r) = r  BY <2>4 DEF AtEnd
    <3>. QED  BY <1>1, <1>3, <2>1, <2>2, <2>4, <3>1
  <2>. QED  BY <2>3, <2>4
<1>. QED  BY <1>2, <1>3

(* What arrives of what was encoded agrees with it, and has its length     *)
(* only if it is all of it and no more.                                    *)
LEMMA DamagedArrives ==
    ASSUME NEW items \in Seq(Item), Len(items) > 0, NEW q, q.cut \in Nat, q.extra \in BOOLEAN,
           NEW payload, payload = Damaged(items, q)
    PROVE  /\ payload \in Seq(Item) /\ Along(payload, 0, items)
           /\ Len(payload) = Len(items) <=> q.cut = 0 /\ ~ q.extra
<1>1. PICK n \in Nat : n = Len(items)  OBVIOUS
<1>2. CASE q.extra
  <2>1. PICK x : x = [width |-> 8, value |-> 1]  OBVIOUS
  <2>2. x \in Item  BY <2>1 DEF Item
  <2>3. payload = Append(items, x)  BY <1>2, <2>1 DEF Damaged
  <2>4. /\ payload \in Seq(Item) /\ Len(payload) = n + 1 /\ \A i \in 1 .. n : payload[i] = items[i]
    BY <1>1, <2>2, <2>3
  <2>5. Along(payload, 0, items)  BY <1>1, <2>4 DEF Along
  <2>. QED  BY <1>1, <1>2, <2>4, <2>5
<1>3. CASE ~ q.extra
  <2>1. PICK c \in Nat : c = q.cut  OBVIOUS
  <2>2. PICK M : M = Max({0, n - c})  OBVIOUS
  <2>3. M = IF c <= n THEN n - c ELSE 0
    <3>. DEFINE S == {0, n - c}
    <3>1. CASE c <= n
      <4>1. \E x \in S : \A y \in S : x >= y  BY <3>1
      <4>2. M \in S /\ \A y \in S : M >= y  BY <2>2, <4>1 DEF Max
      <4>. QED  BY <3>1, <4>2
    <3>2. CASE ~ (c <= n)
      <4>1. \E x \in S : \A y \in S : x >= y  BY <3>2
      <4>2. M \in S /\ \A y \in S : M >= y  BY <2>2, <4>1 DEF Max
      <4>. QED  BY <3>2, <4>2
    <3>. QED  BY <3>1, <3>2
  <2>4. M \in 0 .. n /\ (M = n <=> c = 0)  BY <1>1, <2>3
  <2>5. payload = SubSeq(items, 1, M)  BY <1>1, <1>3, <2>1, <2>2 DEF Damaged
  <2>6. payload \in Seq(Item) /\ Len(payload) = M /\ \A i \in 1 .. M : payload[i] = items[i]
    BY <1>1, <2>4, <2>5
  <2>7. Along(payload, 0, items)  BY <1>1, <2>6 DEF Along
  <2>. QED  BY <1>1, <1>3, <2>1, <2>4, <2>6, <2>7
<1>. QED  BY <1>2, <1>3

(* Of two layouts one after the other, each is at its place. *)
LEMMA AlongWritten ==
    ASSUME NEW N, NEW a \in Seq(Pairs(N)), NEW b \in Seq(Pairs(N)), NEW v,
           \A f \in N : v[f] \in Nat, NEW payload \in Seq(Item), NEW at \in Nat,
           Along(payload, at, Written(a \o b, v))
    PROVE  Along(payload, at, Written(a, v)) /\ Along(payload, at + Len(a), Written(b, v))
<1>1. FieldNames(a) \subseteq N /\ FieldNames(b) \subseteq N
  <2>1. (\A i \in DOMAIN a : a[i] \in Pairs(N)) /\ (\A i \in DOMAIN b : b[i] \in Pairs(N))  OBVIOUS
  <2>2. (\A i \in DOMAIN a : a[i][1] \in N) /\ (\A i \in DOMAIN b : b[i][1] \in N)
    BY <2>1 DEF Pairs
  <2>. QED  BY <2>2, Zenon DEF FieldNames
<1>2. /\ \A f \in FieldNames(a) : v[f] \in Nat
      /\ \A f \in FieldNames(b) : v[f] \in Nat
      /\ \A f \in FieldNames(a) \cup FieldNames(b) : v[f] \in Nat
  BY <1>1
<1>3. PICK x, y : x = Written(a, v) /\ y = Written(b, v)  OBVIOUS
<1>4. x \in Seq(Item) /\ Len(x) = Len(a)  BY <1>2, <1>3, WrittenIs
<1>5. y \in Seq(Item)  BY <1>2, <1>3, WrittenIs
<1>6. Written(a \o b, v) = x \o y
  <2>1. \A f \in FieldNames(a) \cup FieldNames(b) : v[f] \in Nat  BY <1>2
  <2>2. Written(a \o b, v) = Written(a, v) \o Written(b, v)  BY <2>1, WrittenJoin
  <2>. QED  BY <1>3, <2>2
<1>7. Along(payload, at, x \o y)  BY <1>6
<1>8. Along(payload, at, x) /\ Along(payload, at + Len(x), y)  BY <1>4, <1>5, <1>7, AlongBoth
<1>. QED  BY <1>3, <1>4, <1>8

(* A message that is decoded has all its fields, and all of it arrived;    *)
(* if all of it arrives and it is a good one it is decoded.                *)
Survives(m, items, payload, e, good) ==
    /\ items \in Seq(Item) /\ Len(items) > 0
    /\ payload \in Seq(Item) /\ Along(payload, 0, items) =>
          /\ e.why = "Ok" =>
                Len(payload) = Len(items) /\ \A f \in DOMAIN m \ {"type"} : e.read[f] = m[f]
          /\ Len(payload) = Len(items) /\ good => e.why = "Ok"

(* A message of fields of eight bytes. *)
LEMMA FlatMessage ==
    ASSUME NEW N, NEW names \in Seq(N), Len(names) > 0, NEW m, \A f \in ToSet(names) : m[f] \in Nat,
           DOMAIN m \ {"type"} = ToSet(names), NEW payload, NEW items, items = Written(U64(names), m),
           NEW e, e = AtEnd(Take(Reader(payload), U64(names), <<>>)), NEW good
    PROVE  Survives(m, items, payload, e, good)
<1>1. PICK l : l = U64(names)  OBVIOUS
<1>2. l \in Seq(Pairs(N)) /\ Len(l) = Len(names) /\ FieldNames(l) = ToSet(names)
  <2>1. PICK w \in Nat : w = 8  OBVIOUS
  <2>2. l = Fields(w, names)  BY <1>1, <2>1 DEF U64
  <2>. QED  BY <2>2, LayoutIs
<1>3. PICK n \in Nat : n = Len(l) /\ n > 0  BY <1>2
<1>4. items \in Seq(Item) /\ Len(items) = n  BY <1>1, <1>2, <1>3, WrittenIs
<1>5. ASSUME payload \in Seq(Item), Along(payload, 0, items)
      PROVE  /\ e.why = "Ok" =>
                   Len(payload) = Len(items) /\ \A f \in DOMAIN m \ {"type"} : e.read[f] = m[f]
             /\ Len(payload) = Len(items) => e.why = "Ok"
  <2>1. PICK r, F, at : r = Reader(payload) /\ F = FieldNames(l) /\ at = 0  OBVIOUS
  <2>2. Reads(r, payload, at, {}, m) /\ r.why = "Ok"  BY <1>5, <2>1, StartReads
  <2>3. BeforeTake(r, payload, at, N, l, m, {}, m, n, F)
    BY <1>1, <1>2, <1>3, <1>5, <2>1, <2>2 DEF BeforeTake
  <2>4. Passes(<<>>, l, m)  BY DEF Passes
  <2>5. PICK t : t = Take(r, l, <<>>)  OBVIOUS
  <2>6. /\ Reads(t, payload, n, F, m)
        /\ r.why = "Ok" /\ n <= Len(payload) /\ Passes(<<>>, l, m) => t.why = "Ok"
    BY <2>3, <2>5, TakeReads
  <2>7. e = AtEnd(t)  BY <1>1, <2>1, <2>5
  <2>8. /\ AtEnd(t).why = "Ok" => Len(payload) = n /\ \A f \in F : AtEnd(t).read[f] = m[f]
        /\ t.why = "Ok" /\ Len(payload) = n => AtEnd(t).why = "Ok"
    BY <1>5, <2>6, EndReads
  <2>. QED  BY <1>2, <1>4, <2>1, <2>2, <2>4, <2>6, <2>7, <2>8
<1>. QED  BY <1>3, <1>4, <1>5 DEF Survives

(* Hello, its answer, heartbeats and requests for a list. *)
LEMMA HelloSurvives ==
    ASSUME NEW m \in HelloType, NEW payload, NEW good
    PROVE  Survives(m, encode_hello(m), payload, decode_hello(payload), good)
<1>. DEFINE N == {"boot", "publisher", "scope", "epoch"}
<1>1. PICK names, items, e : /\ names = <<"boot", "publisher", "scope", "epoch">>
                             /\ items = encode_hello(m) /\ e = decode_hello(payload)
  OBVIOUS
<1>2. names \in Seq(N) /\ Len(names) > 0 /\ ToSet(names) = N  BY <1>1 DEF ToSet
<1>3. (\A f \in N : m[f] \in Nat) /\ DOMAIN m \ {"type"} = N  BY DEF HelloType
<1>4. items = Written(U64(names), m) /\ e = AtEnd(Take(Reader(payload), U64(names), <<>>))
  BY <1>1 DEF encode_hello, decode_hello
<1>. HIDE DEF N
<1>5. Survives(m, items, payload, e, good)  BY <1>2, <1>3, <1>4, FlatMessage
<1>. QED  BY <1>1, <1>5

(* As above. *)
LEMMA HelloAckSurvives ==
    ASSUME NEW m \in HelloAckType, NEW payload, NEW good
    PROVE  Survives(m, encode_hello_ack(m), payload, decode_hello_ack(payload), good)
<1>. DEFINE N == {"epoch", "session"}
<1>1. PICK names, items, e : /\ names = <<"epoch", "session">>
                             /\ items = encode_hello_ack(m) /\ e = decode_hello_ack(payload)
  OBVIOUS
<1>2. names \in Seq(N) /\ Len(names) > 0 /\ ToSet(names) = N  BY <1>1 DEF ToSet
<1>3. (\A f \in N : m[f] \in Nat) /\ DOMAIN m \ {"type"} = N  BY DEF HelloAckType
<1>4. items = Written(U64(names), m) /\ e = AtEnd(Take(Reader(payload), U64(names), <<>>))
  BY <1>1 DEF encode_hello_ack, decode_hello_ack
<1>. HIDE DEF N
<1>5. Survives(m, items, payload, e, good)  BY <1>2, <1>3, <1>4, FlatMessage
<1>. QED  BY <1>1, <1>5

(* As above. *)
LEMMA HeartbeatSurvives ==
    ASSUME NEW m \in HeartbeatType, NEW payload, NEW good
    PROVE  Survives(m, encode_heartbeat(m), payload, decode_heartbeat(payload), good)
<1>. DEFINE N == {"publisher", "boot", "epoch"}
<1>1. PICK names, items, e : /\ names = <<"publisher", "boot", "epoch">>
                             /\ items = encode_heartbeat(m) /\ e = decode_heartbeat(payload)
  OBVIOUS
<1>2. names \in Seq(N) /\ Len(names) > 0 /\ ToSet(names) = N  BY <1>1 DEF ToSet
<1>3. (\A f \in N : m[f] \in Nat) /\ DOMAIN m \ {"type"} = N  BY DEF HeartbeatType
<1>4. items = Written(U64(names), m) /\ e = AtEnd(Take(Reader(payload), U64(names), <<>>))
  BY <1>1 DEF encode_heartbeat, decode_heartbeat
<1>. HIDE DEF N
<1>5. Survives(m, items, payload, e, good)  BY <1>2, <1>3, <1>4, FlatMessage
<1>. QED  BY <1>1, <1>5

(* As above. *)
LEMMA GetSurvives ==
    ASSUME NEW m \in GetType, NEW payload, NEW good
    PROVE  Survives(m, encode_get(m), payload, decode_get(payload), good)
<1>. DEFINE N == {"list"}
<1>1. PICK names, items, e : /\ names = <<"list">>
                             /\ items = encode_get(m) /\ e = decode_get(payload)
  OBVIOUS
<1>2. names \in Seq(N) /\ Len(names) > 0 /\ ToSet(names) = N  BY <1>1 DEF ToSet
<1>3. (\A f \in N : m[f] \in Nat) /\ DOMAIN m \ {"type"} = N  BY DEF GetType
<1>4. items = Written(U64(names), m) /\ e = AtEnd(Take(Reader(payload), U64(names), <<>>))
  BY <1>1 DEF encode_get, decode_get
<1>. HIDE DEF N
<1>5. Survives(m, items, payload, e, good)  BY <1>2, <1>3, <1>4, FlatMessage
<1>. QED  BY <1>1, <1>5

LifecycleNames == {"attempt", "op", "list", "expected"}

(* The operations on a list. *)
LEMMA LifecycleSurvives ==
    ASSUME NEW m \in LifecycleType, NEW payload, NEW good
    PROVE  Survives(m, encode_lifecycle(m), payload, decode_lifecycle(payload), good)
<1>1. PICK N, a1, a2, a3 : /\ N = LifecycleNames /\ a1 = <<"attempt">> /\ a2 = <<"op">>
                           /\ a3 = <<"list", "expected">>
  OBVIOUS
<1>2. /\ a1 \in Seq(N) /\ Len(a1) = 1 /\ ToSet(a1) = {"attempt"}
      /\ a2 \in Seq(N) /\ Len(a2) = 1 /\ ToSet(a2) = {"op"}
      /\ a3 \in Seq(N) /\ Len(a3) = 2 /\ ToSet(a3) = {"list", "expected"}
  BY <1>1 DEF LifecycleNames, ToSet
<1>3. PICK l1, l2, l3 : l1 = Fields(8, a1) /\ l2 = Fields(1, a2) /\ l3 = Fields(8, a3)  OBVIOUS
<1>4. /\ l1 \in Seq(Pairs(N)) /\ Len(l1) = 1 /\ FieldNames(l1) = {"attempt"}
      /\ l2 \in Seq(Pairs(N)) /\ Len(l2) = 1 /\ FieldNames(l2) = {"op"}
      /\ l3 \in Seq(Pairs(N)) /\ Len(l3) = 2 /\ FieldNames(l3) = {"list", "expected"}
  BY <1>2, <1>3, LayoutIs
<1>5. PICK l12, l : l12 = l1 \o l2 /\ l = l12 \o l3  OBVIOUS
<1>6. l12 \in Seq(Pairs(N)) /\ Len(l12) = 2 /\ FieldNames(l12) = {"attempt", "op"}
  <2>1. l1 \o l2 \in Seq(Pairs(N)) /\ Len(l1 \o l2) = Len(l1) + Len(l2)
        /\ FieldNames(l1 \o l2) = FieldNames(l1) \cup FieldNames(l2)
    BY <1>4, LayoutsJoin
  <2>. QED  BY <1>4, <1>5, <2>1
<1>7. l \in Seq(Pairs(N)) /\ Len(l) = 4 /\ FieldNames(l) = N
  <2>1. l12 \o l3 \in Seq(Pairs(N)) /\ Len(l12 \o l3) = Len(l12) + Len(l3)
        /\ FieldNames(l12 \o l3) = FieldNames(l12) \cup FieldNames(l3)
    <3>1. l12 \in Seq(Pairs(N)) /\ l3 \in Seq(Pairs(N))  BY <1>4, <1>6
    <3>. QED  BY <3>1, LayoutsJoin
  <2>. QED  BY <1>1, <1>4, <1>5, <1>6, <2>1 DEF LifecycleNames
<1>8. /\ \A f \in N : m[f] \in Nat
      /\ DOMAIN m \ {"type"} = N /\ m["op"] \in 1 .. 5
  BY <1>1 DEF LifecycleType, LifecycleNames
<1>9. PICK items : items = encode_lifecycle(m)  OBVIOUS
<1>10. items = Written(l, m)
  BY <1>1, <1>3, <1>5, <1>9 DEF encode_lifecycle, U64
<1>11. items \in Seq(Item) /\ Len(items) = 4
  <2>1. \A f \in FieldNames(l) : m[f] \in Nat  BY <1>7, <1>8
  <2>. QED  BY <1>7, <1>10, <2>1, WrittenIs
<1>12. PICK e, c : e = decode_lifecycle(payload) /\ c = <<Enumerator("op", 1 .. 5)>>  OBVIOUS
<1>13. ASSUME payload \in Seq(Item), Along(payload, 0, items)
       PROVE  /\ e.why = "Ok" =>
                    Len(payload) = Len(items) /\ \A f \in DOMAIN m \ {"type"} : e.read[f] = m[f]
              /\ Len(payload) = Len(items) => e.why = "Ok"
  <2>1. PICK r, s, t, at, k, n :
           /\ r = Reader(payload) /\ s = Take(r, l12, c) /\ t = Take(s, l3, <<>>)
           /\ at = 0 /\ k = 2 /\ n = 4
    OBVIOUS
  <2>2. at \in Nat /\ k \in Nat /\ n \in Nat /\ k = at + Len(l12) /\ n = k + Len(l3)
    BY <1>4, <1>6, <2>1
  <2>3. e = AtEnd(t)
    BY <1>1, <1>3, <1>5, <1>12, <2>1 DEF decode_lifecycle, U64
  <2>4. Along(payload, at, Written(l12, m)) /\ Along(payload, k, Written(l3, m))
    <3>1. Along(payload, at, Written(l12 \o l3, m))  BY <1>5, <1>10, <1>13, <2>1
    <3>2. /\ Along(payload, at, Written(l12, m))
          /\ Along(payload, at + Len(l12), Written(l3, m))
      BY <1>4, <1>6, <1>8, <1>13, <2>2, <3>1, AlongWritten
    <3>. QED  BY <2>2, <3>2
  <2>5. Reads(r, payload, at, {}, m) /\ r.why = "Ok"  BY <1>13, <2>1, StartReads
  <2>6. PICK F : F = FieldNames(l12)  OBVIOUS
  <2>7. F \subseteq N /\ FieldNames(l3) \subseteq N /\ N = F \cup FieldNames(l3)
    BY <1>1, <1>4, <1>6, <2>6 DEF LifecycleNames
  <2>8. BeforeTake(r, payload, at, N, l12, m, {}, m, k, F)
    BY <1>6, <1>8, <1>13, <2>2, <2>4, <2>5, <2>6, <2>7 DEF BeforeTake
  <2>9. /\ Reads(s, payload, k, F, m)
        /\ r.why = "Ok" /\ k <= Len(payload) /\ Passes(c, l12, m) => s.why = "Ok"
    BY <2>1, <2>8, TakeReads
  <2>10. BeforeTake(s, payload, k, N, l3, m, F, m, n, N)
    BY <1>4, <1>8, <1>13, <2>2, <2>4, <2>7, <2>9 DEF BeforeTake
  <2>11. /\ Reads(t, payload, n, N, m)
         /\ s.why = "Ok" /\ n <= Len(payload) /\ Passes(<<>>, l3, m) => t.why = "Ok"
    BY <2>1, <2>10, TakeReads
  <2>12. Passes(<<>>, l3, m)  BY DEF Passes
  <2>13. Passes(c, l12, m)
    <3>1. DOMAIN c = {1} /\ c[1] = Enumerator("op", 1 .. 5)  BY <1>12
    <3>2. c[1][1] = "op" /\ c[1][2] = 1 .. 5  BY <3>1 DEF Enumerator
    <3>3. m[c[1][1]] \in c[1][2] /\ c[1][1] \in FieldNames(l12)  BY <1>6, <1>8, <3>2
    <3>. QED  BY <3>1, <3>3 DEF Passes
  <2>14. /\ AtEnd(t).why = "Ok" => Len(payload) = n /\ \A f \in N : AtEnd(t).read[f] = m[f]
         /\ t.why = "Ok" /\ Len(payload) = n => AtEnd(t).why = "Ok"
    BY <1>13, <2>2, <2>11, EndReads
  <2>15. /\ e.why = "Ok" => Len(payload) = n /\ \A f \in N : e.read[f] = m[f]
         /\ t.why = "Ok" /\ Len(payload) = n => e.why = "Ok"
    BY <2>3, <2>14, Zenon
  <2>16. Len(payload) = n => k <= Len(payload) /\ n <= Len(payload)  BY <2>1
  <2>17. Len(payload) = n => t.why = "Ok"  BY <2>5, <2>9, <2>11, <2>12, <2>13, <2>16, Zenon
  <2>18. Len(items) = n  BY <1>11, <2>1
  <2>. QED  BY <1>8, <2>15, <2>17, <2>18, Zenon
<1>14. Survives(m, items, payload, e, good)  BY <1>11, <1>13 DEF Survives
<1>. QED  BY <1>9, <1>12, <1>14

(* Elements one after the other are a payload. *)
LEMMA FlattenIs ==
    ASSUME NEW parts \in Seq(Seq(Item)), NEW n \in Nat, Len(parts) = n
    PROVE  FlattenSeq(parts) \in Seq(Item)
<1>1. PICK payload, at : payload = <<>> /\ at = 0  OBVIOUS
<1>2. payload \in Seq(Item) /\ at \in Nat /\ Len(payload) = 0  BY <1>1
<1>3. PICK a : a = FlattenSeq(parts)  OBVIOUS
<1>4. \A i \in 1 .. Len(a) : ~ (at + i <= Len(payload))  BY <1>1, <1>2
<1>5. Along(payload, at, a)  BY <1>4 DEF Along
<1>6. Along(payload, at, FlattenSeq(parts))  BY <1>3, <1>5
<1>. QED  BY <1>2, <1>6, AlongParts

(* What a mutation says before its segments. *)
MutationNames ==
    {"attempt", "id", "scope", "profile", "profile_generation", "policy", "policy_generation",
     "strictness", "topology", "capability", "path", "path_authority", "route", "route_generation",
     "constraint", "constraint_generation", "expected_generation", "supersedes",
     "supersedes_generation", "derived", "count"}

MutationIds ==
    U64(<<"attempt", "id", "scope", "profile", "profile_generation", "policy", "policy_generation">>)
MutationMode == Fields(1, <<"strictness">>)
MutationDeps == U64(bindings_read)
MutationFlag == Fields(1, <<"derived">>)
CountLayout == Fields(4, <<"count">>)

(* Layouts of a few fields. *)
LEMMA MutationLayouts ==
    /\ MutationIds \in Seq(Pairs(MutationNames)) /\ Len(MutationIds) = 7
    /\ FieldNames(MutationIds) = {"attempt", "id", "scope", "profile", "profile_generation", "policy",
                                  "policy_generation"}
    /\ MutationMode \in Seq(Pairs(MutationNames)) /\ Len(MutationMode) = 1
    /\ FieldNames(MutationMode) = {"strictness"}
    /\ MutationDeps \in Seq(Pairs(MutationNames)) /\ Len(MutationDeps) = 11
    /\ FieldNames(MutationDeps) = {"topology", "capability", "path", "path_authority", "route",
                                   "route_generation", "constraint", "constraint_generation",
                                   "expected_generation", "supersedes", "supersedes_generation"}
    /\ MutationFlag \in Seq(Pairs(MutationNames)) /\ Len(MutationFlag) = 1
    /\ FieldNames(MutationFlag) = {"derived"}
    /\ CountLayout \in Seq(Pairs(MutationNames)) /\ Len(CountLayout) = 1
    /\ FieldNames(CountLayout) = {"count"}
<1>1. PICK N, a1, a2, a3, a4, a5 :
         /\ N = MutationNames /\ a2 = <<"strictness">> /\ a4 = <<"derived">> /\ a5 = <<"count">>
         /\ a1 = <<"attempt", "id", "scope", "profile", "profile_generation", "policy",
                   "policy_generation">>
         /\ a3 = bindings_read
  OBVIOUS
<1>2. /\ a1 \in Seq(N) /\ Len(a1) = 7
      /\ ToSet(a1) = {"attempt", "id", "scope", "profile", "profile_generation", "policy",
                      "policy_generation"}
  BY <1>1 DEF MutationNames, ToSet
<1>3. a2 \in Seq(N) /\ Len(a2) = 1 /\ ToSet(a2) = {"strictness"}  BY <1>1 DEF MutationNames, ToSet
<1>4. /\ a3 \in Seq(N) /\ Len(a3) = 11
      /\ ToSet(a3) = {"topology", "capability", "path", "path_authority", "route",
                      "route_generation", "constraint", "constraint_generation",
                      "expected_generation", "supersedes", "supersedes_generation"}
  BY <1>1 DEF MutationNames, ToSet, bindings_read
<1>5. a4 \in Seq(N) /\ Len(a4) = 1 /\ ToSet(a4) = {"derived"}  BY <1>1 DEF MutationNames, ToSet
<1>6. a5 \in Seq(N) /\ Len(a5) = 1 /\ ToSet(a5) = {"count"}  BY <1>1 DEF MutationNames, ToSet
<1>7. /\ MutationIds = Fields(8, a1) /\ MutationMode = Fields(1, a2) /\ MutationDeps = Fields(8, a3)
      /\ MutationFlag = Fields(1, a4) /\ CountLayout = Fields(4, a5)
  BY <1>1 DEF MutationIds, MutationMode, MutationDeps, MutationFlag, CountLayout, U64
<1>8. /\ Fields(8, a1) \in Seq(Pairs(N)) /\ Len(Fields(8, a1)) = Len(a1)
      /\ FieldNames(Fields(8, a1)) = ToSet(a1)
  BY <1>2, LayoutIs
<1>9. /\ Fields(1, a2) \in Seq(Pairs(N)) /\ Len(Fields(1, a2)) = Len(a2)
      /\ FieldNames(Fields(1, a2)) = ToSet(a2)
  BY <1>3, LayoutIs
<1>10. /\ Fields(8, a3) \in Seq(Pairs(N)) /\ Len(Fields(8, a3)) = Len(a3)
       /\ FieldNames(Fields(8, a3)) = ToSet(a3)
  BY <1>4, LayoutIs
<1>11. /\ Fields(1, a4) \in Seq(Pairs(N)) /\ Len(Fields(1, a4)) = Len(a4)
       /\ FieldNames(Fields(1, a4)) = ToSet(a4)
  BY <1>5, LayoutIs
<1>12. /\ Fields(4, a5) \in Seq(Pairs(N)) /\ Len(Fields(4, a5)) = Len(a5)
       /\ FieldNames(Fields(4, a5)) = ToSet(a5)
  BY <1>6, LayoutIs
<1>13. N = MutationNames  BY <1>1
<1>. HIDE DEF MutationNames
<1>14. /\ MutationIds \in Seq(Pairs(N)) /\ Len(MutationIds) = 7
       /\ FieldNames(MutationIds) = {"attempt", "id", "scope", "profile", "profile_generation",
                                     "policy", "policy_generation"}
  BY <1>2, <1>7, <1>8
<1>15. /\ MutationMode \in Seq(Pairs(N)) /\ Len(MutationMode) = 1
       /\ FieldNames(MutationMode) = {"strictness"}
  BY <1>3, <1>7, <1>9
<1>16. /\ MutationDeps \in Seq(Pairs(N)) /\ Len(MutationDeps) = 11
       /\ FieldNames(MutationDeps) = {"topology", "capability", "path", "path_authority", "route",
                                      "route_generation", "constraint", "constraint_generation",
                                      "expected_generation", "supersedes", "supersedes_generation"}
  BY <1>4, <1>7, <1>10
<1>17. /\ MutationFlag \in Seq(Pairs(N)) /\ Len(MutationFlag) = 1
       /\ FieldNames(MutationFlag) = {"derived"}
  BY <1>5, <1>7, <1>11
<1>18. /\ CountLayout \in Seq(Pairs(N)) /\ Len(CountLayout) = 1 /\ FieldNames(CountLayout) = {"count"}
  BY <1>6, <1>7, <1>12
<1>. QED  BY <1>13, <1>14, <1>15, <1>16, <1>17, <1>18

(* What is written of a message, with the number of its elements. *)
Counted(m, n) == [f \in DOMAIN m \cup {"count"} |-> IF f = "count" THEN n ELSE m[f]]

(* The fields of a mutation. *)
LEMMA MutationIs ==
    ASSUME NEW m \in MutationType, NEW n \in Nat, NEW v, v = Counted(m, n)
    PROVE  /\ DOMAIN m \ {"type"} = (MutationNames \ {"count"}) \cup {"segments"}
           /\ \A f \in MutationNames : v[f] \in Nat
           /\ \A f \in (MutationNames \ {"count"}) \cup {"segments"} : v[f] = m[f]
           /\ v["count"] = n /\ v["strictness"] \in 1 .. 2 /\ v["derived"] \in 0 .. 1
           /\ m.segments \in Seq(SentSegment)
<1>1. DOMAIN m = (MutationNames \ {"count"}) \cup {"segments", "type"}
  BY DEF MutationType, MutationNames
<1>2. m.segments \in Seq(SentSegment) /\ m["strictness"] \in 1 .. 2 /\ m["derived"] \in 0 .. 1
  BY DEF MutationType
<1>3. "count" \notin DOMAIN m  BY <1>1 DEF MutationNames
<1>4. v["count"] = n /\ \A f \in DOMAIN m : v[f] = m[f]  BY <1>3 DEF Counted
<1>5. DOMAIN m \ {"type"} = (MutationNames \ {"count"}) \cup {"segments"}
  BY <1>1 DEF MutationNames
<1>6. \A f \in (MutationNames \ {"count"}) \cup {"segments"} : v[f] = m[f]  BY <1>4, <1>5
<1>7. v["strictness"] \in 1 .. 2 /\ v["derived"] \in 0 .. 1
  <2>1. {"strictness", "derived"} \subseteq DOMAIN m  BY <1>1 DEF MutationNames
  <2>. QED  BY <1>2, <1>4, <2>1
<1>8. \A f \in MutationNames \ {"count", "strictness", "derived"} : m[f] \in Nat
  BY DEF MutationType, MutationNames
<1>9. ASSUME NEW f \in MutationNames PROVE v[f] \in Nat
  <2>1. CASE f = "count"  BY <1>4, <2>1
  <2>2. CASE f \in {"strictness", "derived"}  BY <1>7, <2>2
  <2>3. CASE f \notin {"count", "strictness", "derived"}
    <3>1. m[f] \in Nat /\ v[f] = m[f]  BY <1>6, <1>8, <2>3
    <3>. QED  BY <3>1
  <2>. QED  BY <2>1, <2>2, <2>3
<1>. QED  BY <1>2, <1>4, <1>5, <1>6, <1>7, <1>9

(* The values of two layouts that follow each other are those of both. *)
LEMMA AlongLayouts ==
    ASSUME NEW N, NEW a \in Seq(Pairs(N)), NEW b \in Seq(Pairs(N)), NEW v,
           \A f \in N : v[f] \in Nat, NEW payload \in Seq(Item), NEW at \in Nat, NEW there,
           Along(payload, at, Written(a, v)), there = at + Len(a), Along(payload, there, Written(b, v))
    PROVE  Along(payload, at, Written(a \o b, v))
<1>1. FieldNames(a) \subseteq N /\ FieldNames(b) \subseteq N
  <2>1. (\A i \in DOMAIN a : a[i] \in Pairs(N)) /\ (\A i \in DOMAIN b : b[i] \in Pairs(N))  OBVIOUS
  <2>2. (\A i \in DOMAIN a : a[i][1] \in N) /\ (\A i \in DOMAIN b : b[i][1] \in N)
    BY <2>1 DEF Pairs
  <2>. QED  BY <2>2, Zenon DEF FieldNames
<1>2. /\ \A f \in FieldNames(a) : v[f] \in Nat
      /\ \A f \in FieldNames(b) : v[f] \in Nat
      /\ \A f \in FieldNames(a) \cup FieldNames(b) : v[f] \in Nat
  BY <1>1
<1>3. PICK x, y : x = Written(a, v) /\ y = Written(b, v)  OBVIOUS
<1>4. x \in Seq(Item) /\ Len(x) = Len(a)  BY <1>2, <1>3, WrittenIs
<1>5. y \in Seq(Item)  BY <1>2, <1>3, WrittenIs
<1>6. Written(a \o b, v) = x \o y
  <2>1. \A f \in FieldNames(a) \cup FieldNames(b) : v[f] \in Nat  BY <1>2
  <2>2. Written(a \o b, v) = Written(a, v) \o Written(b, v)  BY <2>1, WrittenJoin
  <2>. QED  BY <1>3, <2>2
<1>7. Along(payload, at, x) /\ Along(payload, at + Len(x), y)  BY <1>3, <1>4
<1>8. Along(payload, at, x \o y)  BY <1>4, <1>5, <1>7, AlongJoin
<1>. QED  BY <1>6, <1>8

MutationHead == ((MutationIds \o MutationMode) \o MutationDeps) \o MutationFlag

(* The head of a mutation. *)
LEMMA MutationHeadIs ==
    LET N == MutationNames
    IN  /\ MutationIds \o MutationMode \in Seq(Pairs(N)) /\ Len(MutationIds \o MutationMode) = 8
        /\ (MutationIds \o MutationMode) \o MutationDeps \in Seq(Pairs(N))
        /\ Len((MutationIds \o MutationMode) \o MutationDeps) = 19
        /\ MutationHead \in Seq(Pairs(N)) /\ Len(MutationHead) = 20
        /\ FieldNames(MutationHead) = N \ {"count"}
<1>1. PICK N, a, b, c, d : /\ N = MutationNames /\ a = MutationIds /\ b = MutationMode
                           /\ c = MutationDeps /\ d = MutationFlag
  OBVIOUS
<1>2. /\ a \in Seq(Pairs(N)) /\ Len(a) = 7 /\ b \in Seq(Pairs(N)) /\ Len(b) = 1
      /\ c \in Seq(Pairs(N)) /\ Len(c) = 11 /\ d \in Seq(Pairs(N)) /\ Len(d) = 1
  BY <1>1, MutationLayouts
<1>3. PICK T : T = Pairs(N)  OBVIOUS
<1>4. a \in Seq(T) /\ b \in Seq(T) /\ c \in Seq(T) /\ d \in Seq(T)  BY <1>2, <1>3
<1>5. /\ a \o b \in Seq(T) /\ Len(a \o b) = Len(a) + Len(b)
      /\ FieldNames(a \o b) = FieldNames(a) \cup FieldNames(b)
  BY <1>4, LayoutsJoin
<1>6. PICK ab : ab = a \o b  OBVIOUS
<1>7. ab \in Seq(T)  BY <1>5, <1>6
<1>8. /\ ab \o c \in Seq(T) /\ Len(ab \o c) = Len(ab) + Len(c)
      /\ FieldNames(ab \o c) = FieldNames(ab) \cup FieldNames(c)
  BY <1>4, <1>7, LayoutsJoin
<1>9. PICK abc : abc = ab \o c  OBVIOUS
<1>10. abc \in Seq(T)  BY <1>8, <1>9
<1>11. /\ abc \o d \in Seq(T) /\ Len(abc \o d) = Len(abc) + Len(d)
       /\ FieldNames(abc \o d) = FieldNames(abc) \cup FieldNames(d)
  BY <1>4, <1>10, LayoutsJoin
<1>12. FieldNames(abc \o d) = (FieldNames(a) \cup FieldNames(b) \cup FieldNames(c)) \cup FieldNames(d)
  BY <1>5, <1>6, <1>8, <1>9, <1>11
<1>13. (FieldNames(a) \cup FieldNames(b) \cup FieldNames(c)) \cup FieldNames(d) = N \ {"count"}
  BY <1>1, MutationLayouts DEF MutationNames
<1>14. MutationHead = abc \o d  BY <1>1, <1>6, <1>9 DEF MutationHead
<1>15. Len(ab) = 8 /\ Len(abc) = 19 /\ Len(abc \o d) = 20
  BY <1>2, <1>5, <1>6, <1>8, <1>9, <1>11
<1>16. /\ MutationHead \in Seq(T) /\ Len(MutationHead) = 20
       /\ FieldNames(MutationHead) = N \ {"count"}
  BY <1>11, <1>12, <1>13, <1>14, <1>15
<1>17. /\ ab = MutationIds \o MutationMode /\ abc = (MutationIds \o MutationMode) \o MutationDeps
  BY <1>1, <1>6, <1>9
<1>. QED  BY <1>1, <1>3, <1>7, <1>10, <1>15, <1>16, <1>17

(* What is written of a mutation, and where it is. *)
LEMMA MutationWritten ==
    ASSUME NEW m \in MutationType, Len(m.segments) <= MaxSegments, NEW n \in Nat,
           Len(m.segments) = n, NEW v, v = Counted(m, n),
           NEW parts, parts = [i \in DOMAIN m.segments |-> write_segment(m.segments[i])],
           parts \in Seq(Seq(Item)), Len(parts) = n, NEW items, items = encode_mutation(m)
    PROVE  /\ items \in Seq(Item) /\ Len(items) = 21 + Len(FlattenSeq(parts))
           /\ FlattenSeq(parts) \in Seq(Item)
           /\ \A payload \in Seq(Item) : Along(payload, 0, items) =>
                 /\ Along(payload, 0, Written(MutationIds, v))
                 /\ Along(payload, 7, Written(MutationMode, v))
                 /\ Along(payload, 8, Written(MutationDeps, v))
                 /\ Along(payload, 19, Written(MutationFlag \o CountLayout, v))
                 /\ Along(payload, 21, FlattenSeq(parts))
<1>1. PICK N, l, c, w : /\ N = MutationNames /\ l = MutationHead /\ c = CountLayout
                        /\ w = [count |-> n]
  OBVIOUS
<1>2. /\ l \in Seq(Pairs(N)) /\ Len(l) = 20 /\ FieldNames(l) = N \ {"count"}
      /\ c \in Seq(Pairs(N)) /\ Len(c) = 1 /\ FieldNames(c) = {"count"}
  BY <1>1, MutationHeadIs, MutationLayouts
<1>3. /\ \A f \in N : v[f] \in Nat
      /\ \A f \in N \ {"count"} : v[f] = m[f]
      /\ v["count"] = n
  BY <1>1, MutationIs
<1>4. PICK flat : flat = FlattenSeq(parts)  OBVIOUS
<1>5. flat \in Seq(Item)  BY <1>4, FlattenIs
<1>6. items = (Written(l, m) \o Written(c, w)) \o flat
  <2>1. items = Written(U64(<<"attempt", "id", "scope", "profile", "profile_generation", "policy",
                              "policy_generation">>)
                        \o Fields(1, <<"strictness">>)
                        \o U64(<<"topology", "capability", "path", "path_authority", "route",
                                 "route_generation", "constraint", "constraint_generation",
                                 "expected_generation", "supersedes", "supersedes_generation">>)
                        \o Fields(1, <<"derived">>), m)
                \o Written(Fields(4, <<"count">>), [count |-> Len(m.segments)])
                \o FlattenSeq([i \in DOMAIN m.segments |-> write_segment(m.segments[i])])
    <3>1. ~ (Len(m.segments) > MaxSegments)
      <4>1. MaxSegments \in Nat  BY ValidationAssumption
      <4>. QED  BY <4>1
    <3>. QED  BY <3>1, Zenon DEF encode_mutation
  <2>2. l = U64(<<"attempt", "id", "scope", "profile", "profile_generation", "policy",
                  "policy_generation">>)
            \o Fields(1, <<"strictness">>)
            \o U64(<<"topology", "capability", "path", "path_authority", "route",
                     "route_generation", "constraint", "constraint_generation",
                     "expected_generation", "supersedes", "supersedes_generation">>)
            \o Fields(1, <<"derived">>)
    BY <1>1, Zenon
       DEF MutationHead, MutationIds, MutationMode, MutationDeps, MutationFlag, bindings_read
  <2>3. Written(c, w) = Written(Fields(4, <<"count">>), [count |-> Len(m.segments)])
    BY <1>1 DEF CountLayout
  <2>4. flat = FlattenSeq([i \in DOMAIN m.segments |-> write_segment(m.segments[i])])  BY <1>4
  <2>. QED  BY <2>1, <2>2, <2>3, <2>4, Zenon
<1>7. Written(l, m) = Written(l, v)
  <2>1. \A f \in FieldNames(l) : m[f] = v[f]  BY <1>2, <1>3
  <2>. QED  BY <1>2, <2>1, WrittenSame
<1>8. Written(c, w) = Written(c, v)
  <2>1. \A f \in FieldNames(c) : w[f] = v[f]  BY <1>1, <1>2, <1>3
  <2>. QED  BY <1>2, <2>1, WrittenSame
<1>9. PICK x, y : x = Written(l, v) /\ y = Written(c, v)  OBVIOUS
<1>10. x \in Seq(Item) /\ Len(x) = 20
  <2>1. \A f \in FieldNames(l) : v[f] \in Nat  BY <1>2, <1>3
  <2>2. Written(l, v) \in Seq(Item) /\ Len(Written(l, v)) = Len(l)  BY <1>2, <2>1, WrittenIs
  <2>. QED  BY <1>2, <1>9, <2>2
<1>11. y \in Seq(Item) /\ Len(y) = 1
  <2>1. \A f \in FieldNames(c) : v[f] \in Nat  BY <1>1, <1>2, <1>3
  <2>2. Written(c, v) \in Seq(Item) /\ Len(Written(c, v)) = Len(c)  BY <1>2, <2>1, WrittenIs
  <2>. QED  BY <1>2, <1>9, <2>2
<1>12. PICK xy : xy = x \o y  OBVIOUS
<1>13. xy \in Seq(Item) /\ Len(xy) = 21
  <2>1. x \o y \in Seq(Item) /\ Len(x \o y) = Len(x) + Len(y)  BY <1>10, <1>11, LayoutsJoin
  <2>. QED  BY <1>10, <1>11, <1>12, <2>1
<1>14. items = xy \o flat  BY <1>6, <1>7, <1>8, <1>9, <1>12
<1>15. items \in Seq(Item) /\ Len(items) = 21 + Len(flat)
  <2>1. xy \o flat \in Seq(Item) /\ Len(xy \o flat) = Len(xy) + Len(flat)
    BY <1>5, <1>13, LayoutsJoin
  <2>. QED  BY <1>13, <1>14, <2>1
<1>16. ASSUME NEW payload \in Seq(Item), Along(payload, 0, items)
       PROVE  /\ Along(payload, 0, Written(MutationIds, v))
              /\ Along(payload, 7, Written(MutationMode, v))
              /\ Along(payload, 8, Written(MutationDeps, v))
              /\ Along(payload, 19, Written(MutationFlag \o CountLayout, v))
              /\ Along(payload, 21, flat)
  <2>0. PICK at \in Nat : at = 0  OBVIOUS
  <2>1. Along(payload, at, xy) /\ Along(payload, 21, flat)
    <3>1. Along(payload, at, xy \o flat)  BY <1>14, <1>16, <2>0
    <3>2. Along(payload, at, xy) /\ Along(payload, at + Len(xy), flat)
      BY <1>5, <1>13, <3>1, AlongBoth
    <3>. QED  BY <1>13, <2>0, <3>2
  <2>2. Along(payload, at, x) /\ Along(payload, 20, y)
    <3>1. Along(payload, at, x \o y)  BY <1>12, <2>1
    <3>2. Along(payload, at, x) /\ Along(payload, at + Len(x), y)
      BY <1>10, <1>11, <3>1, AlongBoth
    <3>. QED  BY <1>10, <2>0, <3>2
  <2>3. PICK a, b, d, e, ab, abd : /\ a = MutationIds /\ b = MutationMode /\ d = MutationDeps
                                   /\ e = MutationFlag /\ ab = a \o b /\ abd = ab \o d
    OBVIOUS
  <2>4. /\ a \in Seq(Pairs(N)) /\ Len(a) = 7 /\ b \in Seq(Pairs(N)) /\ Len(b) = 1
        /\ d \in Seq(Pairs(N)) /\ Len(d) = 11 /\ e \in Seq(Pairs(N)) /\ Len(e) = 1
    BY <1>1, <2>3, MutationLayouts
  <2>5. ab \in Seq(Pairs(N)) /\ Len(ab) = 8 /\ abd \in Seq(Pairs(N)) /\ Len(abd) = 19
    BY <1>1, <2>3, MutationHeadIs
  <2>6. l = abd \o e  BY <1>1, <2>3 DEF MutationHead
  <2>7. Along(payload, at, Written(abd, v)) /\ Along(payload, 19, Written(e, v))
    <3>1. Along(payload, at, Written(abd \o e, v))  BY <1>9, <2>2, <2>6
    <3>2. Along(payload, at, Written(abd, v)) /\ Along(payload, at + Len(abd), Written(e, v))
      BY <1>3, <2>4, <2>5, <3>1, AlongWritten
    <3>. QED  BY <2>0, <2>5, <3>2
  <2>8. Along(payload, at, Written(ab, v)) /\ Along(payload, 8, Written(d, v))
    <3>1. Along(payload, at, Written(ab \o d, v))  BY <2>3, <2>7
    <3>2. Along(payload, at, Written(ab, v)) /\ Along(payload, at + Len(ab), Written(d, v))
      BY <1>3, <2>4, <2>5, <3>1, AlongWritten
    <3>. QED  BY <2>0, <2>5, <3>2
  <2>9. Along(payload, at, Written(a, v)) /\ Along(payload, 7, Written(b, v))
    <3>1. Along(payload, at, Written(a \o b, v))  BY <2>3, <2>8
    <3>2. Along(payload, at, Written(a, v)) /\ Along(payload, at + Len(a), Written(b, v))
      BY <1>3, <2>4, <3>1, AlongWritten
    <3>. QED  BY <2>0, <2>4, <3>2
  <2>10. Along(payload, 19, Written(e \o c, v))
    <3>1. PICK here \in Nat, there \in Nat : here = 19 /\ there = 20  OBVIOUS
    <3>2. there = here + Len(e)  BY <2>4, <3>1
    <3>3. Along(payload, here, Written(e, v)) /\ Along(payload, there, Written(c, v))
      BY <1>9, <2>2, <2>7, <3>1
    <3>4. Along(payload, here, Written(e \o c, v))
      BY <1>2, <1>3, <2>4, <3>2, <3>3, AlongLayouts
    <3>. QED  BY <3>1, <3>4
  <2>. QED  BY <1>1, <2>0, <2>1, <2>3, <2>7, <2>8, <2>9, <2>10
<1>. QED  BY <1>4, <1>5, <1>15, <1>16

MutationLast == << <<"derived", 1>>, <<"count", 4>> >>
ModeChecks == <<Enumerator("strictness", 1 .. 2)>>
LastChecks == <<Flag("derived"), <<"count", 0 .. MaxSegments, "LimitMaxSegmentsPerList">> >>

(* The last fields before the segments. *)
LEMMA MutationLastIs ==
    /\ MutationLast = MutationFlag \o CountLayout
    /\ MutationLast \in Seq(Pairs(MutationNames)) /\ Len(MutationLast) = 2
    /\ FieldNames(MutationLast) = {"derived", "count"}
<1>1. MutationFlag = << <<"derived", 1>> >> /\ CountLayout = << <<"count", 4>> >>
  BY DEF MutationFlag, CountLayout, Fields
<1>2. MutationLast = MutationFlag \o CountLayout  BY <1>1 DEF MutationLast
<1>3. PICK N, a, b : N = MutationNames /\ a = MutationFlag /\ b = CountLayout  OBVIOUS
<1>4. /\ a \in Seq(Pairs(N)) /\ Len(a) = 1 /\ FieldNames(a) = {"derived"}
      /\ b \in Seq(Pairs(N)) /\ Len(b) = 1 /\ FieldNames(b) = {"count"}
  BY <1>3, MutationLayouts
<1>5. /\ a \o b \in Seq(Pairs(N)) /\ Len(a \o b) = Len(a) + Len(b)
      /\ FieldNames(a \o b) = FieldNames(a) \cup FieldNames(b)
  <2>1. PICK T : T = Pairs(N)  OBVIOUS
  <2>2. a \in Seq(T) /\ b \in Seq(T)  BY <1>4, <2>1
  <2>3. /\ a \o b \in Seq(T) /\ Len(a \o b) = Len(a) + Len(b)
        /\ FieldNames(a \o b) = FieldNames(a) \cup FieldNames(b)
    BY <2>2, LayoutsJoin
  <2>. QED  BY <2>1, <2>3
<1>6. Len(a \o b) = 2 /\ FieldNames(a \o b) = {"derived", "count"}  BY <1>4, <1>5
<1>. QED  BY <1>2, <1>3, <1>5, <1>6

(* What the checks of decode_mutation accept. *)
LEMMA MutationPasses ==
    ASSUME NEW m \in MutationType, NEW n \in Nat, n <= MaxSegments, NEW v, v = Counted(m, n)
    PROVE  /\ Passes(<<>>, MutationIds, v) /\ Passes(ModeChecks, MutationMode, v)
           /\ Passes(<<>>, MutationDeps, v) /\ Passes(LastChecks, MutationLast, v)
<1>1. v["count"] = n /\ v["strictness"] \in 1 .. 2 /\ v["derived"] \in 0 .. 1  BY MutationIs
<1>2. Passes(<<>>, MutationIds, v) /\ Passes(<<>>, MutationDeps, v)  BY DEF Passes
<1>3. Passes(ModeChecks, MutationMode, v)
  <2>1. PICK c : c = ModeChecks  OBVIOUS
  <2>2. DOMAIN c = {1} /\ c[1] = Enumerator("strictness", 1 .. 2)  BY <2>1 DEF ModeChecks
  <2>3. c[1][1] = "strictness" /\ c[1][2] = 1 .. 2  BY <2>2 DEF Enumerator
  <2>4. v[c[1][1]] \in c[1][2] /\ c[1][1] \in FieldNames(MutationMode)
    BY <1>1, <2>3, MutationLayouts
  <2>5. Passes(c, MutationMode, v)  BY <2>2, <2>4 DEF Passes
  <2>. QED  BY <2>1, <2>5
<1>4. Passes(LastChecks, MutationLast, v)
  <2>1. PICK c : c = LastChecks  OBVIOUS
  <2>2. DOMAIN c = {1, 2} /\ c[1] = Flag("derived") /\ c[2][1] = "count" /\ c[2][2] = 0 .. MaxSegments
    BY <2>1 DEF LastChecks
  <2>3. c[1][1] = "derived" /\ c[1][2] = {0, 1}  BY <2>2 DEF Flag
  <2>4. v["derived"] \in {0, 1}  BY <1>1
  <2>5. n \in 0 .. MaxSegments
    <3>1. MaxSegments \in Nat  BY ValidationAssumption
    <3>. QED  BY <3>1
  <2>6. "derived" \in FieldNames(MutationLast) /\ "count" \in FieldNames(MutationLast)
    BY MutationLastIs
  <2>7. /\ v[c[1][1]] \in c[1][2] /\ c[1][1] \in FieldNames(MutationLast)
        /\ v[c[2][1]] \in c[2][2] /\ c[2][1] \in FieldNames(MutationLast)
    BY <1>1, <2>2, <2>3, <2>4, <2>5, <2>6, Zenon
  <2>8. Passes(c, MutationLast, v)  BY <2>2, <2>7 DEF Passes
  <2>. QED  BY <2>1, <2>8
<1>. QED  BY <1>2, <1>3, <1>4

(* Mutations. *)
LEMMA MutationSurvives ==
    ASSUME NEW m \in MutationType, Len(m.segments) <= MaxSegments, NEW payload, NEW good,
           good => ~ \E s \in ToSet(m.segments) : s.kind = "Invalid" \/ Len(s.payload) > MaxPayload
    PROVE  Survives(m, encode_mutation(m), payload, decode_mutation(payload), good)
<1>1. m.segments \in Seq(SentSegment)
  <2>1. PICK z \in Nat : z = 0  OBVIOUS
  <2>. QED  BY <2>1, MutationIs
<1>2. PICK xs, n : xs = m.segments /\ n = Len(m.segments)  OBVIOUS
<1>3. xs \in Seq(SentSegment) /\ n \in Nat /\ Len(xs) = n /\ DOMAIN xs = 1 .. n /\ n <= MaxSegments
      /\ \A i \in 1 .. n : xs[i] \in SentSegment
  BY <1>1, <1>2
<1>4. PICK parts : parts = [i \in DOMAIN m.segments |-> write_segment(m.segments[i])]  OBVIOUS
<1>5. parts = [i \in 1 .. n |-> write_segment(xs[i])]  BY <1>2, <1>3, <1>4
<1>6. \A i \in 1 .. n : write_segment(xs[i]) \in Seq(Item)
  <2>1. PICK none : none = <<>>  OBVIOUS
  <2>2. none \in Seq(Item)  BY <2>1
  <2>. QED  BY <1>3, <2>2, SegmentReads
<1>7. parts \in Seq(Seq(Item)) /\ Len(parts) = n /\ \A i \in 1 .. n : parts[i] = write_segment(xs[i])
  BY <1>3, <1>5, <1>6
<1>8. PICK items, e, v : items = encode_mutation(m) /\ e = decode_mutation(payload) /\ v = Counted(m, n)
  OBVIOUS
<1>9. PICK flat, last : flat = FlattenSeq(parts) /\ last = MutationFlag \o CountLayout  OBVIOUS
<1>10. /\ items \in Seq(Item) /\ Len(items) = 21 + Len(flat) /\ flat \in Seq(Item)
       /\ \A p \in Seq(Item) : Along(p, 0, items) =>
             /\ Along(p, 0, Written(MutationIds, v)) /\ Along(p, 7, Written(MutationMode, v))
             /\ Along(p, 8, Written(MutationDeps, v)) /\ Along(p, 19, Written(last, v))
             /\ Along(p, 21, flat)
  <2>1. /\ n \in Nat /\ Len(m.segments) = n /\ Len(m.segments) <= MaxSegments
        /\ v = Counted(m, n) /\ items = encode_mutation(m)
        /\ parts = [i \in DOMAIN m.segments |-> write_segment(m.segments[i])]
        /\ parts \in Seq(Seq(Item)) /\ Len(parts) = n
    BY <1>2, <1>3, <1>4, <1>7, <1>8
  <2>2. /\ items \in Seq(Item) /\ Len(items) = 21 + Len(FlattenSeq(parts))
        /\ FlattenSeq(parts) \in Seq(Item)
        /\ \A p \in Seq(Item) : Along(p, 0, items) =>
              /\ Along(p, 0, Written(MutationIds, v)) /\ Along(p, 7, Written(MutationMode, v))
              /\ Along(p, 8, Written(MutationDeps, v))
              /\ Along(p, 19, Written(MutationFlag \o CountLayout, v))
              /\ Along(p, 21, FlattenSeq(parts))
    BY <2>1, MutationWritten, Zenon
  <2>. QED  BY <1>9, <2>2
<1>11. PICK k : k = Len(flat)  OBVIOUS
<1>12. k \in Nat /\ Len(items) = 21 + k /\ Len(items) > 0  BY <1>10, <1>11
<1>13. ASSUME payload \in Seq(Item), Along(payload, 0, items)
       PROVE  /\ e.why = "Ok" =>
                    Len(payload) = Len(items) /\ \A f \in DOMAIN m \ {"type"} : e.read[f] = m[f]
              /\ Len(payload) = Len(items) /\ good => e.why = "Ok"
  <2>1. PICK N, l1, l2, l3, l4 : /\ N = MutationNames /\ l1 = MutationIds /\ l2 = MutationMode
                                 /\ l3 = MutationDeps /\ l4 = MutationLast
    OBVIOUS
  <2>2. /\ l1 \in Seq(Pairs(N)) /\ Len(l1) = 7 /\ l2 \in Seq(Pairs(N)) /\ Len(l2) = 1
        /\ l3 \in Seq(Pairs(N)) /\ Len(l3) = 11 /\ l4 \in Seq(Pairs(N)) /\ Len(l4) = 2
    BY <2>1, MutationLayouts, MutationLastIs
  <2>3. PICK F1, F2, F3, F4 : /\ F1 = FieldNames(l1) /\ F2 = F1 \cup FieldNames(l2)
                              /\ F3 = F2 \cup FieldNames(l3) /\ F4 = F3 \cup FieldNames(l4)
    OBVIOUS
  <2>4. F4 = N
    BY <2>1, <2>3, MutationLayouts, MutationLastIs DEF MutationNames
  <2>5. /\ FieldNames(l1) \subseteq N /\ FieldNames(l2) \subseteq N /\ FieldNames(l3) \subseteq N
        /\ FieldNames(l4) \subseteq N /\ F1 \subseteq N /\ F2 \subseteq N /\ F3 \subseteq N
    BY <2>3, <2>4
  <2>6. /\ \A f \in N : v[f] \in Nat
        /\ \A f \in (N \ {"count"}) \cup {"segments"} : v[f] = m[f]
        /\ v["count"] = n /\ DOMAIN m \ {"type"} = (N \ {"count"}) \cup {"segments"}
    BY <1>3, <1>8, <2>1, MutationIs
  <2>7. PICK at \in Nat, p1 \in Nat, p2 \in Nat, p3 \in Nat, p4 \in Nat, end \in Nat :
           at = 0 /\ p1 = 7 /\ p2 = 8 /\ p3 = 19 /\ p4 = 21 /\ end = 21 + k
    BY <1>12
  <2>8. p1 = at + Len(l1) /\ p2 = p1 + Len(l2) /\ p3 = p2 + Len(l3) /\ p4 = p3 + Len(l4)
        /\ end = p4 + k
    BY <2>2, <2>7
  <2>9. /\ Along(payload, at, Written(l1, v)) /\ Along(payload, p1, Written(l2, v))
        /\ Along(payload, p2, Written(l3, v)) /\ Along(payload, p3, Written(l4, v))
        /\ Along(payload, p4, flat)
    BY <1>9, <1>10, <1>13, <2>1, <2>7, MutationLastIs
  <2>10. PICK r, ids, mode, deps, more, all :
            /\ r = Reader(payload) /\ ids = Take(r, l1, <<>>) /\ mode = Take(ids, l2, ModeChecks)
            /\ deps = Take(mode, l3, <<>>) /\ more = Take(deps, l4, LastChecks)
            /\ all = Repeat(more, "segments")
    OBVIOUS
  <2>11. e = AtEnd(all)
    BY <1>8, <2>1, <2>10, Zenon
       DEF decode_mutation, MutationIds, MutationMode, MutationDeps, MutationLast, ModeChecks, LastChecks
  <2>12. Reads(r, payload, at, {}, v) /\ r.why = "Ok"  BY <1>13, <2>7, <2>10, StartReads
  <2>13. PICK there : there <=> end <= Len(payload)  OBVIOUS
  <2>14. there => p1 <= Len(payload) /\ p2 <= Len(payload) /\ p3 <= Len(payload) /\ p4 <= Len(payload)
    BY <1>12, <1>13, <2>7, <2>13
  <2>15. /\ Passes(<<>>, l1, v) /\ Passes(ModeChecks, l2, v) /\ Passes(<<>>, l3, v)
         /\ Passes(LastChecks, l4, v)
    BY <1>3, <1>8, <2>1, MutationPasses
  <2>16. Reads(ids, payload, p1, F1, v) /\ (there => ids.why = "Ok")
    <3>1. BeforeTake(r, payload, at, N, l1, v, {}, v, p1, F1)
      BY <1>13, <2>2, <2>3, <2>5, <2>6, <2>8, <2>9, <2>12 DEF BeforeTake
    <3>2. /\ Reads(ids, payload, p1, F1, v)
          /\ r.why = "Ok" /\ p1 <= Len(payload) /\ Passes(<<>>, l1, v) => ids.why = "Ok"
      BY <2>10, <3>1, TakeReads
    <3>. QED  BY <2>12, <2>14, <2>15, <3>2, Zenon
  <2>17. Reads(mode, payload, p2, F2, v) /\ (there => mode.why = "Ok")
    <3>1. BeforeTake(ids, payload, p1, N, l2, v, F1, v, p2, F2)
      BY <1>13, <2>2, <2>3, <2>5, <2>6, <2>8, <2>9, <2>16 DEF BeforeTake
    <3>2. /\ Reads(mode, payload, p2, F2, v)
          /\ ids.why = "Ok" /\ p2 <= Len(payload) /\ Passes(ModeChecks, l2, v) => mode.why = "Ok"
      BY <2>10, <3>1, TakeReads
    <3>. QED  BY <2>14, <2>15, <2>16, <3>2, Zenon
  <2>18. Reads(deps, payload, p3, F3, v) /\ (there => deps.why = "Ok")
    <3>1. BeforeTake(mode, payload, p2, N, l3, v, F2, v, p3, F3)
      BY <1>13, <2>2, <2>3, <2>5, <2>6, <2>8, <2>9, <2>17 DEF BeforeTake
    <3>2. /\ Reads(deps, payload, p3, F3, v)
          /\ mode.why = "Ok" /\ p3 <= Len(payload) /\ Passes(<<>>, l3, v) => deps.why = "Ok"
      BY <2>10, <3>1, TakeReads
    <3>. QED  BY <2>14, <2>15, <2>17, <3>2, Zenon
  <2>19. Reads(more, payload, p4, N, v) /\ (there => more.why = "Ok")
    <3>1. BeforeTake(deps, payload, p3, N, l4, v, F3, v, p4, N)
      BY <1>13, <2>2, <2>3, <2>4, <2>5, <2>6, <2>8, <2>9, <2>18 DEF BeforeTake
    <3>2. /\ Reads(more, payload, p4, N, v)
          /\ deps.why = "Ok" /\ p4 <= Len(payload) /\ Passes(LastChecks, l4, v) => more.why = "Ok"
      BY <2>10, <3>1, TakeReads
    <3>. QED  BY <2>14, <2>15, <2>18, <3>2, Zenon
  <2>20. PICK name, X, G : name = "segments" /\ X = SentSegment /\ G = N \cup {name}  OBVIOUS
  <2>21. \A i \in 1 .. n : /\ ElementReads(payload, name, parts[i], xs[i])
                           /\ good => ElementPasses(payload, name, parts[i])
    <3>. SUFFICES ASSUME NEW i \in 1 .. n
                  PROVE  /\ ElementReads(payload, name, parts[i], xs[i])
                         /\ good => ElementPasses(payload, name, parts[i])
      OBVIOUS
    <3>1. PICK s \in SentSegment : s = xs[i]  BY <1>3
    <3>2. parts[i] = write_segment(s)  BY <1>7, <3>1
    <3>3. /\ ElementReads(payload, "segments", write_segment(s), s)
          /\ s.kind # "Invalid" /\ Len(s.payload) <= MaxPayload =>
                ElementPasses(payload, "segments", write_segment(s))
      BY <1>13, SegmentReads
    <3>4. good => s.kind # "Invalid" /\ Len(s.payload) <= MaxPayload
      <4>1. s \in ToSet(m.segments)  BY <1>2, <1>3, <3>1 DEF ToSet
      <4>2. s \in SegmentType  BY DEF SentSegment
      <4>3. Len(s.payload) \in Nat /\ MaxPayload \in Nat  BY <4>2, SegmentIs, ValidationAssumption
      <4>4. good => s.kind # "Invalid" /\ ~ (Len(s.payload) > MaxPayload)  BY <4>1
      <4>. QED  BY <4>3, <4>4
    <3>. QED  BY <2>20, <3>1, <3>2, <3>3, <3>4
  <2>22. BeforeRepeat(more, payload, p4, parts, n, name, X, xs, N, v, v, end, G)
    <3>1. "count" \in N  BY <2>1 DEF MutationNames
    <3>2. v[name] = xs  BY <1>2, <2>6, <2>20
    <3>3. Along(payload, p4, FlattenSeq(parts)) /\ end = p4 + Len(FlattenSeq(parts))
      BY <1>9, <1>11, <2>8, <2>9
    <3>. QED  BY <1>3, <1>7, <1>13, <2>6, <2>19, <2>20, <2>21, <3>1, <3>2, <3>3 DEF BeforeRepeat
  <2>23. /\ Reads(Repeat(more, name), payload, end, G, v)
         /\ /\ more.why = "Ok" /\ end <= Len(payload)
            /\ \A i \in 1 .. n : ElementPasses(payload, name, parts[i])
            => Repeat(more, name).why = "Ok"
    BY <2>22, RepeatReads
  <2>24. Reads(all, payload, end, G, v) /\ (there /\ good => all.why = "Ok")
    BY <2>10, <2>13, <2>19, <2>20, <2>21, <2>23, Zenon
  <2>25. /\ AtEnd(all).why = "Ok" => Len(payload) = end /\ \A f \in G : AtEnd(all).read[f] = v[f]
         /\ all.why = "Ok" /\ Len(payload) = end => AtEnd(all).why = "Ok"
    BY <1>13, <2>24, EndReads
  <2>26. /\ e.why = "Ok" => Len(payload) = end /\ \A f \in G : e.read[f] = v[f]
         /\ all.why = "Ok" /\ Len(payload) = end => e.why = "Ok"
    BY <2>11, <2>25, Zenon
  <2>27. Len(items) = end /\ (Len(payload) = end => there)  BY <1>12, <2>7, <2>13
  <2>28. \A f \in DOMAIN m \ {"type"} : f \in G /\ v[f] = m[f]  BY <2>6, <2>20
  <2>29. e.why = "Ok" => Len(payload) = Len(items) /\ \A f \in DOMAIN m \ {"type"} : e.read[f] = m[f]
    <3>. SUFFICES ASSUME e.why = "Ok"
                  PROVE  Len(payload) = Len(items) /\ \A f \in DOMAIN m \ {"type"} : e.read[f] = m[f]
      OBVIOUS
    <3>1. Len(payload) = end /\ \A f \in G : e.read[f] = v[f]  BY <2>26
    <3>2. ASSUME NEW f \in DOMAIN m \ {"type"} PROVE e.read[f] = m[f]  BY <2>28, <3>1
    <3>. QED  BY <2>27, <3>1, <3>2
  <2>. QED  BY <2>24, <2>26, <2>27, <2>29
<1>14. Survives(m, items, payload, e, good)  BY <1>10, <1>12, <1>13 DEF Survives
<1>. QED  BY <1>8, <1>14

(* What a response says beside its reasons and summaries. *)
ResponseNames ==
    {"request_id", "status", "count", "truncated", "list", "generation", "digest_hi", "digest_lo",
     "idempotent_replay", "epoch", "session"}

RequestLayout == U64(<<"request_id">>)
StatusLayout == Fields(1, <<"status">>)
TruncatedLayout == Fields(1, <<"truncated">>)
ListLayout == U64(<<"list", "generation", "digest_hi", "digest_lo">>)
ReplayLayout == Fields(1, <<"idempotent_replay">>)
EpochLayout == U64(<<"epoch", "session">>)

(* Layouts of a few fields. *)
LEMMA ResponseLayouts ==
    LET N == ResponseNames
    IN  /\ RequestLayout \in Seq(Pairs(N)) /\ Len(RequestLayout) = 1
        /\ FieldNames(RequestLayout) = {"request_id"}
        /\ StatusLayout \in Seq(Pairs(N)) /\ Len(StatusLayout) = 1
        /\ FieldNames(StatusLayout) = {"status"}
        /\ CountLayout \in Seq(Pairs(N)) /\ Len(CountLayout) = 1 /\ FieldNames(CountLayout) = {"count"}
        /\ TruncatedLayout \in Seq(Pairs(N)) /\ Len(TruncatedLayout) = 1
        /\ FieldNames(TruncatedLayout) = {"truncated"}
        /\ ListLayout \in Seq(Pairs(N)) /\ Len(ListLayout) = 4
        /\ FieldNames(ListLayout) = {"list", "generation", "digest_hi", "digest_lo"}
        /\ ReplayLayout \in Seq(Pairs(N)) /\ Len(ReplayLayout) = 1
        /\ FieldNames(ReplayLayout) = {"idempotent_replay"}
        /\ EpochLayout \in Seq(Pairs(N)) /\ Len(EpochLayout) = 2
        /\ FieldNames(EpochLayout) = {"epoch", "session"}
<1>1. PICK N, a1, a2, a3, a4, a5, a6, a7 :
         /\ N = ResponseNames /\ a1 = <<"request_id">> /\ a2 = <<"status">> /\ a3 = <<"count">>
         /\ a4 = <<"truncated">> /\ a5 = <<"list", "generation", "digest_hi", "digest_lo">>
         /\ a6 = <<"idempotent_replay">> /\ a7 = <<"epoch", "session">>
  OBVIOUS
<1>2. a1 \in Seq(N) /\ Len(a1) = 1 /\ ToSet(a1) = {"request_id"}  BY <1>1 DEF ResponseNames, ToSet
<1>3. a2 \in Seq(N) /\ Len(a2) = 1 /\ ToSet(a2) = {"status"}  BY <1>1 DEF ResponseNames, ToSet
<1>4. a3 \in Seq(N) /\ Len(a3) = 1 /\ ToSet(a3) = {"count"}  BY <1>1 DEF ResponseNames, ToSet
<1>5. a4 \in Seq(N) /\ Len(a4) = 1 /\ ToSet(a4) = {"truncated"}  BY <1>1 DEF ResponseNames, ToSet
<1>6. a5 \in Seq(N) /\ Len(a5) = 4 /\ ToSet(a5) = {"list", "generation", "digest_hi", "digest_lo"}
  BY <1>1 DEF ResponseNames, ToSet
<1>7. a6 \in Seq(N) /\ Len(a6) = 1 /\ ToSet(a6) = {"idempotent_replay"}
  BY <1>1 DEF ResponseNames, ToSet
<1>8. a7 \in Seq(N) /\ Len(a7) = 2 /\ ToSet(a7) = {"epoch", "session"}
  BY <1>1 DEF ResponseNames, ToSet
<1>9. /\ RequestLayout = Fields(8, a1) /\ StatusLayout = Fields(1, a2) /\ CountLayout = Fields(4, a3)
      /\ TruncatedLayout = Fields(1, a4) /\ ListLayout = Fields(8, a5)
      /\ ReplayLayout = Fields(1, a6) /\ EpochLayout = Fields(8, a7)
  BY <1>1 DEF RequestLayout, StatusLayout, CountLayout, TruncatedLayout, ListLayout, ReplayLayout,
              EpochLayout, U64
<1>10. /\ Fields(8, a1) \in Seq(Pairs(N)) /\ Len(Fields(8, a1)) = Len(a1)
       /\ FieldNames(Fields(8, a1)) = ToSet(a1)
  BY <1>2, LayoutIs
<1>11. /\ Fields(1, a2) \in Seq(Pairs(N)) /\ Len(Fields(1, a2)) = Len(a2)
       /\ FieldNames(Fields(1, a2)) = ToSet(a2)
  BY <1>3, LayoutIs
<1>12. /\ Fields(4, a3) \in Seq(Pairs(N)) /\ Len(Fields(4, a3)) = Len(a3)
       /\ FieldNames(Fields(4, a3)) = ToSet(a3)
  BY <1>4, LayoutIs
<1>13. /\ Fields(1, a4) \in Seq(Pairs(N)) /\ Len(Fields(1, a4)) = Len(a4)
       /\ FieldNames(Fields(1, a4)) = ToSet(a4)
  BY <1>5, LayoutIs
<1>14. /\ Fields(8, a5) \in Seq(Pairs(N)) /\ Len(Fields(8, a5)) = Len(a5)
       /\ FieldNames(Fields(8, a5)) = ToSet(a5)
  BY <1>6, LayoutIs
<1>15. /\ Fields(1, a6) \in Seq(Pairs(N)) /\ Len(Fields(1, a6)) = Len(a6)
       /\ FieldNames(Fields(1, a6)) = ToSet(a6)
  BY <1>7, LayoutIs
<1>16. /\ Fields(8, a7) \in Seq(Pairs(N)) /\ Len(Fields(8, a7)) = Len(a7)
       /\ FieldNames(Fields(8, a7)) = ToSet(a7)
  BY <1>8, LayoutIs
<1>17. /\ RequestLayout \in Seq(Pairs(N)) /\ Len(RequestLayout) = 1
       /\ FieldNames(RequestLayout) = {"request_id"}
  BY <1>2, <1>9, <1>10
<1>18. /\ StatusLayout \in Seq(Pairs(N)) /\ Len(StatusLayout) = 1
       /\ FieldNames(StatusLayout) = {"status"}
  BY <1>3, <1>9, <1>11
<1>19. CountLayout \in Seq(Pairs(N)) /\ Len(CountLayout) = 1 /\ FieldNames(CountLayout) = {"count"}
  BY <1>4, <1>9, <1>12
<1>20. /\ TruncatedLayout \in Seq(Pairs(N)) /\ Len(TruncatedLayout) = 1
       /\ FieldNames(TruncatedLayout) = {"truncated"}
  BY <1>5, <1>9, <1>13
<1>21. /\ ListLayout \in Seq(Pairs(N)) /\ Len(ListLayout) = 4
       /\ FieldNames(ListLayout) = {"list", "generation", "digest_hi", "digest_lo"}
  BY <1>6, <1>9, <1>14
<1>22. /\ ReplayLayout \in Seq(Pairs(N)) /\ Len(ReplayLayout) = 1
       /\ FieldNames(ReplayLayout) = {"idempotent_replay"}
  BY <1>7, <1>9, <1>15
<1>23. /\ EpochLayout \in Seq(Pairs(N)) /\ Len(EpochLayout) = 2
       /\ FieldNames(EpochLayout) = {"epoch", "session"}
  BY <1>8, <1>9, <1>16
<1>24. N = ResponseNames  BY <1>1
<1>. QED  BY <1>17, <1>18, <1>19, <1>20, <1>21, <1>22, <1>23, <1>24

ResponseHead == RequestLayout \o StatusLayout
ResponseBody == (ListLayout \o ReplayLayout) \o EpochLayout
ResponseMiddle == ((TruncatedLayout \o ListLayout) \o ReplayLayout) \o EpochLayout

Joined(N, a, b, c) == a \in Seq(Pairs(N)) /\ b \in Seq(Pairs(N)) /\ c = a \o b

(* Two layouts, with what they are. *)
LEMMA JoinedLayout ==
    ASSUME NEW N, NEW a, NEW b, NEW c, Joined(N, a, b, c)
    PROVE  /\ c \in Seq(Pairs(N)) /\ Len(c) = Len(a) + Len(b)
           /\ FieldNames(c) = FieldNames(a) \cup FieldNames(b)
<1>1. PICK T : T = Pairs(N)  OBVIOUS
<1>2. a \in Seq(T) /\ b \in Seq(T) /\ c = a \o b  BY <1>1 DEF Joined
<1>3. /\ a \o b \in Seq(T) /\ Len(a \o b) = Len(a) + Len(b)
      /\ FieldNames(a \o b) = FieldNames(a) \cup FieldNames(b)
  BY <1>2, LayoutsJoin
<1>. QED  BY <1>1, <1>2, <1>3

(* Layouts of several widths. *)
LEMMA ResponseParts ==
    LET N == ResponseNames
    IN  /\ ResponseHead \in Seq(Pairs(N)) /\ Len(ResponseHead) = 2
        /\ FieldNames(ResponseHead) = {"request_id", "status"}
        /\ ResponseBody \in Seq(Pairs(N)) /\ Len(ResponseBody) = 7
        /\ FieldNames(ResponseBody) = {"list", "generation", "digest_hi", "digest_lo",
                                       "idempotent_replay", "epoch", "session"}
        /\ ResponseMiddle \in Seq(Pairs(N)) /\ Len(ResponseMiddle) = 8
        /\ FieldNames(ResponseMiddle) \subseteq N \ {"count"}
<1>1. PICK N, a, b, t, l, i, p : /\ N = ResponseNames /\ a = RequestLayout /\ b = StatusLayout
                                 /\ t = TruncatedLayout /\ l = ListLayout /\ i = ReplayLayout
                                 /\ p = EpochLayout
  OBVIOUS
<1>2. /\ a \in Seq(Pairs(N)) /\ Len(a) = 1 /\ FieldNames(a) = {"request_id"}
      /\ b \in Seq(Pairs(N)) /\ Len(b) = 1 /\ FieldNames(b) = {"status"}
      /\ t \in Seq(Pairs(N)) /\ Len(t) = 1 /\ FieldNames(t) = {"truncated"}
      /\ l \in Seq(Pairs(N)) /\ Len(l) = 4
      /\ FieldNames(l) = {"list", "generation", "digest_hi", "digest_lo"}
      /\ i \in Seq(Pairs(N)) /\ Len(i) = 1 /\ FieldNames(i) = {"idempotent_replay"}
      /\ p \in Seq(Pairs(N)) /\ Len(p) = 2 /\ FieldNames(p) = {"epoch", "session"}
  BY <1>1, ResponseLayouts
<1>3. PICK ab, li, lip, tl, tli, tlip : /\ ab = a \o b /\ li = l \o i /\ lip = li \o p
                                        /\ tl = t \o l /\ tli = tl \o i /\ tlip = tli \o p
  OBVIOUS
<1>4. ab \in Seq(Pairs(N)) /\ Len(ab) = Len(a) + Len(b) /\ FieldNames(ab) = FieldNames(a) \cup FieldNames(b)
  <2>1. Joined(N, a, b, ab)  BY <1>2, <1>3 DEF Joined
  <2>. QED  BY <2>1, JoinedLayout
<1>5. li \in Seq(Pairs(N)) /\ Len(li) = Len(l) + Len(i) /\ FieldNames(li) = FieldNames(l) \cup FieldNames(i)
  <2>1. Joined(N, l, i, li)  BY <1>2, <1>3 DEF Joined
  <2>. QED  BY <2>1, JoinedLayout
<1>6. /\ lip \in Seq(Pairs(N)) /\ Len(lip) = Len(li) + Len(p)
      /\ FieldNames(lip) = FieldNames(li) \cup FieldNames(p)
  <2>1. Joined(N, li, p, lip)  BY <1>2, <1>3, <1>5 DEF Joined
  <2>. QED  BY <2>1, JoinedLayout
<1>7. tl \in Seq(Pairs(N)) /\ Len(tl) = Len(t) + Len(l) /\ FieldNames(tl) = FieldNames(t) \cup FieldNames(l)
  <2>1. Joined(N, t, l, tl)  BY <1>2, <1>3 DEF Joined
  <2>. QED  BY <2>1, JoinedLayout
<1>8. /\ tli \in Seq(Pairs(N)) /\ Len(tli) = Len(tl) + Len(i)
      /\ FieldNames(tli) = FieldNames(tl) \cup FieldNames(i)
  <2>1. Joined(N, tl, i, tli)  BY <1>2, <1>3, <1>7 DEF Joined
  <2>. QED  BY <2>1, JoinedLayout
<1>9. /\ tlip \in Seq(Pairs(N)) /\ Len(tlip) = Len(tli) + Len(p)
      /\ FieldNames(tlip) = FieldNames(tli) \cup FieldNames(p)
  <2>1. Joined(N, tli, p, tlip)  BY <1>2, <1>3, <1>8 DEF Joined
  <2>. QED  BY <2>1, JoinedLayout
<1>10. ResponseHead = ab /\ ResponseBody = lip /\ ResponseMiddle = tlip
  BY <1>1, <1>3 DEF ResponseHead, ResponseBody, ResponseMiddle
<1>11. Len(ab) = 2 /\ Len(lip) = 7 /\ Len(tlip) = 8
  BY <1>2, <1>4, <1>5, <1>6, <1>7, <1>8, <1>9
<1>12. /\ FieldNames(ab) = {"request_id", "status"}
       /\ FieldNames(lip) = {"list", "generation", "digest_hi", "digest_lo", "idempotent_replay",
                             "epoch", "session"}
  BY <1>2, <1>4, <1>5, <1>6
<1>13. FieldNames(tlip) \subseteq N \ {"count"}
  BY <1>1, <1>2, <1>7, <1>8, <1>9 DEF ResponseNames
<1>. QED  BY <1>1, <1>4, <1>6, <1>9, <1>10, <1>11, <1>12, <1>13

(* The fields of a response. *)
LEMMA ResponseIs ==
    ASSUME NEW m \in ResponseType, NEW n \in Nat, NEW v, v = Counted(m, n)
    PROVE  /\ DOMAIN m \ {"type"} = (ResponseNames \ {"count"}) \cup {"reasons", "summaries"}
           /\ \A f \in ResponseNames : v[f] \in Nat
           /\ \A f \in (ResponseNames \ {"count"}) \cup {"reasons", "summaries"} : v[f] = m[f]
           /\ v["count"] = n /\ v["status"] \in 0 .. 7 /\ v["truncated"] \in 0 .. 1
           /\ v["idempotent_replay"] \in 0 .. 1
           /\ m.reasons \in Seq(SentReason) /\ m.summaries \in Seq(SentSummary)
<1>1. DOMAIN m = (ResponseNames \ {"count"}) \cup {"reasons", "summaries", "type"}
  BY DEF ResponseType, ResponseNames
<1>2. /\ m.reasons \in Seq(SentReason) /\ m.summaries \in Seq(SentSummary)
      /\ m["status"] \in 0 .. 7 /\ m["truncated"] \in 0 .. 1 /\ m["idempotent_replay"] \in 0 .. 1
  BY DEF ResponseType
<1>3. "count" \notin DOMAIN m  BY <1>1 DEF ResponseNames
<1>4. v["count"] = n /\ \A f \in DOMAIN m : v[f] = m[f]  BY <1>3 DEF Counted
<1>5. DOMAIN m \ {"type"} = (ResponseNames \ {"count"}) \cup {"reasons", "summaries"}
  BY <1>1 DEF ResponseNames
<1>6. \A f \in (ResponseNames \ {"count"}) \cup {"reasons", "summaries"} : v[f] = m[f]  BY <1>4, <1>5
<1>7. v["status"] \in 0 .. 7 /\ v["truncated"] \in 0 .. 1 /\ v["idempotent_replay"] \in 0 .. 1
  <2>1. {"status", "truncated", "idempotent_replay"} \subseteq DOMAIN m  BY <1>1 DEF ResponseNames
  <2>. QED  BY <1>2, <1>4, <2>1
<1>8. \A f \in ResponseNames \ {"count", "status", "truncated", "idempotent_replay"} : m[f] \in Nat
  BY DEF ResponseType, ResponseNames
<1>9. ASSUME NEW f \in ResponseNames PROVE v[f] \in Nat
  <2>1. CASE f = "count"  BY <1>4, <2>1
  <2>2. CASE f \in {"status", "truncated", "idempotent_replay"}  BY <1>7, <2>2
  <2>3. CASE f \notin {"count", "status", "truncated", "idempotent_replay"}
    <3>1. m[f] \in Nat /\ v[f] = m[f]  BY <1>6, <1>8, <2>3
    <3>. QED  BY <3>1
  <2>. QED  BY <2>1, <2>2, <2>3
<1>. QED  BY <1>2, <1>4, <1>5, <1>6, <1>7, <1>9

(* A layout, whose fields have the values v and are written from u. *)
PartOf(N, l, u, v) ==
    /\ l \in Seq(Pairs(N)) /\ FieldNames(l) \subseteq N
    /\ \A f \in N : v[f] \in Nat
    /\ \A f \in FieldNames(l) : u[f] = v[f]

(* What is written of it. *)
LEMMA PartWritten ==
    ASSUME NEW N, NEW l, NEW v, NEW u, PartOf(N, l, u, v)
    PROVE  Written(l, u) = Written(l, v) /\ Written(l, v) \in Seq(Item) /\ Len(Written(l, v)) = Len(l)
<1>0. l \in Seq(Pairs(N)) /\ \A f \in FieldNames(l) : u[f] = v[f]  BY DEF PartOf
<1>1. \A f \in FieldNames(l) : v[f] \in Nat  BY DEF PartOf
<1>2. Written(l, v) \in Seq(Item) /\ Len(Written(l, v)) = Len(l)  BY <1>0, <1>1, WrittenIs
<1>3. Written(l, u) = Written(l, v)  BY <1>0, WrittenSame
<1>. QED  BY <1>2, <1>3

Follows(c, a, b, k, n, end) ==
    /\ a \in Seq(Item) /\ b \in Seq(Item) /\ k \in Nat /\ n \in Nat /\ Len(a) = k /\ Len(b) = n
    /\ c = a \o b /\ end = k + n

(* Of two parts one after the other, each is at its place. *)
LEMMA FollowsAlong ==
    ASSUME NEW a, NEW b, NEW c, NEW k, NEW n, NEW end, Follows(c, a, b, k, n, end)
    PROVE  /\ c \in Seq(Item) /\ Len(c) = end
           /\ \A payload \in Seq(Item) :
                 Along(payload, 0, c) => Along(payload, 0, a) /\ Along(payload, k, b)
<1>1. /\ a \in Seq(Item) /\ b \in Seq(Item) /\ k \in Nat /\ n \in Nat /\ Len(a) = k /\ Len(b) = n
      /\ c = a \o b /\ end = k + n
  BY DEF Follows
<1>2. a \o b \in Seq(Item) /\ Len(a \o b) = Len(a) + Len(b)  BY <1>1, LayoutsJoin
<1>3. ASSUME NEW payload \in Seq(Item), Along(payload, 0, c)
      PROVE  Along(payload, 0, a) /\ Along(payload, k, b)
  <2>1. PICK at \in Nat : at = 0  OBVIOUS
  <2>2. Along(payload, at, a \o b)  BY <1>1, <1>3, <2>1
  <2>3. Along(payload, at, a) /\ Along(payload, at + Len(a), b)  BY <1>1, <2>2, AlongBoth
  <2>4. at + Len(a) = k  BY <1>1, <2>1
  <2>. QED  BY <2>1, <2>3, <2>4
<1>. QED  BY <1>1, <1>2, <1>3

(* The middle of a response, and where its parts are. *)
LEMMA MiddleAlong ==
    ASSUME NEW v, \A f \in ResponseNames : v[f] \in Nat, NEW payload \in Seq(Item), NEW at \in Nat,
           Along(payload, at, Written(ResponseMiddle, v))
    PROVE  /\ Along(payload, at, Written(TruncatedLayout, v))
           /\ Along(payload, at + 1, Written(ResponseBody, v))
<1>1. PICK N, t, l, i, p : /\ N = ResponseNames /\ t = TruncatedLayout /\ l = ListLayout
                           /\ i = ReplayLayout /\ p = EpochLayout
  OBVIOUS
<1>2. /\ t \in Seq(Pairs(N)) /\ Len(t) = 1 /\ l \in Seq(Pairs(N)) /\ Len(l) = 4
      /\ i \in Seq(Pairs(N)) /\ Len(i) = 1 /\ p \in Seq(Pairs(N)) /\ Len(p) = 2
  BY <1>1, ResponseLayouts
<1>3. PICK tl, tli, li : tl = t \o l /\ tli = tl \o i /\ li = l \o i  OBVIOUS
<1>4. tl \in Seq(Pairs(N)) /\ Len(tl) = 5
  <2>1. Joined(N, t, l, tl)  BY <1>2, <1>3 DEF Joined
  <2>2. tl \in Seq(Pairs(N)) /\ Len(tl) = Len(t) + Len(l)  BY <2>1, JoinedLayout
  <2>. QED  BY <1>2, <2>2
<1>5. tli \in Seq(Pairs(N)) /\ Len(tli) = 6
  <2>1. Joined(N, tl, i, tli)  BY <1>2, <1>3, <1>4 DEF Joined
  <2>2. tli \in Seq(Pairs(N)) /\ Len(tli) = Len(tl) + Len(i)  BY <2>1, JoinedLayout
  <2>. QED  BY <1>2, <1>4, <2>2
<1>6. li \in Seq(Pairs(N)) /\ Len(li) = 5
  <2>1. Joined(N, l, i, li)  BY <1>2, <1>3 DEF Joined
  <2>2. li \in Seq(Pairs(N)) /\ Len(li) = Len(l) + Len(i)  BY <2>1, JoinedLayout
  <2>. QED  BY <1>2, <2>2
<1>7. ResponseMiddle = tli \o p /\ ResponseBody = li \o p
  BY <1>1, <1>3 DEF ResponseMiddle, ResponseBody
<1>8. \A f \in N : v[f] \in Nat  BY <1>1
<1>9. Along(payload, at, Written(tli, v)) /\ Along(payload, at + 6, Written(p, v))
  <2>1. Along(payload, at, Written(tli \o p, v))  BY <1>7
  <2>2. Along(payload, at, Written(tli, v)) /\ Along(payload, at + Len(tli), Written(p, v))
    BY <1>2, <1>5, <1>8, <2>1, AlongWritten
  <2>. QED  BY <1>5, <2>2
<1>10. Along(payload, at, Written(tl, v)) /\ Along(payload, at + 5, Written(i, v))
  <2>1. Along(payload, at, Written(tl \o i, v))  BY <1>3, <1>9
  <2>2. Along(payload, at, Written(tl, v)) /\ Along(payload, at + Len(tl), Written(i, v))
    BY <1>2, <1>4, <1>8, <2>1, AlongWritten
  <2>. QED  BY <1>4, <2>2
<1>11. Along(payload, at, Written(t, v)) /\ Along(payload, at + 1, Written(l, v))
  <2>1. Along(payload, at, Written(t \o l, v))  BY <1>3, <1>10
  <2>2. Along(payload, at, Written(t, v)) /\ Along(payload, at + Len(t), Written(l, v))
    BY <1>2, <1>8, <2>1, AlongWritten
  <2>. QED  BY <1>2, <2>2
<1>12. PICK p1 \in Nat, p5 \in Nat, p6 \in Nat : p1 = at + 1 /\ p5 = at + 5 /\ p6 = at + 6  OBVIOUS
<1>13. p5 = p1 + Len(l) /\ p6 = p1 + Len(li)  BY <1>2, <1>6, <1>12
<1>14. /\ Along(payload, p1, Written(l, v)) /\ Along(payload, p5, Written(i, v))
       /\ Along(payload, p6, Written(p, v))
  BY <1>9, <1>10, <1>11, <1>12
<1>15. Along(payload, p1, Written(l \o i, v))  BY <1>2, <1>8, <1>13, <1>14, AlongLayouts
<1>16. Along(payload, p1, Written(li, v))  BY <1>3, <1>15
<1>17. Along(payload, p1, Written(li \o p, v))
  BY <1>2, <1>6, <1>8, <1>13, <1>14, <1>16, AlongLayouts
<1>. QED  BY <1>1, <1>7, <1>11, <1>12, <1>17

(* The parts of a response that is encoded. *)
ResponseSent(m, nr, ns, v, w, flat, last, kr, ks, items) ==
    /\ Len(m.summaries) <= MaxSummaries /\ nr \in Nat /\ Len(m.reasons) = nr
    /\ ns \in Nat /\ Len(m.summaries) = ns /\ v = Counted(m, nr) /\ w = Counted(m, ns)
    /\ flat = FlattenSeq([i \in DOMAIN m.reasons |-> encode_reason(m.reasons[i])])
    /\ last = FlattenSeq([i \in DOMAIN m.summaries |-> encode_summary(m.summaries[i])])
    /\ flat \in Seq(Item) /\ last \in Seq(Item)
    /\ kr \in Nat /\ kr = Len(flat) /\ ks \in Nat /\ ks = Len(last) /\ items = encode_response(m)

(* What is written of a response, and where it is. *)
LEMMA ResponseWritten ==
    ASSUME NEW m \in ResponseType, NEW nr, NEW ns, NEW v, NEW w, NEW flat, NEW last, NEW kr, NEW ks,
           NEW items, ResponseSent(m, nr, ns, v, w, flat, last, kr, ks, items)
    PROVE  /\ items \in Seq(Item) /\ Len(items) = (12 + kr) + ks
           /\ \A payload \in Seq(Item) : Along(payload, 0, items) =>
                 /\ Along(payload, 0, Written(ResponseHead, v))
                 /\ Along(payload, 2, Written(CountLayout, v))
                 /\ Along(payload, 3, flat)
                 /\ Along(payload, 3 + kr, Written(TruncatedLayout, v))
                 /\ Along(payload, 4 + kr, Written(ResponseBody, v))
                 /\ Along(payload, 11 + kr, Written(CountLayout, w))
                 /\ Along(payload, 12 + kr, last)
<1>. /\ Len(m.summaries) <= MaxSummaries /\ nr \in Nat /\ Len(m.reasons) = nr
     /\ ns \in Nat /\ Len(m.summaries) = ns /\ v = Counted(m, nr) /\ w = Counted(m, ns)
     /\ flat = FlattenSeq([i \in DOMAIN m.reasons |-> encode_reason(m.reasons[i])])
     /\ last = FlattenSeq([i \in DOMAIN m.summaries |-> encode_summary(m.summaries[i])])
     /\ flat \in Seq(Item) /\ last \in Seq(Item)
     /\ kr \in Nat /\ kr = Len(flat) /\ ks \in Nat /\ ks = Len(last) /\ items = encode_response(m)
  BY DEF ResponseSent
<1>1. PICK N, h, c, l, x, y : /\ N = ResponseNames /\ h = ResponseHead /\ c = CountLayout
                              /\ l = ResponseMiddle /\ x = [count |-> nr] /\ y = [count |-> ns]
  OBVIOUS
<1>2. /\ h \in Seq(Pairs(N)) /\ Len(h) = 2 /\ FieldNames(h) = {"request_id", "status"}
      /\ c \in Seq(Pairs(N)) /\ Len(c) = 1 /\ FieldNames(c) = {"count"}
      /\ l \in Seq(Pairs(N)) /\ Len(l) = 8 /\ FieldNames(l) \subseteq N \ {"count"}
  BY <1>1, ResponseLayouts, ResponseParts
<1>3. FieldNames(h) \subseteq N \ {"count"} /\ FieldNames(c) \subseteq N
  BY <1>1, <1>2 DEF ResponseNames
<1>4. /\ \A f \in N : v[f] \in Nat
      /\ \A f \in N \ {"count"} : v[f] = m[f]
      /\ v["count"] = nr
  BY <1>1, ResponseIs
<1>5. /\ \A f \in N : w[f] \in Nat
      /\ w["count"] = ns
  BY <1>1, ResponseIs
<1>6. items = ((((Written(h, m) \o Written(c, x)) \o flat) \o Written(l, m)) \o Written(c, y)) \o last
  <2>1. ~ (Len(m.summaries) > MaxSummaries)
    <3>1. MaxSummaries \in Nat  BY MessageAssumption
    <3>. QED  BY <3>1
  <2>2. items = Written(U64(<<"request_id">>) \o Fields(1, <<"status">>), m)
                \o Written(Fields(4, <<"count">>), [count |-> Len(m.reasons)])
                \o FlattenSeq([i \in DOMAIN m.reasons |-> encode_reason(m.reasons[i])])
                \o Written(Fields(1, <<"truncated">>)
                           \o U64(<<"list", "generation", "digest_hi", "digest_lo">>)
                           \o Fields(1, <<"idempotent_replay">>) \o U64(<<"epoch", "session">>), m)
                \o Written(Fields(4, <<"count">>), [count |-> Len(m.summaries)])
                \o FlattenSeq([i \in DOMAIN m.summaries |-> encode_summary(m.summaries[i])])
    BY <2>1, Zenon DEF encode_response
  <2>3. h = U64(<<"request_id">>) \o Fields(1, <<"status">>)
    BY <1>1 DEF ResponseHead, RequestLayout, StatusLayout
  <2>4. l = Fields(1, <<"truncated">>) \o U64(<<"list", "generation", "digest_hi", "digest_lo">>)
            \o Fields(1, <<"idempotent_replay">>) \o U64(<<"epoch", "session">>)
    BY <1>1, Zenon DEF ResponseMiddle, TruncatedLayout, ListLayout, ReplayLayout, EpochLayout
  <2>5. /\ Written(c, x) = Written(Fields(4, <<"count">>), [count |-> Len(m.reasons)])
        /\ Written(c, y) = Written(Fields(4, <<"count">>), [count |-> Len(m.summaries)])
    BY <1>1 DEF CountLayout
  <2>. QED  BY <2>2, <2>3, <2>4, <2>5, Zenon
<1>7. PICK a, b, d, e : /\ a = Written(h, v) /\ b = Written(c, v) /\ d = Written(l, v)
                        /\ e = Written(c, w)
  OBVIOUS
<1>8. Written(h, m) = a /\ a \in Seq(Item) /\ Len(a) = 2
  <2>1. FieldNames(h) \subseteq N /\ \A f \in FieldNames(h) : m[f] = v[f]  BY <1>3, <1>4
  <2>2. PartOf(N, h, m, v)  BY <1>2, <1>4, <2>1 DEF PartOf
  <2>3. Written(h, m) = Written(h, v) /\ Written(h, v) \in Seq(Item) /\ Len(Written(h, v)) = Len(h)
    BY <2>2, PartWritten
  <2>. QED  BY <1>2, <1>7, <2>3
<1>9. Written(c, x) = b /\ b \in Seq(Item) /\ Len(b) = 1
  <2>1. \A f \in FieldNames(c) : x[f] = v[f]  BY <1>1, <1>2, <1>4
  <2>2. PartOf(N, c, x, v)  BY <1>2, <1>3, <1>4, <2>1 DEF PartOf
  <2>3. Written(c, x) = Written(c, v) /\ Written(c, v) \in Seq(Item) /\ Len(Written(c, v)) = Len(c)
    BY <2>2, PartWritten
  <2>. QED  BY <1>2, <1>7, <2>3
<1>10. Written(l, m) = d /\ d \in Seq(Item) /\ Len(d) = 8
  <2>1. FieldNames(l) \subseteq N /\ \A f \in FieldNames(l) : m[f] = v[f]  BY <1>2, <1>4
  <2>2. PartOf(N, l, m, v)  BY <1>2, <1>4, <2>1 DEF PartOf
  <2>3. Written(l, m) = Written(l, v) /\ Written(l, v) \in Seq(Item) /\ Len(Written(l, v)) = Len(l)
    BY <2>2, PartWritten
  <2>. QED  BY <1>2, <1>7, <2>3
<1>11. Written(c, y) = e /\ e \in Seq(Item) /\ Len(e) = 1
  <2>1. \A f \in FieldNames(c) : y[f] = w[f]  BY <1>1, <1>2, <1>5
  <2>2. PartOf(N, c, y, w)  BY <1>2, <1>3, <1>5, <2>1 DEF PartOf
  <2>3. Written(c, y) = Written(c, w) /\ Written(c, w) \in Seq(Item) /\ Len(Written(c, w)) = Len(c)
    BY <2>2, PartWritten
  <2>. QED  BY <1>2, <1>7, <2>3
<1>12. PICK s2, s3, s4, s5 : s2 = a \o b /\ s3 = s2 \o flat /\ s4 = s3 \o d /\ s5 = s4 \o e  OBVIOUS
<1>13. PICK n1, n2, n3, n4, n5, n8 :
          /\ n1 = 1 /\ n2 = 2 /\ n3 = 3 /\ n4 = 3 + kr /\ n5 = 11 + kr /\ n8 = 8
  OBVIOUS
<1>14. n1 \in Nat /\ n2 \in Nat /\ n3 \in Nat /\ n4 \in Nat /\ n5 \in Nat /\ n8 \in Nat
       /\ n2 + n1 = n3 /\ n3 + kr = n4 /\ n4 + n8 = n5 /\ n5 + n1 = 12 + kr
  BY <1>13
<1>15. /\ s2 \in Seq(Item) /\ Len(s2) = n3
       /\ \A p \in Seq(Item) : Along(p, 0, s2) => Along(p, 0, a) /\ Along(p, n2, b)
  <2>1. Follows(s2, a, b, n2, n1, n3)  BY <1>14, <1>8, <1>9, <1>12, <1>13 DEF Follows
  <2>. QED  BY <2>1, FollowsAlong
<1>16. /\ s3 \in Seq(Item) /\ Len(s3) = n4
       /\ \A p \in Seq(Item) : Along(p, 0, s3) => Along(p, 0, s2) /\ Along(p, n3, flat)
  <2>1. Follows(s3, s2, flat, n3, kr, n4)  BY <1>14, <1>12, <1>15 DEF Follows
  <2>. QED  BY <2>1, FollowsAlong
<1>17. /\ s4 \in Seq(Item) /\ Len(s4) = n5
       /\ \A p \in Seq(Item) : Along(p, 0, s4) => Along(p, 0, s3) /\ Along(p, n4, d)
  <2>1. Follows(s4, s3, d, n4, n8, n5)  BY <1>14, <1>10, <1>12, <1>13, <1>16 DEF Follows
  <2>. QED  BY <2>1, FollowsAlong
<1>18. PICK n6 : n6 = 12 + kr  OBVIOUS
<1>19. n6 \in Nat /\ n5 + n1 = n6  BY <1>14, <1>18
<1>20. /\ s5 \in Seq(Item) /\ Len(s5) = n6
       /\ \A p \in Seq(Item) : Along(p, 0, s5) => Along(p, 0, s4) /\ Along(p, n5, e)
  <2>1. Follows(s5, s4, e, n5, n1, n6)  BY <1>14, <1>19, <1>11, <1>12, <1>13, <1>17 DEF Follows
  <2>. QED  BY <2>1, FollowsAlong
<1>0. PICK end : end = n6 + ks  OBVIOUS
<1>21. /\ items \in Seq(Item) /\ Len(items) = end
       /\ \A p \in Seq(Item) : Along(p, 0, items) => Along(p, 0, s5) /\ Along(p, n6, last)
  <2>1. items = s5 \o last  BY <1>6, <1>8, <1>9, <1>10, <1>11, <1>12
  <2>2. Follows(items, s5, last, n6, ks, end)  BY <1>0, <1>19, <1>20, <2>1 DEF Follows
  <2>. QED  BY <2>2, FollowsAlong
<1>22. ASSUME NEW payload \in Seq(Item), Along(payload, 0, items)
       PROVE  /\ Along(payload, 0, a) /\ Along(payload, 2, b) /\ Along(payload, 3, flat)
              /\ Along(payload, 3 + kr, Written(TruncatedLayout, v))
              /\ Along(payload, 4 + kr, Written(ResponseBody, v))
              /\ Along(payload, 11 + kr, e) /\ Along(payload, 12 + kr, last)
  <2>1. Along(payload, 0, s5) /\ Along(payload, n6, last)  BY <1>21, <1>22
  <2>2. Along(payload, 0, s4) /\ Along(payload, n5, e)  BY <1>20, <2>1
  <2>3. Along(payload, 0, s3) /\ Along(payload, n4, d)  BY <1>17, <2>2
  <2>4. Along(payload, 0, s2) /\ Along(payload, n3, flat)  BY <1>16, <2>3
  <2>5. Along(payload, 0, a) /\ Along(payload, n2, b)  BY <1>15, <2>4
  <2>6. /\ Along(payload, n4, Written(TruncatedLayout, v))
        /\ Along(payload, n4 + 1, Written(ResponseBody, v))
    <3>1. Along(payload, n4, Written(ResponseMiddle, v))  BY <1>1, <1>7, <2>3
    <3>2. \A f \in ResponseNames : v[f] \in Nat  BY <1>1, <1>4
    <3>. QED  BY <1>14, <3>1, <3>2, MiddleAlong
  <2>7. n4 + 1 = 4 + kr  BY <1>13
  <2>. QED  BY <1>13, <1>18, <2>1, <2>2, <2>3, <2>4, <2>5, <2>6, <2>7
<1>. QED  BY <1>0, <1>1, <1>7, <1>18, <1>21, <1>22

StatusChecks == <<Enumerator("status", 0 .. 7)>>
ReasonChecks == << <<"count", 0 .. MaxReasons, "LimitMaxReasons">> >>
TruncatedChecks == <<Flag("truncated")>>
ReplayChecks == <<Flag("idempotent_replay")>>
SummaryChecks == << <<"count", 0 .. MaxSummaries, "LimitMaxLists">> >>

(* One check. *)
LEMMA OneCheck ==
    ASSUME NEW c, DOMAIN c = {1}, NEW f, c[1][1] = f, NEW S, c[1][2] = S, NEW l, f \in FieldNames(l),
           NEW v, v[f] \in S
    PROVE  Passes(c, l, v)
BY DEF Passes

(* What the checks of decode_response accept. *)
LEMMA ResponsePasses ==
    ASSUME NEW m \in ResponseType, NEW nr \in Nat, NEW ns \in Nat,
           NEW v, v = Counted(m, nr), NEW w, w = Counted(m, ns)
    PROVE  /\ Passes(StatusChecks, ResponseHead, v)
           /\ nr <= MaxReasons => Passes(ReasonChecks, CountLayout, v)
           /\ Passes(TruncatedChecks, TruncatedLayout, v)
           /\ Passes(ReplayChecks, ResponseBody, v)
           /\ ns <= MaxSummaries => Passes(SummaryChecks, CountLayout, w)
<1>1. /\ v["count"] = nr /\ v["status"] \in 0 .. 7 /\ v["truncated"] \in 0 .. 1
      /\ v["idempotent_replay"] \in 0 .. 1
  BY ResponseIs
<1>2. w["count"] = ns  BY ResponseIs
<1>3. /\ "status" \in FieldNames(ResponseHead) /\ "count" \in FieldNames(CountLayout)
      /\ "truncated" \in FieldNames(TruncatedLayout) /\ "idempotent_replay" \in FieldNames(ResponseBody)
  BY ResponseLayouts, ResponseParts
<1>4. MaxReasons \in Nat /\ MaxSummaries \in Nat  BY ValidationAssumption, MessageAssumption
<1>5. Passes(StatusChecks, ResponseHead, v)
  <2>1. PICK c, f, S : c = StatusChecks /\ f = "status" /\ S = 0 .. 7  OBVIOUS
  <2>2. DOMAIN c = {1} /\ c[1][1] = f /\ c[1][2] = S  BY <2>1 DEF StatusChecks, Enumerator
  <2>3. v[f] \in S /\ f \in FieldNames(ResponseHead)  BY <1>1, <1>3, <2>1
  <2>4. Passes(c, ResponseHead, v)  BY <2>2, <2>3, OneCheck
  <2>. QED  BY <2>1, <2>4
<1>6. ASSUME nr <= MaxReasons PROVE Passes(ReasonChecks, CountLayout, v)
  <2>1. PICK c, f, S : c = ReasonChecks /\ f = "count" /\ S = 0 .. MaxReasons  OBVIOUS
  <2>2. DOMAIN c = {1} /\ c[1][1] = f /\ c[1][2] = S  BY <2>1 DEF ReasonChecks
  <2>3. v[f] \in S /\ f \in FieldNames(CountLayout)  BY <1>1, <1>3, <1>4, <1>6, <2>1
  <2>4. Passes(c, CountLayout, v)  BY <2>2, <2>3, OneCheck
  <2>. QED  BY <2>1, <2>4
<1>7. Passes(TruncatedChecks, TruncatedLayout, v)
  <2>1. PICK c, f, S : c = TruncatedChecks /\ f = "truncated" /\ S = {0, 1}  OBVIOUS
  <2>2. DOMAIN c = {1} /\ c[1][1] = f /\ c[1][2] = S  BY <2>1 DEF TruncatedChecks, Flag
  <2>3. v[f] \in S /\ f \in FieldNames(TruncatedLayout)  BY <1>1, <1>3, <2>1
  <2>4. Passes(c, TruncatedLayout, v)  BY <2>2, <2>3, OneCheck
  <2>. QED  BY <2>1, <2>4
<1>8. Passes(ReplayChecks, ResponseBody, v)
  <2>1. PICK c, f, S : c = ReplayChecks /\ f = "idempotent_replay" /\ S = {0, 1}  OBVIOUS
  <2>2. DOMAIN c = {1} /\ c[1][1] = f /\ c[1][2] = S  BY <2>1 DEF ReplayChecks, Flag
  <2>3. v[f] \in S /\ f \in FieldNames(ResponseBody)  BY <1>1, <1>3, <2>1
  <2>4. Passes(c, ResponseBody, v)  BY <2>2, <2>3, OneCheck
  <2>. QED  BY <2>1, <2>4
<1>9. ASSUME ns <= MaxSummaries PROVE Passes(SummaryChecks, CountLayout, w)
  <2>1. PICK c, f, S : c = SummaryChecks /\ f = "count" /\ S = 0 .. MaxSummaries  OBVIOUS
  <2>2. DOMAIN c = {1} /\ c[1][1] = f /\ c[1][2] = S  BY <2>1 DEF SummaryChecks
  <2>3. w[f] \in S /\ f \in FieldNames(CountLayout)  BY <1>2, <1>3, <1>4, <1>9, <2>1
  <2>4. Passes(c, CountLayout, w)  BY <2>2, <2>3, OneCheck
  <2>. QED  BY <2>1, <2>4
<1>. QED  BY <1>5, <1>6, <1>7, <1>8, <1>9

(* The elements of a response. *)
LEMMA ResponseElements ==
    ASSUME NEW m \in ResponseType
    PROVE  /\ LET parts == [i \in DOMAIN m.reasons |-> encode_reason(m.reasons[i])]
              IN  parts \in Seq(Seq(Item)) /\ Len(parts) = Len(m.reasons)
                  /\ \A i \in 1 .. Len(m.reasons) : parts[i] = encode_reason(m.reasons[i])
           /\ LET parts == [i \in DOMAIN m.summaries |-> encode_summary(m.summaries[i])]
              IN  parts \in Seq(Seq(Item)) /\ Len(parts) = Len(m.summaries)
                  /\ \A i \in 1 .. Len(m.summaries) : parts[i] = encode_summary(m.summaries[i])
<1>1. m.reasons \in Seq(SentReason) /\ m.summaries \in Seq(SentSummary)
  <2>1. PICK z \in Nat : z = 0  OBVIOUS
  <2>. QED  BY <2>1, ResponseIs
<1>2. PICK none : none = <<>>  OBVIOUS
<1>3. none \in Seq(Item)  BY <1>2
<1>4. PICK xs, ys, n, k : /\ xs = m.reasons /\ ys = m.summaries /\ n = Len(m.reasons)
                          /\ k = Len(m.summaries)
  OBVIOUS
<1>5. /\ n \in Nat /\ DOMAIN xs = 1 .. n /\ k \in Nat /\ DOMAIN ys = 1 .. k
      /\ (\A i \in 1 .. n : xs[i] \in SentReason) /\ (\A i \in 1 .. k : ys[i] \in SentSummary)
  BY <1>1, <1>4
<1>6. \A i \in 1 .. n : encode_reason(xs[i]) \in Seq(Item)  BY <1>3, <1>5, ReasonReads
<1>7. \A i \in 1 .. k : encode_summary(ys[i]) \in Seq(Item)  BY <1>3, <1>5, SummaryReads
<1>8. PICK a, b : /\ a = [i \in DOMAIN m.reasons |-> encode_reason(m.reasons[i])]
                  /\ b = [i \in DOMAIN m.summaries |-> encode_summary(m.summaries[i])]
  OBVIOUS
<1>9. a = [i \in 1 .. n |-> encode_reason(xs[i])] /\ b = [i \in 1 .. k |-> encode_summary(ys[i])]
  BY <1>4, <1>5, <1>8
<1>10. /\ a \in Seq(Seq(Item)) /\ Len(a) = n /\ \A i \in 1 .. n : a[i] = encode_reason(xs[i])
  BY <1>5, <1>6, <1>9
<1>11. /\ b \in Seq(Seq(Item)) /\ Len(b) = k /\ \A i \in 1 .. k : b[i] = encode_summary(ys[i])
  BY <1>5, <1>7, <1>9
<1>. QED  BY <1>4, <1>8, <1>10, <1>11

(* Responses. *)
LEMMA ResponseSurvives ==
    ASSUME NEW m \in ResponseType, Len(m.summaries) <= MaxSummaries, NEW payload, NEW good,
           good => Len(m.reasons) <= MaxReasons
    PROVE  Survives(m, encode_response(m), payload, decode_response(payload), good)
<1>1. m.reasons \in Seq(SentReason) /\ m.summaries \in Seq(SentSummary)
  <2>1. PICK z \in Nat : z = 0  OBVIOUS
  <2>. QED  BY <2>1, ResponseIs
<1>2. PICK xs, ys, nr, ns, rs, ss :
         /\ xs = m.reasons /\ ys = m.summaries /\ nr = Len(m.reasons) /\ ns = Len(m.summaries)
         /\ rs = [i \in DOMAIN m.reasons |-> encode_reason(m.reasons[i])]
         /\ ss = [i \in DOMAIN m.summaries |-> encode_summary(m.summaries[i])]
  OBVIOUS
<1>3. /\ xs \in Seq(SentReason) /\ Len(xs) = nr /\ nr \in Nat
      /\ ys \in Seq(SentSummary) /\ Len(ys) = ns /\ ns \in Nat
      /\ (\A i \in 1 .. nr : xs[i] \in SentReason) /\ (\A i \in 1 .. ns : ys[i] \in SentSummary)
  BY <1>1, <1>2
<1>4. /\ rs \in Seq(Seq(Item)) /\ Len(rs) = nr /\ \A i \in 1 .. nr : rs[i] = encode_reason(xs[i])
  BY <1>2, ResponseElements
<1>5. /\ ss \in Seq(Seq(Item)) /\ Len(ss) = ns /\ \A i \in 1 .. ns : ss[i] = encode_summary(ys[i])
  BY <1>2, ResponseElements
<1>6. PICK items, e, v, w, flat, last, kr, ks :
         /\ items = encode_response(m) /\ e = decode_response(payload)
         /\ v = Counted(m, nr) /\ w = Counted(m, ns)
         /\ flat = FlattenSeq(rs) /\ last = FlattenSeq(ss) /\ kr = Len(flat) /\ ks = Len(last)
  OBVIOUS
<1>7. flat \in Seq(Item) /\ kr \in Nat /\ last \in Seq(Item) /\ ks \in Nat
  <2>1. FlattenSeq(rs) \in Seq(Item)  BY <1>3, <1>4, FlattenIs
  <2>2. FlattenSeq(ss) \in Seq(Item)  BY <1>3, <1>5, FlattenIs
  <2>3. flat \in Seq(Item) /\ last \in Seq(Item)  BY <1>6, <2>1, <2>2
  <2>. QED  BY <1>6, <2>3
<1>8. /\ items \in Seq(Item) /\ Len(items) = (12 + kr) + ks
      /\ \A p \in Seq(Item) : Along(p, 0, items) =>
            /\ Along(p, 0, Written(ResponseHead, v)) /\ Along(p, 2, Written(CountLayout, v))
            /\ Along(p, 3, flat) /\ Along(p, 3 + kr, Written(TruncatedLayout, v))
            /\ Along(p, 4 + kr, Written(ResponseBody, v))
            /\ Along(p, 11 + kr, Written(CountLayout, w)) /\ Along(p, 12 + kr, last)
  <2>1. ResponseSent(m, nr, ns, v, w, flat, last, kr, ks, items)
    BY <1>2, <1>3, <1>6, <1>7 DEF ResponseSent
  <2>. QED  BY <2>1, ResponseWritten
<1>9. Len(items) > 0  BY <1>7, <1>8
<1>10. ASSUME payload \in Seq(Item), Along(payload, 0, items)
       PROVE  /\ e.why = "Ok" =>
                    Len(payload) = Len(items) /\ \A f \in DOMAIN m \ {"type"} : e.read[f] = m[f]
              /\ Len(payload) = Len(items) /\ good => e.why = "Ok"
  <2>1. PICK N, l1, l2, l3, l4 : /\ N = ResponseNames /\ l1 = ResponseHead /\ l2 = CountLayout
                                 /\ l3 = TruncatedLayout /\ l4 = ResponseBody
    OBVIOUS
  <2>2. /\ l1 \in Seq(Pairs(N)) /\ Len(l1) = 2 /\ l2 \in Seq(Pairs(N)) /\ Len(l2) = 1
        /\ l3 \in Seq(Pairs(N)) /\ Len(l3) = 1 /\ l4 \in Seq(Pairs(N)) /\ Len(l4) = 7
    BY <2>1, ResponseLayouts, ResponseParts
  <2>3. PICK F1, F2, F3, F4, F5, G :
           /\ F1 = FieldNames(l1) /\ F2 = F1 \cup FieldNames(l2) /\ F3 = F2 \cup {"reasons"}
           /\ F4 = F3 \cup FieldNames(l3) /\ F5 = F4 \cup FieldNames(l4) /\ G = F5 \cup {"summaries"}
    OBVIOUS
  <2>4. /\ FieldNames(l1) = {"request_id", "status"} /\ FieldNames(l2) = {"count"}
        /\ FieldNames(l3) = {"truncated"}
        /\ FieldNames(l4) = {"list", "generation", "digest_hi", "digest_lo", "idempotent_replay",
                             "epoch", "session"}
    BY <2>1, ResponseLayouts, ResponseParts
  <2>5. F5 = N \cup {"reasons"} /\ "count" \in F2 /\ "count" \in F5
    BY <2>1, <2>3, <2>4 DEF ResponseNames
  <2>6. /\ FieldNames(l1) \subseteq N /\ FieldNames(l2) \subseteq N /\ FieldNames(l3) \subseteq N
        /\ FieldNames(l4) \subseteq N
    BY <2>1, <2>4 DEF ResponseNames
  <2>7. /\ \A f \in N : v[f] \in Nat
        /\ \A f \in (N \ {"count"}) \cup {"reasons", "summaries"} : v[f] = m[f]
        /\ v["count"] = nr /\ DOMAIN m \ {"type"} = (N \ {"count"}) \cup {"reasons", "summaries"}
    BY <1>3, <1>6, <2>1, ResponseIs
  <2>8. /\ \A f \in N : w[f] \in Nat
        /\ \A f \in (N \ {"count"}) \cup {"reasons", "summaries"} : w[f] = m[f]
        /\ w["count"] = ns
    BY <1>3, <1>6, <2>1, ResponseIs
  <2>9. PICK p0, p1, p2, p3, p4, p5, p6, end :
           /\ p0 = 0 /\ p1 = 2 /\ p2 = 3 /\ p3 = 3 + kr /\ p4 = 4 + kr /\ p5 = 11 + kr /\ p6 = 12 + kr
           /\ end = (12 + kr) + ks
    OBVIOUS
  <2>10. /\ p0 \in Nat /\ p1 \in Nat /\ p2 \in Nat /\ p3 \in Nat /\ p4 \in Nat /\ p5 \in Nat
         /\ p6 \in Nat /\ end \in Nat
         /\ p1 = p0 + Len(l1) /\ p2 = p1 + Len(l2) /\ p3 = p2 + kr /\ p4 = p3 + Len(l3)
         /\ p5 = p4 + Len(l4) /\ p6 = p5 + Len(l2) /\ end = p6 + ks
    BY <1>7, <2>2, <2>9
  <2>11. /\ Along(payload, p0, Written(l1, v)) /\ Along(payload, p1, Written(l2, v))
         /\ Along(payload, p2, flat) /\ Along(payload, p3, Written(l3, v))
         /\ Along(payload, p4, Written(l4, v)) /\ Along(payload, p5, Written(l2, w))
         /\ Along(payload, p6, last)
    BY <1>8, <1>10, <2>1, <2>9
  <2>12. PICK r, head, counted, reasons, flagged, body, again, all :
            /\ r = Reader(payload) /\ head = Take(r, l1, StatusChecks)
            /\ counted = Take(head, l2, ReasonChecks) /\ reasons = Repeat(counted, "reasons")
            /\ flagged = Take(reasons, l3, TruncatedChecks) /\ body = Take(flagged, l4, ReplayChecks)
            /\ again = Take(body, l2, SummaryChecks) /\ all = Repeat(again, "summaries")
    OBVIOUS
  <2>13. e = AtEnd(all)
    BY <1>6, <2>1, <2>12, Zenon
       DEF decode_response, ResponseHead, RequestLayout, StatusLayout, CountLayout, TruncatedLayout,
           ResponseBody, ListLayout, ReplayLayout, EpochLayout, StatusChecks, ReasonChecks,
           TruncatedChecks, ReplayChecks, SummaryChecks
  <2>14. Reads(r, payload, p0, {}, v) /\ r.why = "Ok"  BY <1>10, <2>9, <2>12, StartReads
  <2>15. PICK there : there <=> end <= Len(payload) /\ good  OBVIOUS
  <2>16. there => /\ p1 <= Len(payload) /\ p2 <= Len(payload) /\ p3 <= Len(payload)
                  /\ p4 <= Len(payload) /\ p5 <= Len(payload) /\ p6 <= Len(payload)
                  /\ end <= Len(payload)
    BY <1>7, <1>10, <2>9, <2>15
  <2>17. /\ Passes(StatusChecks, l1, v) /\ Passes(TruncatedChecks, l3, v) /\ Passes(ReplayChecks, l4, v)
         /\ Passes(SummaryChecks, l2, w)
         /\ there => Passes(ReasonChecks, l2, v)
    <3>1. nr \in Nat /\ ns \in Nat /\ ns <= MaxSummaries /\ (there => nr <= MaxReasons)
      BY <1>2, <1>3, <2>15
    <3>. QED  BY <1>6, <2>1, <3>1, ResponsePasses
  <2>18. Reads(head, payload, p1, F1, v) /\ (there => head.why = "Ok")
    <3>1. BeforeTake(r, payload, p0, N, l1, v, {}, v, p1, F1)
      BY <1>10, <2>2, <2>3, <2>6, <2>7, <2>10, <2>11, <2>14 DEF BeforeTake
    <3>2. /\ Reads(head, payload, p1, F1, v)
          /\ r.why = "Ok" /\ p1 <= Len(payload) /\ Passes(StatusChecks, l1, v) => head.why = "Ok"
      BY <2>12, <3>1, TakeReads
    <3>. QED  BY <2>14, <2>16, <2>17, <3>2, Zenon
  <2>19. Reads(counted, payload, p2, F2, v) /\ (there => counted.why = "Ok")
    <3>1. BeforeTake(head, payload, p1, N, l2, v, F1, v, p2, F2)
      BY <1>10, <2>2, <2>3, <2>6, <2>7, <2>10, <2>11, <2>18 DEF BeforeTake
    <3>2. /\ Reads(counted, payload, p2, F2, v)
          /\ head.why = "Ok" /\ p2 <= Len(payload) /\ Passes(ReasonChecks, l2, v) => counted.why = "Ok"
      BY <2>12, <3>1, TakeReads
    <3>. QED  BY <2>16, <2>17, <2>18, <3>2, Zenon
  <2>20. Reads(reasons, payload, p3, F3, v) /\ (there => reasons.why = "Ok")
    <3>1. PICK name, X : name = "reasons" /\ X = SentReason  OBVIOUS
    <3>2. ASSUME NEW i \in 1 .. nr
          PROVE  ElementReads(payload, name, rs[i], xs[i]) /\ ElementPasses(payload, name, rs[i])
      <4>1. PICK x \in SentReason : x = xs[i]  BY <1>3
      <4>2. rs[i] = encode_reason(x)  BY <1>4, <4>1
      <4>3. /\ ElementReads(payload, "reasons", encode_reason(x), x)
            /\ ElementPasses(payload, "reasons", encode_reason(x))
        BY <1>10, ReasonReads
      <4>. QED  BY <3>1, <4>1, <4>2, <4>3
    <3>3. v[name] = xs  BY <1>2, <2>7, <3>1
    <3>4. Along(payload, p2, FlattenSeq(rs)) /\ p3 = p2 + Len(FlattenSeq(rs)) /\ F3 = F2 \cup {name}
      BY <1>6, <2>3, <2>10, <2>11, <3>1
    <3>5. BeforeRepeat(counted, payload, p2, rs, nr, name, X, xs, F2, v, v, p3, F3)
      BY <1>3, <1>4, <1>10, <2>5, <2>7, <2>10, <2>19, <3>1, <3>2, <3>3, <3>4 DEF BeforeRepeat
    <3>6. /\ Reads(Repeat(counted, name), payload, p3, F3, v)
          /\ /\ counted.why = "Ok" /\ p3 <= Len(payload)
             /\ \A i \in 1 .. nr : ElementPasses(payload, name, rs[i])
             => Repeat(counted, name).why = "Ok"
      BY <3>5, RepeatReads
    <3>. QED  BY <2>12, <2>16, <2>19, <3>1, <3>2, <3>6, Zenon
  <2>21. Reads(flagged, payload, p4, F4, v) /\ (there => flagged.why = "Ok")
    <3>1. BeforeTake(reasons, payload, p3, N, l3, v, F3, v, p4, F4)
      BY <1>10, <2>2, <2>3, <2>6, <2>7, <2>10, <2>11, <2>20 DEF BeforeTake
    <3>2. /\ Reads(flagged, payload, p4, F4, v)
          /\ reasons.why = "Ok" /\ p4 <= Len(payload) /\ Passes(TruncatedChecks, l3, v) =>
                flagged.why = "Ok"
      BY <2>12, <3>1, TakeReads
    <3>. QED  BY <2>16, <2>17, <2>20, <3>2, Zenon
  <2>22. Reads(body, payload, p5, F5, v) /\ (there => body.why = "Ok")
    <3>1. BeforeTake(flagged, payload, p4, N, l4, v, F4, v, p5, F5)
      BY <1>10, <2>2, <2>3, <2>6, <2>7, <2>10, <2>11, <2>21 DEF BeforeTake
    <3>2. /\ Reads(body, payload, p5, F5, v)
          /\ flagged.why = "Ok" /\ p5 <= Len(payload) /\ Passes(ReplayChecks, l4, v) => body.why = "Ok"
      BY <2>12, <3>1, TakeReads
    <3>. QED  BY <2>16, <2>17, <2>21, <3>2, Zenon
  <2>23. Reads(again, payload, p6, F5, w) /\ (there => again.why = "Ok")
    <3>1. \A f \in F5 \ FieldNames(l2) : v[f] = w[f]
      <4>. SUFFICES ASSUME NEW f \in F5 \ FieldNames(l2) PROVE v[f] = w[f]  OBVIOUS
      <4>1. f \in (N \ {"count"}) \cup {"reasons", "summaries"}  BY <2>4, <2>5
      <4>. QED  BY <2>7, <2>8, <4>1
    <3>2. F5 = F5 \cup FieldNames(l2)  BY <2>4, <2>5
    <3>3. BeforeTake(body, payload, p5, N, l2, w, F5, v, p6, F5)
      BY <1>10, <2>2, <2>6, <2>8, <2>10, <2>11, <2>22, <3>1, <3>2 DEF BeforeTake
    <3>4. /\ Reads(again, payload, p6, F5, w)
          /\ body.why = "Ok" /\ p6 <= Len(payload) /\ Passes(SummaryChecks, l2, w) => again.why = "Ok"
      BY <2>12, <3>3, TakeReads
    <3>. QED  BY <2>16, <2>17, <2>22, <3>4, Zenon
  <2>24. Reads(all, payload, end, G, w) /\ (there => all.why = "Ok")
    <3>1. PICK name, X : name = "summaries" /\ X = SentSummary  OBVIOUS
    <3>2. ASSUME NEW i \in 1 .. ns
          PROVE  ElementReads(payload, name, ss[i], ys[i]) /\ ElementPasses(payload, name, ss[i])
      <4>1. PICK x \in SentSummary : x = ys[i]  BY <1>3
      <4>2. ss[i] = encode_summary(x)  BY <1>5, <4>1
      <4>3. /\ ElementReads(payload, "summaries", encode_summary(x), x)
            /\ ElementPasses(payload, "summaries", encode_summary(x))
        BY <1>10, SummaryReads
      <4>. QED  BY <3>1, <4>1, <4>2, <4>3
    <3>3. w[name] = ys  BY <1>2, <2>8, <3>1
    <3>4. Along(payload, p6, FlattenSeq(ss)) /\ end = p6 + Len(FlattenSeq(ss)) /\ G = F5 \cup {name}
      BY <1>6, <2>3, <2>10, <2>11, <3>1
    <3>5. BeforeRepeat(again, payload, p6, ss, ns, name, X, ys, F5, w, w, end, G)
      BY <1>3, <1>5, <1>10, <2>5, <2>8, <2>10, <2>23, <3>1, <3>2, <3>3, <3>4 DEF BeforeRepeat
    <3>6. /\ Reads(Repeat(again, name), payload, end, G, w)
          /\ /\ again.why = "Ok" /\ end <= Len(payload)
             /\ \A i \in 1 .. ns : ElementPasses(payload, name, ss[i])
             => Repeat(again, name).why = "Ok"
      BY <3>5, RepeatReads
    <3>. QED  BY <2>12, <2>16, <2>23, <3>1, <3>2, <3>6, Zenon
  <2>25. /\ AtEnd(all).why = "Ok" => Len(payload) = end /\ \A f \in G : AtEnd(all).read[f] = w[f]
         /\ all.why = "Ok" /\ Len(payload) = end => AtEnd(all).why = "Ok"
    <3>1. end \in Nat  BY <2>10
    <3>. QED  BY <1>10, <2>24, <3>1, EndReads
  <2>26. /\ e.why = "Ok" => Len(payload) = end /\ \A f \in G : e.read[f] = w[f]
         /\ all.why = "Ok" /\ Len(payload) = end => e.why = "Ok"
    BY <2>13, <2>25, Zenon
  <2>27. Len(items) = end /\ (Len(payload) = end /\ good => there)
    BY <1>8, <1>10, <2>9, <2>10, <2>15
  <2>28. \A f \in DOMAIN m \ {"type"} : f \in G /\ w[f] = m[f]
    <3>. SUFFICES ASSUME NEW f \in DOMAIN m \ {"type"} PROVE f \in G /\ w[f] = m[f]  OBVIOUS
    <3>1. f \in (N \ {"count"}) \cup {"reasons", "summaries"}  BY <2>7
    <3>2. w[f] = m[f]  BY <2>8, <3>1
    <3>3. f \in G  BY <2>3, <2>5, <3>1
    <3>. QED  BY <3>2, <3>3
  <2>29. e.why = "Ok" => Len(payload) = Len(items) /\ \A f \in DOMAIN m \ {"type"} : e.read[f] = m[f]
    <3>. SUFFICES ASSUME e.why = "Ok"
                  PROVE  Len(payload) = Len(items) /\ \A f \in DOMAIN m \ {"type"} : e.read[f] = m[f]
      OBVIOUS
    <3>1. Len(payload) = end /\ \A f \in G : e.read[f] = w[f]  BY <2>26
    <3>2. ASSUME NEW f \in DOMAIN m \ {"type"} PROVE e.read[f] = m[f]  BY <2>28, <3>1
    <3>. QED  BY <2>27, <3>1, <3>2
  <2>. QED  BY <2>24, <2>26, <2>27, <2>29
<1>11. Survives(m, items, payload, e, good)  BY <1>8, <1>9, <1>10 DEF Survives
<1>. QED  BY <1>6, <1>11

(* Whatever is sent. *)
LEMMA MessageSurvives ==
    ASSUME NEW m \in MessageType, encode(m) # None, NEW payload, NEW good, good => ~ Refusable(m)
    PROVE  Survives(m, encode(m), payload, decode(m.type, payload), good)
<1>1. CASE m \in HelloType
  <2>1. m.type = "Hello"  BY <1>1 DEF HelloType
  <2>2. encode(m) = encode_hello(m) /\ decode(m.type, payload) = decode_hello(payload)
    BY <2>1 DEF encode, decode
  <2>. QED  BY <1>1, <2>2, HelloSurvives
<1>2. CASE m \in HelloAckType
  <2>1. m.type = "HelloAck"  BY <1>2 DEF HelloAckType
  <2>2. encode(m) = encode_hello_ack(m) /\ decode(m.type, payload) = decode_hello_ack(payload)
    BY <2>1 DEF encode, decode
  <2>. QED  BY <1>2, <2>2, HelloAckSurvives
<1>3. CASE m \in HeartbeatType
  <2>1. m.type = "Heartbeat"  BY <1>3 DEF HeartbeatType
  <2>2. encode(m) = encode_heartbeat(m) /\ decode(m.type, payload) = decode_heartbeat(payload)
    BY <2>1 DEF encode, decode
  <2>. QED  BY <1>3, <2>2, HeartbeatSurvives
<1>4. CASE m \in LifecycleType
  <2>1. m.type = "Lifecycle"  BY <1>4 DEF LifecycleType
  <2>2. encode(m) = encode_lifecycle(m) /\ decode(m.type, payload) = decode_lifecycle(payload)
    BY <2>1 DEF encode, decode
  <2>. QED  BY <1>4, <2>2, LifecycleSurvives
<1>5. CASE m \in GetType
  <2>1. m.type = "Get"  BY <1>5 DEF GetType
  <2>2. encode(m) = encode_get(m) /\ decode(m.type, payload) = decode_get(payload)
    BY <2>1 DEF encode, decode
  <2>. QED  BY <1>5, <2>2, GetSurvives
<1>6. CASE m \in MutationType
  <2>1. m.type = "Mutation" /\ m.segments \in Seq(SentSegment)  BY <1>6 DEF MutationType
  <2>2. encode(m) = encode_mutation(m) /\ decode(m.type, payload) = decode_mutation(payload)
    BY <2>1 DEF encode, decode
  <2>3. Len(m.segments) <= MaxSegments
    <3>1. ~ (Len(m.segments) > MaxSegments)  BY <2>2 DEF encode_mutation
    <3>2. Len(m.segments) \in Nat /\ MaxSegments \in Nat  BY <2>1, ValidationAssumption
    <3>. QED  BY <3>1, <3>2
  <2>4. good => ~ \E s \in ToSet(m.segments) : s.kind = "Invalid" \/ Len(s.payload) > MaxPayload
    BY <2>1 DEF Refusable
  <2>. QED  BY <1>6, <2>2, <2>3, <2>4, MutationSurvives
<1>7. CASE m \in ResponseType
  <2>1. m.type = "Response"  BY <1>7 DEF ResponseType
  <2>2. encode(m) = encode_response(m) /\ decode(m.type, payload) = decode_response(payload)
    BY <2>1 DEF encode, decode
  <2>3. m.reasons \in Seq(SentReason) /\ m.summaries \in Seq(SentSummary)  BY <1>7 DEF ResponseType
  <2>4. /\ Len(m.reasons) \in Nat /\ Len(m.summaries) \in Nat /\ MaxReasons \in Nat
        /\ MaxSummaries \in Nat
    BY <2>3, ValidationAssumption, MessageAssumption
  <2>5. Len(m.summaries) <= MaxSummaries
    <3>1. ~ (Len(m.summaries) > MaxSummaries)  BY <2>2 DEF encode_response
    <3>. QED  BY <2>4, <3>1
  <2>6. good => Len(m.reasons) <= MaxReasons
    <3>1. good => ~ (Len(m.reasons) > MaxReasons)  BY <2>1 DEF Refusable
    <3>. QED  BY <2>4, <3>1
  <2>. QED  BY <1>7, <2>2, <2>5, <2>6, ResponseSurvives
<1>. QED  BY <1>1, <1>2, <1>3, <1>4, <1>5, <1>6, <1>7 DEF MessageType

(* What is not encoded is refused by both ends. *)
LEMMA NotEncodedIsRefusable ==
    ASSUME NEW m \in MessageType, encode(m) = None
    PROVE  Refusable(m)
<1>. SUFFICES ASSUME ~ Refusable(m) PROVE FALSE  OBVIOUS
<1>0. None \notin Seq(Item)  BY MessageAssumption
<1>1. PICK good, payload : good = FALSE /\ payload = <<>>  OBVIOUS
<1>2. CASE m \in HelloType
  <2>1. m.type = "Hello"  BY <1>2 DEF HelloType
  <2>2. encode(m) = encode_hello(m)  BY <2>1 DEF encode
  <2>3. encode_hello(m) \in Seq(Item)  BY <1>2, HelloSurvives DEF Survives
  <2>. QED  BY <1>0, <2>2, <2>3
<1>3. CASE m \in HelloAckType
  <2>1. m.type = "HelloAck"  BY <1>3 DEF HelloAckType
  <2>2. encode(m) = encode_hello_ack(m)  BY <2>1 DEF encode
  <2>3. encode_hello_ack(m) \in Seq(Item)  BY <1>3, HelloAckSurvives DEF Survives
  <2>. QED  BY <1>0, <2>2, <2>3
<1>4. CASE m \in HeartbeatType
  <2>1. m.type = "Heartbeat"  BY <1>4 DEF HeartbeatType
  <2>2. encode(m) = encode_heartbeat(m)  BY <2>1 DEF encode
  <2>3. encode_heartbeat(m) \in Seq(Item)  BY <1>4, HeartbeatSurvives DEF Survives
  <2>. QED  BY <1>0, <2>2, <2>3
<1>5. CASE m \in LifecycleType
  <2>1. m.type = "Lifecycle"  BY <1>5 DEF LifecycleType
  <2>2. encode(m) = encode_lifecycle(m)  BY <2>1 DEF encode
  <2>3. encode_lifecycle(m) \in Seq(Item)  BY <1>5, LifecycleSurvives DEF Survives
  <2>. QED  BY <1>0, <2>2, <2>3
<1>6. CASE m \in GetType
  <2>1. m.type = "Get"  BY <1>6 DEF GetType
  <2>2. encode(m) = encode_get(m)  BY <2>1 DEF encode
  <2>3. encode_get(m) \in Seq(Item)  BY <1>6, GetSurvives DEF Survives
  <2>. QED  BY <1>0, <2>2, <2>3
<1>7. CASE m \in MutationType
  <2>1. m.type = "Mutation" /\ m.segments \in Seq(SentSegment)  BY <1>7 DEF MutationType
  <2>2. encode(m) = encode_mutation(m)  BY <2>1 DEF encode
  <2>3. ~ (Len(m.segments) > MaxSegments)  BY <2>1 DEF Refusable
  <2>4. Len(m.segments) \in Nat /\ MaxSegments \in Nat  BY <2>1, ValidationAssumption
  <2>5. Len(m.segments) <= MaxSegments  BY <2>3, <2>4
  <2>6. good => ~ \E s \in ToSet(m.segments) : s.kind = "Invalid" \/ Len(s.payload) > MaxPayload
    BY <1>1
  <2>7. Survives(m, encode_mutation(m), payload, decode_mutation(payload), good)
    BY <1>7, <2>5, <2>6, MutationSurvives
  <2>8. encode_mutation(m) \in Seq(Item)  BY <2>7 DEF Survives
  <2>. QED  BY <1>0, <2>2, <2>8
<1>8. CASE m \in ResponseType
  <2>1. m.type = "Response" /\ m.summaries \in Seq(SentSummary)  BY <1>8 DEF ResponseType
  <2>2. encode(m) = encode_response(m)  BY <2>1 DEF encode
  <2>3. ~ (Len(m.summaries) > MaxSummaries)  BY <2>1 DEF Refusable
  <2>4. Len(m.summaries) \in Nat /\ MaxSummaries \in Nat  BY <2>1, MessageAssumption
  <2>5. Len(m.summaries) <= MaxSummaries  BY <2>3, <2>4
  <2>6. good => Len(m.reasons) <= MaxReasons  BY <1>1
  <2>7. Survives(m, encode_response(m), payload, decode_response(payload), good)
    BY <1>8, <2>5, <2>6, ResponseSurvives
  <2>8. encode_response(m) \in Seq(Item)  BY <2>7 DEF Survives
  <2>. QED  BY <1>0, <2>2, <2>8
<1>. QED  BY <1>2, <1>3, <1>4, <1>5, <1>6, <1>7, <1>8 DEF MessageType

(* Messages survive, because every answer is what was decoded of what      *)
(* arrived.                                                                *)
LEMMA MessagesFollow == AnswerInv => MessagesSurvive
<1>. SUFFICES ASSUME AnswerInv, Answered("message")
              PROVE  /\ answer.why = "Ok" =>
                            /\ question.cut = 0 /\ ~ question.extra
                            /\ \A f \in DOMAIN question.message \ {"type"} :
                                  answer.read[f] = question.message[f]
                     /\ (question.cut = 0 /\ ~ question.extra) /\ ~ Refusable(question.message) =>
                           answer.why = "Ok"
  BY DEF MessagesSurvive
<1>1. question # None /\ answer # None /\ question.topic = "message"  BY DEF Answered
<1>2. question \in Questions  BY <1>1 DEF AnswerInv
<1>3. PICK m, q : m = question.message /\ q = question  OBVIOUS
<1>4. m \in MessageType /\ q.cut \in Nat /\ q.extra \in BOOLEAN
  BY <1>1, <1>2, <1>3, MessageAssumption
<1>5. PICK items : items = encode(m)  OBVIOUS
<1>6. answer = IF items = None THEN [why |-> "NotEncoded"] ELSE decode(m.type, Damaged(items, q))
  BY <1>1, <1>3, <1>5 DEF AnswerInv
<1>7. CASE items = None
  <2>1. answer.why = "NotEncoded"  BY <1>6, <1>7
  <2>2. Refusable(m)  BY <1>4, <1>5, <1>7, NotEncodedIsRefusable
  <2>. QED  BY <1>3, <2>1, <2>2
<1>8. CASE items # None
  <2>1. PICK payload, good : payload = Damaged(items, q) /\ (good <=> ~ Refusable(m))  OBVIOUS
  <2>2. Survives(m, items, payload, decode(m.type, payload), good)
    BY <1>4, <1>5, <1>8, <2>1, MessageSurvives
  <2>3. answer = decode(m.type, payload)  BY <1>6, <1>8, <2>1
  <2>4. Survives(m, items, payload, answer, good)  BY <2>2, <2>3
  <2>5. items \in Seq(Item) /\ Len(items) > 0  BY <2>4 DEF Survives
  <2>6. /\ payload \in Seq(Item) /\ Along(payload, 0, items)
        /\ Len(payload) = Len(items) <=> q.cut = 0 /\ ~ q.extra
    BY <1>4, <2>1, <2>5, DamagedArrives
  <2>7. /\ answer.why = "Ok" =>
              Len(payload) = Len(items) /\ \A f \in DOMAIN m \ {"type"} : answer.read[f] = m[f]
        /\ Len(payload) = Len(items) /\ good => answer.why = "Ok"
    BY <2>4, <2>6 DEF Survives
  <2>. QED  BY <1>3, <2>1, <2>6, <2>7
<1>. QED  BY <1>7, <1>8

(* In every run, whatever messages there are and however long: a message   *)
(* that is decoded is the one that was encoded, field for field, and only  *)
(* if it arrived whole; and what arrives whole is decoded unless it is one *)
(* that both ends refuse (encode_* and decode_* of wire.cpp).              *)
THEOREM MessagesAreFaithful == MessageSpec => []MessagesSurvive
<1>1. ExplainInit => AnswerInv  BY AnswersAre
<1>2. AnswerInv /\ [MessageNext]_explainVars => AnswerInv'  BY AnswersAre
<1>3. AnswerInv => MessagesSurvive  BY MessagesFollow
<1>. QED  BY <1>1, <1>2, <1>3, PTL DEF MessageSpec
================================================================================
