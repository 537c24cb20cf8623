---------------------------- MODULE ValidationProofs ---------------------------
(***************************************************************************)
(* Phase C accepts exactly the governed drafts and says of the others what *)
(* is wrong with them, for segments, profiles, policies, evidence and      *)
(* limits of any size.  The checks are folds over sequences; as in         *)
(* BatchProofs, a statement about every prefix is proved by looking at the *)
(* shortest prefix at which it fails.                                      *)
(* The oracle, which checks the same drafts independently, agrees.         *)
(***************************************************************************)
EXTENDS Messages, FiniteSetTheorems, FunctionTheorems, WellFoundedInduction,
        NaturalsInduction, TLAPS

--------------------------------------------------------------------------------
(* Numbers and sequences. *)

(* A set of numbers has a least one. *)
LEMMA LeastNumber ==
    ASSUME NEW S \in SUBSET Nat, S # {}
    PROVE  \E n \in S : \A k \in S : n <= k
<1>. DEFINE R == {ss \in Nat \X Nat : ss[1] < ss[2]}
<1>1. IsWellFoundedOn(R, Nat)  BY NatLessThanWellFounded DEF OpToRel
<1>2. \A k, n \in Nat : <<k, n>> \notin R => n <= k  OBVIOUS
<1>. HIDE DEF R
<1>3. PICK n \in S : \A k \in S : ~ (<<k, n>> \in R)  BY <1>1, WFMin
<1>. QED  BY <1>2, <1>3

(* So what holds of 0, and of every number if it holds of the one before,  *)
(* holds of all up to a bound: S are those at which it fails.              *)
LEMMA NoFailure ==
    ASSUME NEW n \in Nat, NEW S \in SUBSET (0 .. n), 0 \notin S,
           \A k \in 1 .. n : k - 1 \notin S => k \notin S
    PROVE  S = {}
<1>. SUFFICES ASSUME S # {} PROVE FALSE  OBVIOUS
<1>1. PICK k \in S : \A j \in S : k <= j  BY LeastNumber
<1>2. k \in 1 .. n  BY <1>1
<1>3. k - 1 \notin S  BY <1>1, <1>2
<1>. QED  BY <1>1, <1>2, <1>3

(* A bounded set of numbers has a largest one. *)
LEMMA MaxIs ==
    ASSUME NEW n \in Nat, NEW s \in SUBSET (0 .. n), s # {}
    PROVE  Max(s) \in s /\ \A x \in s : x <= Max(s)
<1>. DEFINE T == {n - x : x \in s}
<1>1. T \in SUBSET Nat /\ T # {}  OBVIOUS
<1>. HIDE DEF T
<1>2. PICK k \in T : \A j \in T : k <= j  BY <1>1, LeastNumber
<1>3. PICK m \in s : k = n - m  BY DEF T
<1>4. \A x \in s : x <= m
  <2>. SUFFICES ASSUME NEW x \in s PROVE x <= m  OBVIOUS
  <2>1. n - x \in T  BY DEF T
  <2>2. k <= n - x  BY <1>2, <2>1
  <2>. QED  BY <1>3, <2>2
<1>5. \E y \in s : \A x \in s : y >= x  BY <1>4
<1>. QED  BY <1>5 DEF Max

(* And a set of numbers has a smallest one. *)
LEMMA MinIs ==
    ASSUME NEW s \in SUBSET Nat, s # {}
    PROVE  Min(s) \in s /\ \A x \in s : Min(s) <= x
<1>1. \E y \in s : \A x \in s : y <= x  BY LeastNumber
<1>. QED  BY <1>1 DEF Min

(* What a concatenation is, and what is in it. *)
LEMMA Concatenation ==
    ASSUME NEW T, NEW s \in Seq(T), NEW t \in Seq(T)
    PROVE  /\ s \o t \in Seq(T)
           /\ ToSet(s \o t) = ToSet(s) \cup ToSet(t)
           /\ s \o t = <<>> <=> s = <<>> /\ t = <<>>
<1>1. /\ s \o t \in Seq(T) /\ Len(s \o t) = Len(s) + Len(t)
      /\ \A k \in 1 .. Len(s) : (s \o t)[k] = s[k]
      /\ \A k \in 1 .. Len(t) : (s \o t)[Len(s) + k] = t[k]
  OBVIOUS
<1>2. /\ DOMAIN s = 1 .. Len(s) /\ DOMAIN t = 1 .. Len(t) /\ DOMAIN (s \o t) = 1 .. Len(s \o t)
      /\ Len(s) \in Nat /\ Len(t) \in Nat
  BY <1>1
<1>3. ASSUME NEW k \in 1 .. Len(s \o t)
      PROVE  (s \o t)[k] \in ToSet(s) \cup ToSet(t)
  <2>1. CASE k \in 1 .. Len(s)  BY <1>1, <1>2, <2>1 DEF ToSet
  <2>2. CASE k \notin 1 .. Len(s)
    <3>1. k - Len(s) \in 1 .. Len(t) /\ k = Len(s) + (k - Len(s))  BY <1>1, <1>2, <2>2
    <3>2. (s \o t)[k] = t[k - Len(s)]  BY <1>1, <3>1
    <3>. QED  BY <1>2, <3>1, <3>2 DEF ToSet
  <2>. QED  BY <2>1, <2>2
<1>4. \A k \in 1 .. Len(s) : k \in 1 .. Len(s \o t)  BY <1>1, <1>2
<1>5. \A k \in 1 .. Len(t) : Len(s) + k \in 1 .. Len(s \o t)  BY <1>1, <1>2
<1>6. ToSet(s) \subseteq ToSet(s \o t)  BY <1>1, <1>2, <1>4 DEF ToSet
<1>7. ToSet(t) \subseteq ToSet(s \o t)  BY <1>1, <1>2, <1>5 DEF ToSet
<1>8. ToSet(s \o t) \subseteq ToSet(s) \cup ToSet(t)  BY <1>2, <1>3 DEF ToSet
<1>9. s \o t = <<>> <=> s = <<>> /\ t = <<>>  BY <1>1, <1>2
<1>. QED  BY <1>1, <1>6, <1>7, <1>8, <1>9

(* A sequence is empty if nothing is in it. *)
LEMMA NothingIn ==
    ASSUME NEW T, NEW s \in Seq(T)
    PROVE  /\ ToSet(s) = {} <=> s = <<>>
           /\ ToSet(s) \subseteq T /\ IsFiniteSet(ToSet(s))
<1>1. DOMAIN s = 1 .. Len(s) /\ Len(s) \in Nat  OBVIOUS
<1>2. ToSet(s) = {} <=> s = <<>>
  <2>1. s # <<>> => s[1] \in ToSet(s)  BY <1>1 DEF ToSet
  <2>2. ToSet(<<>>) = {}  BY DEF ToSet
  <2>. QED  BY <2>1, <2>2
<1>3. ToSet(s) \subseteq T  BY <1>1 DEF ToSet
<1>4. s \in Surjection(1 .. Len(s), ToSet(s))  BY <1>1 DEF ToSet, Surjection
<1>5. IsFiniteSet(1 .. Len(s))  BY <1>1, FS_Interval
<1>. QED  BY <1>2, <1>3, <1>4, <1>5, FS_Surjection

(* FlattenSeq goes through the sequences one at a time. *)
FlattenSteps(f, ss, n) == f[1] = ss[1] /\ \A i \in 2 .. n : f[i] = f[i - 1] \o ss[i]

(* What FlattenSeq returns is the end of such a run. *)
LEMMA FlattenRun ==
    ASSUME NEW ss, NEW n \in Nat \ {0}, Len(ss) = n
    PROVE  \E f : FlattenSeq(ss) = f[n] /\ FlattenSteps(f, ss, n)
<1>. DEFINE Built(f, m) == f = [i \in 1 .. m |-> IF i = 1 THEN ss[i] ELSE f[i - 1] \o ss[i]]
            S == {m \in 0 .. n : ~ \E f : Built(f, m)}
<1>1. 0 \notin S
  <2>. DEFINE g == [i \in 1 .. 0 |-> ss[i]]
  <2>1. Built(g, 0)  OBVIOUS
  <2>. QED  BY <2>1
<1>2. ASSUME NEW k \in 1 .. n, k - 1 \notin S PROVE k \notin S
  <2>0. k - 1 \in 0 .. n /\ \E f : Built(f, k - 1)
    <3>. HIDE DEF Built
    <3>. QED  BY <1>2
  <2>1. PICK f : Built(f, k - 1)  BY <2>0
  <2>. DEFINE g == [i \in 1 .. k |-> IF i = k THEN IF i = 1 THEN ss[i] ELSE f[i - 1] \o ss[i]
                                             ELSE f[i]]
  <2>2. Built(g, k)
    <3>1. \A i \in 1 .. k - 1 : g[i] = f[i]  OBVIOUS
    <3>2. ASSUME NEW i \in 1 .. k
          PROVE  g[i] = IF i = 1 THEN ss[i] ELSE g[i - 1] \o ss[i]
      <4>1. CASE i = k  BY <3>1, <4>1
      <4>2. CASE i # k
        <5>1. i \in 1 .. k - 1  BY <4>2
        <5>2. f[i] = IF i = 1 THEN ss[i] ELSE f[i - 1] \o ss[i]  BY <2>1, <5>1
        <5>3. i # 1 => i - 1 \in 1 .. k - 1  BY <5>1
        <5>. QED  BY <3>1, <5>1, <5>2, <5>3
      <4>. QED  BY <4>1, <4>2
    <3>. QED  BY <3>2
  <2>. QED  BY <2>2
<1>3. S = {}
  <2>1. S \in SUBSET (0 .. n)  OBVIOUS
  <2>. HIDE DEF S
  <2>. QED  BY <1>1, <1>2, <2>1, NoFailure
<1>4. \E f : Built(f, n)
  <2>. HIDE DEF Built
  <2>1. n \in 0 .. n  OBVIOUS
  <2>2. n \notin S  BY <1>3 DEF S
  <2>. QED  BY <2>1, <2>2
<1>. DEFINE F == CHOOSE f : Built(f, n)
<1>5. Built(F, n)  BY <1>4
<1>6. FlattenSeq(ss) = F[n]  BY DEF FlattenSeq
<1>. HIDE DEF F
<1>7. F[1] = ss[1]  BY <1>5
<1>8. ASSUME NEW i \in 2 .. n PROVE F[i] = F[i - 1] \o ss[i]
  <2>1. i \in 1 .. n /\ i # 1  OBVIOUS
  <2>. QED  BY <1>5, <2>1
<1>. QED  BY <1>6, <1>7, <1>8 DEF FlattenSteps

(* What is in the sequences, and when there is nothing. *)
LEMMA Flattened ==
    ASSUME NEW T, NEW ss \in Seq(Seq(T))
    PROVE  /\ FlattenSeq(ss) \in Seq(T)
           /\ ToSet(FlattenSeq(ss)) = UNION {ToSet(ss[i]) : i \in DOMAIN ss}
           /\ FlattenSeq(ss) = <<>> <=> \A i \in DOMAIN ss : ss[i] = <<>>
<1>0. PICK n \in Nat : Len(ss) = n  OBVIOUS
<1>1. n \in Nat /\ DOMAIN ss = 1 .. n /\ \A i \in 1 .. n : ss[i] \in Seq(T)  BY <1>0
<1>2. CASE n = 0
  <2>1. ss = <<>> /\ FlattenSeq(ss) = <<>>  BY <1>0, <1>2 DEF FlattenSeq
  <2>2. ToSet(<<>>) = {} /\ DOMAIN ss = {} /\ <<>> \in Seq(T)  BY <2>1 DEF ToSet
  <2>3. UNION {ToSet(ss[i]) : i \in DOMAIN ss} = {}  BY <2>2
  <2>. QED  BY <2>1, <2>2, <2>3
<1>3. CASE n # 0
  <2>0. n \in Nat \ {0}  BY <1>3
  <2>1. PICK f : FlattenSeq(ss) = f[n] /\ FlattenSteps(f, ss, n)  BY <1>0, <2>0, FlattenRun
  <2>. DEFINE Good(k) == /\ f[k] \in Seq(T)
                         /\ ToSet(f[k]) = UNION {ToSet(ss[i]) : i \in 1 .. k}
              S == {k \in 0 .. n : k # 0 /\ ~ Good(k)}
  <2>2. ASSUME NEW k \in 1 .. n, k - 1 \notin S PROVE k \notin S
    <3>1. CASE k = 1
      <4>1. f[1] \in Seq(T) /\ ToSet(f[1]) = ToSet(ss[1])  BY <1>1, <1>3, <2>1 DEF FlattenSteps
      <4>2. UNION {ToSet(ss[i]) : i \in 1 .. 1} = ToSet(ss[1])  OBVIOUS
      <4>. QED  BY <3>1, <4>1, <4>2
    <3>2. CASE k # 1
      <4>1. k - 1 \in 1 .. n /\ k \in 2 .. n  BY <1>1, <3>2
      <4>2. Good(k - 1)  BY <2>2, <4>1
      <4>3. f[k] = f[k - 1] \o ss[k] /\ ss[k] \in Seq(T)  BY <1>1, <2>1, <4>1 DEF FlattenSteps
      <4>4. f[k] \in Seq(T) /\ ToSet(f[k]) = ToSet(f[k - 1]) \cup ToSet(ss[k])
        BY <4>2, <4>3, Concatenation
      <4>5. 1 .. k = (1 .. k - 1) \cup {k}  BY <4>1
      <4>6. UNION {ToSet(ss[i]) : i \in 1 .. k}
              = (UNION {ToSet(ss[i]) : i \in 1 .. k - 1}) \cup ToSet(ss[k])
        BY <4>5
      <4>. QED  BY <4>2, <4>4, <4>6
    <3>. QED  BY <3>1, <3>2
  <2>3. S = {}
    <3>1. S \in SUBSET (0 .. n) /\ 0 \notin S  OBVIOUS
    <3>. HIDE DEF S
    <3>. QED  BY <1>1, <2>2, <3>1, NoFailure
  <2>4. Good(n)
    <3>1. n \in 0 .. n  BY <1>1
    <3>. HIDE DEF Good
    <3>. QED  BY <1>3, <2>3, <3>1
  <2>5. f[n] = <<>> <=> \A i \in 1 .. n : ss[i] = <<>>
    <3>1. f[n] = <<>> <=> ToSet(f[n]) = {}
      <4>1. f[n] \in Seq(T)  BY <2>4
      <4>. QED  BY <4>1, NothingIn, SMTT(30)
    <3>2. \A i \in 1 .. n : ss[i] = <<>> <=> ToSet(ss[i]) = {}
      <4>1. ASSUME NEW i \in 1 .. n PROVE ss[i] = <<>> <=> ToSet(ss[i]) = {}
        <5>. DEFINE u == ss[i]
        <5>1. u \in Seq(T)  BY <1>1
        <5>. HIDE DEF u
        <5>2. u = <<>> <=> ToSet(u) = {}  BY <5>1, NothingIn
        <5>. QED  BY <5>2 DEF u
      <4>. QED  BY <4>1
    <3>3. ToSet(f[n]) = {} <=> \A i \in 1 .. n : ToSet(ss[i]) = {}
      <4>1. ToSet(f[n]) = UNION {ToSet(ss[i]) : i \in 1 .. n}  BY <2>4
      <4>2. \A i \in 1 .. n : ToSet(ss[i]) \subseteq ToSet(f[n])  BY <4>1
      <4>3. \A x \in ToSet(f[n]) : \E i \in 1 .. n : x \in ToSet(ss[i])  BY <4>1
      <4>. QED  BY <4>2, <4>3
    <3>. QED  BY <3>1, <3>2, <3>3
  <2>. QED  BY <1>1, <2>1, <2>4, <2>5
<1>. QED  BY <1>2, <1>3
--------------------------------------------------------------------------------
(* Codes and reasons. *)

LastCode == 59

(* Every code has a name of its own, and the phases are in order. *)
LEMMA CodesAre ==
    /\ Len(kCodes) = LastCode
    /\ \A c, d \in 1 .. LastCode : kCodes[c][1] = kCodes[d][1] => c = d
    /\ \A c, d \in 1 .. LastCode : c < d => kCodes[c][2] <= kCodes[d][2]
    /\ \A c \in 1 .. LastCode : kCodes[c][2] \in 1 .. 13
    /\ kCodes[LastCode] = <<"LimitMaxReasons", 13>>
<1>1. Len(kCodes) = LastCode  BY DEF kCodes, LastCode
<1>2. \A c, d \in 1 .. LastCode : kCodes[c][1] = kCodes[d][1] => c = d  BY DEF kCodes, LastCode
<1>3. \A c, d \in 1 .. LastCode : c < d => kCodes[c][2] <= kCodes[d][2]  BY DEF kCodes, LastCode
<1>4. \A c \in 1 .. LastCode : kCodes[c][2] \in 1 .. 13  BY DEF kCodes, LastCode
<1>5. kCodes[LastCode] = <<"LimitMaxReasons", 13>>  BY DEF kCodes, LastCode
<1>. QED  BY <1>1, <1>2, <1>3, <1>4, <1>5

(* The code of a name. *)
LEMMA CodeIs ==
    ASSUME NEW c \in 1 .. LastCode
    PROVE  Code(kCodes[c][1]) = c
<1>1. \A d \in 1 .. Len(kCodes) : kCodes[d][1] = kCodes[c][1] <=> d = c  BY CodesAre
<1>2. c \in 1 .. Len(kCodes)  BY CodesAre
<1>. QED  BY <1>1, <1>2 DEF Code

(* The note that there were more reasons has the last code. *)
LEMMA NoteIs ==
    /\ LimitMaxReasons \in ReasonType
    /\ LimitMaxReasons.code = LastCode
<1>1. LastCode \in 1 .. LastCode  BY DEF LastCode
<1>2. Code("LimitMaxReasons") = LastCode
  <2>1. kCodes[LastCode][1] = "LimitMaxReasons"  BY CodesAre
  <2>. QED  BY <1>1, <2>1, CodeIs
<1>. QED  BY <1>1, <1>2, CodesAre DEF LimitMaxReasons, Reason, ReasonType

(* The reasons of a phase that a check may find, and their names. *)
Found(phases) == {r \in ReasonType : phase_of(r) \in phases /\ r.code # LastCode}

Names(phase) == {kCodes[c][1] : c \in {d \in 1 .. LastCode - 1 : kCodes[d][2] = phase}}

(* What is reported with one of these names is such a reason. *)
LEMMA ReasonIs ==
    ASSUME NEW ph, NEW name \in Names(ph), NEW index \in Nat, NEW detail \in Nat
    PROVE  /\ Reason(name, index, detail) \in Found({ph})
           /\ <<Reason(name, index, detail)>> \in Seq(Found({ph}))
           /\ <<Reason(name, index, detail)>> # <<>>
<1>1. PICK c \in 1 .. LastCode - 1 : kCodes[c][2] = ph /\ kCodes[c][1] = name  BY DEF Names
<1>2. c \in 1 .. LastCode /\ c # LastCode  BY DEF LastCode
<1>3. Code(name) = c  BY <1>1, <1>2, CodeIs
<1>. DEFINE r == Reason(name, index, detail)
<1>4. r = [code |-> c, index |-> index, detail |-> detail]  BY <1>3 DEF Reason
<1>5. r \in ReasonType  BY <1>2, <1>4, CodesAre DEF ReasonType
<1>6. r \in Found({ph})  BY <1>1, <1>2, <1>4, <1>5 DEF Found, phase_of
<1>. HIDE DEF r
<1>7. <<r>> \in Seq(Found({ph})) /\ <<r>> # <<>>  BY <1>6
<1>. QED  BY <1>6, <1>7 DEF r

(* Of two reasons one is before the other. *)
LEMMA BeforeIsOrder ==
    /\ \A r, q \in ReasonType : r = q \/ Before(r, q) \/ Before(q, r)
    /\ \A r, q \in ReasonType : Before(r, q) => ~ Before(q, r)
    /\ \A r, q, x \in ReasonType : Before(r, q) /\ Before(q, x) => Before(r, x)
    /\ \A r, q \in ReasonType : Before(r, q) => r.code <= q.code
<1>1. \A r \in ReasonType : r.code \in Nat /\ r.index \in Nat /\ r.detail \in Nat
  <2>1. ReasonType = [code : 1 .. LastCode, index : Nat, detail : Nat]  BY CodesAre DEF ReasonType
  <2>. QED  BY <2>1 DEF LastCode
<1>2. \A r, q \in ReasonType :
        r.code = q.code /\ r.index = q.index /\ r.detail = q.detail => r = q
  BY DEF ReasonType
<1>3. \A r, q \in ReasonType : r = q \/ Before(r, q) \/ Before(q, r)  BY <1>1, <1>2 DEF Before
<1>4. \A r, q \in ReasonType : Before(r, q) => ~ Before(q, r)  BY <1>1 DEF Before
<1>5. \A r, q, x \in ReasonType : Before(r, q) /\ Before(q, x) => Before(r, x)
  BY <1>1 DEF Before
<1>6. \A r, q \in ReasonType : Before(r, q) => r.code <= q.code  BY <1>1 DEF Before
<1>. QED  BY <1>3, <1>4, <1>5, <1>6

(* What comes before in the order is of no later phase. *)
LEMMA PhasesFollow ==
    ASSUME NEW r \in ReasonType, NEW q \in ReasonType, r = q \/ Before(r, q)
    PROVE  phase_of(r) <= phase_of(q) /\ phase_of(r) \in Nat /\ phase_of(q) \in Nat
<1>1. r.code \in 1 .. LastCode /\ q.code \in 1 .. LastCode  BY CodesAre DEF ReasonType
<1>2. r.code <= q.code  BY <1>1, BeforeIsOrder DEF LastCode
<1>3. r.code = q.code \/ r.code < q.code  BY <1>1, <1>2 DEF LastCode
<1>4. kCodes[r.code][2] \in Nat /\ kCodes[q.code][2] \in Nat
  <2>1. \A c \in 1 .. LastCode : kCodes[c][2] \in 1 .. 13  BY CodesAre
  <2>2. kCodes[r.code][2] \in 1 .. 13 /\ kCodes[q.code][2] \in 1 .. 13  BY <1>1, <2>1
  <2>. QED  BY <2>2
<1>. QED  BY <1>1, <1>3, <1>4, CodesAre DEF phase_of

(* How many of the reasons come before one. *)
Rank(R, r) == Cardinality({q \in R : Before(q, r)})

(* The ranks are below the number of reasons and follow the order. *)
LEMMA Ranks ==
    ASSUME NEW R \in SUBSET ReasonType, IsFiniteSet(R)
    PROVE  /\ Cardinality(R) \in Nat
           /\ \A r \in R : Rank(R, r) \in 0 .. Cardinality(R) - 1
           /\ \A r, x \in R : Before(r, x) => Rank(R, r) < Rank(R, x)
<1>1. Cardinality(R) \in Nat  BY FS_CardinalityType
<1>2. ASSUME NEW r \in R
      PROVE  /\ IsFiniteSet({q \in R : Before(q, r)})
             /\ Rank(R, r) \in 0 .. Cardinality(R) - 1
  <2>. DEFINE B == {q \in R : Before(q, r)}
  <2>1. r \notin B  BY BeforeIsOrder
  <2>2. B \in SUBSET (R \ {r})  BY <2>1
  <2>3. IsFiniteSet(R \ {r}) /\ Cardinality(R \ {r}) = Cardinality(R) - 1  BY FS_RemoveElement
  <2>. HIDE DEF B
  <2>4. IsFiniteSet(B) /\ Cardinality(B) <= Cardinality(R \ {r})  BY <2>2, <2>3, FS_Subset
  <2>5. Cardinality(B) \in Nat  BY <2>4, FS_CardinalityType
  <2>6. Cardinality(B) \in 0 .. Cardinality(R) - 1  BY <1>1, <2>3, <2>4, <2>5
  <2>. QED  BY <2>4, <2>6 DEF B, Rank
<1>3. ASSUME NEW r \in R, NEW x \in R, Before(r, x)
      PROVE  Rank(R, r) < Rank(R, x)
  <2>. DEFINE B == {q \in R : Before(q, r)}
              C == {q \in R : Before(q, x)}
  <2>1. r \notin B /\ r \in C  BY <1>3, BeforeIsOrder
  <2>2. \A q \in B : q \in C  BY <1>3, BeforeIsOrder
  <2>3. IsFiniteSet(B) /\ IsFiniteSet(C)  BY <1>2
  <2>. HIDE DEF B, C
  <2>4. IsFiniteSet(B \cup {r}) /\ Cardinality(B \cup {r}) = Cardinality(B) + 1
    BY <2>1, <2>3, FS_AddElement
  <2>5. (B \cup {r}) \in SUBSET C  BY <2>1, <2>2
  <2>6. Cardinality(B \cup {r}) <= Cardinality(C)  BY <2>3, <2>5, FS_Subset
  <2>7. Cardinality(B) \in Nat /\ Cardinality(C) \in Nat  BY <2>3, FS_CardinalityType
  <2>8. Cardinality(B) < Cardinality(C)  BY <2>4, <2>6, <2>7
  <2>. QED  BY <2>8 DEF B, C, Rank
<1>. QED  BY <1>1, <1>2, <1>3

(* There is a first reason and a last one. *)
LEMMA FirstAndLast ==
    ASSUME NEW R \in SUBSET ReasonType, IsFiniteSet(R), R # {}
    PROVE  /\ \E r \in R : \A q \in R \ {r} : Before(r, q)
           /\ \E r \in R : \A q \in R \ {r} : Before(q, r)
<1>. DEFINE n == Cardinality(R)
            T == {Rank(R, r) : r \in R}
<1>1. n \in Nat /\ \A r \in R : Rank(R, r) \in 0 .. n - 1  BY Ranks
<1>2. \A r \in R : Rank(R, r) \in 0 .. n  BY <1>1
<1>3. T \in SUBSET (0 .. n) /\ T \in SUBSET Nat /\ T # {}  BY <1>2
<1>. HIDE DEF n, T
<1>4. PICK lo \in T : \A x \in T : lo <= x  BY <1>3, LeastNumber
<1>5. PICK hi \in T : \A x \in T : x <= hi  BY <1>1, <1>3, MaxIs
<1>6. PICK r \in R : Rank(R, r) = lo  BY <1>4 DEF T
<1>7. PICK s \in R : Rank(R, s) = hi  BY <1>5 DEF T
<1>8. \A q \in R : lo <= Rank(R, q) /\ Rank(R, q) <= hi /\ Rank(R, q) \in Nat
  BY <1>3, <1>4, <1>5 DEF T
<1>9. \A q \in R : ~ Before(q, r) /\ ~ Before(s, q)  BY <1>6, <1>7, <1>8, Ranks
<1>10. \A q \in R \ {r} : Before(r, q)  BY <1>9, BeforeIsOrder
<1>11. \A q \in R \ {s} : Before(q, s)  BY <1>9, BeforeIsOrder
<1>. QED  BY <1>10, <1>11

(* InOrder lists the reasons. *)
LEMMA InOrderIs ==
    ASSUME NEW R \in SUBSET ReasonType, IsFiniteSet(R)
    PROVE  /\ InOrder(R) \in Seq(R)
           /\ ToSet(InOrder(R)) = R
<1>. DEFINE n == Cardinality(R)
            f == [r \in R |-> Rank(R, r) + 1]
            s == InOrder(R)
<1>1. n \in Nat /\ \A r \in R : Rank(R, r) \in 0 .. n - 1  BY Ranks
<1>2. \A r, x \in R : Rank(R, r) = Rank(R, x) => r = x
  <2>1. \A r, x \in R : Before(r, x) => Rank(R, r) < Rank(R, x)  BY Ranks
  <2>2. \A r \in R : Rank(R, r) \in Nat  BY <1>1
  <2>3. \A r, x \in R : Rank(R, r) = Rank(R, x) => ~ Before(r, x) /\ ~ Before(x, r)
    BY <2>1, <2>2
  <2>. QED  BY <2>3, BeforeIsOrder
<1>3. \A r \in R : Rank(R, r) + 1 \in 1 .. n  BY <1>1
<1>4. f \in [R -> 1 .. n]  BY <1>3
<1>5. f \in Injection(R, 1 .. n)
  <2>1. \A r, x \in R : f[r] = f[x] => r = x  BY <1>1, <1>2
  <2>. HIDE DEF f
  <2>. QED  BY <1>4, <2>1 DEF Injection, IsInjective
<1>6. IsFiniteSet(1 .. n) /\ Cardinality(1 .. n) = n  BY <1>1, FS_Interval
<1>7. f \in Surjection(R, 1 .. n)
  <2>. HIDE DEF f
  <2>. QED  BY <1>5, <1>6, FS_Injection DEF n
<1>8. ASSUME NEW i \in 1 .. n PROVE \E r \in R : Rank(R, r) = i - 1
  <2>1. PICK r \in R : f[r] = i
    <3>. HIDE DEF f
    <3>. QED  BY <1>7 DEF Surjection
  <2>. QED  BY <1>1, <2>1
<1>9. s = [i \in 1 .. n |-> CHOOSE r \in R : Rank(R, r) = i - 1]  BY DEF InOrder, Rank
<1>. HIDE DEF s, n, f
<1>10. \A i \in 1 .. n : s[i] \in R /\ Rank(R, s[i]) = i - 1  BY <1>8, <1>9
<1>11. s \in Seq(R) /\ DOMAIN s = 1 .. n  BY <1>1, <1>9, <1>10
<1>12. ASSUME NEW r \in R PROVE r \in ToSet(s)
  <2>1. Rank(R, r) + 1 \in 1 .. n /\ (Rank(R, r) + 1) - 1 = Rank(R, r)  BY <1>1, <1>3
  <2>2. s[Rank(R, r) + 1] = r  BY <1>2, <1>10, <2>1
  <2>. QED  BY <1>11, <2>1, <2>2 DEF ToSet
<1>13. ToSet(s) \subseteq R  BY <1>10, <1>11 DEF ToSet
<1>. QED  BY <1>11, <1>12, <1>13 DEF s
--------------------------------------------------------------------------------
(* Results. *)

(* A result has no more reasons than there are places. *)
ResultType ==
    {res \in [reasons : SUBSET ReasonType, truncated : BOOLEAN] :
        IsFiniteSet(res.reasons) /\ Cardinality(res.reasons) <= MaxReasons}

(* A result without reasons is one. *)
LEMMA SuccessIs == Success \in ResultType
<1>1. Cardinality({}) = 0 /\ IsFiniteSet({})  BY FS_EmptySet
<1>2. 0 <= MaxReasons  BY ValidationAssumption
<1>. QED  BY <1>1, <1>2 DEF Success, ResultType

(* What one more reason does: it is added, or there is no place for it;    *)
(* then the note takes the place of the last reason, or is there already.  *)
LEMMA AddIs ==
    ASSUME NEW res \in ResultType, NEW r \in ReasonType
    PROVE  /\ Add(res, r) \in ResultType
           /\ \/ /\ Add(res, r) = [res EXCEPT !.reasons = @ \cup {r}]
                 /\ Cardinality(res.reasons) < MaxReasons
              \/ /\ Add(res, r) = res
                 /\ LimitMaxReasons \in res.reasons
                 /\ Cardinality(res.reasons) = MaxReasons
              \/ /\ LimitMaxReasons \notin res.reasons
                 /\ Cardinality(res.reasons) = MaxReasons
                 /\ Cardinality(Add(res, r).reasons) = MaxReasons
                 /\ Latest(res) \in res.reasons
                 /\ \A q \in res.reasons \ {Latest(res)} : Before(q, Latest(res))
                 /\ Add(res, r) = [reasons |-> (res.reasons \ {Latest(res)})
                                               \cup {LimitMaxReasons},
                                   truncated |-> TRUE]
<1>. DEFINE R == res.reasons
<1>1. /\ R \in SUBSET ReasonType /\ IsFiniteSet(R) /\ Cardinality(R) <= MaxReasons
      /\ res \in [reasons : SUBSET ReasonType, truncated : BOOLEAN]
  BY DEF ResultType
<1>2. MaxReasons \in Nat /\ MaxReasons >= 2 /\ Cardinality(R) \in Nat
  BY <1>1, ValidationAssumption, FS_CardinalityType
<1>3. CASE Cardinality(R) < MaxReasons
  <2>1. Add(res, r) = [res EXCEPT !.reasons = @ \cup {r}]  BY <1>3 DEF Add
  <2>2. /\ IsFiniteSet(R \cup {r})
        /\ Cardinality(R \cup {r}) = IF r \in R THEN Cardinality(R) ELSE Cardinality(R) + 1
    BY <1>1, FS_AddElement
  <2>3. Cardinality(R \cup {r}) <= MaxReasons  BY <1>2, <1>3, <2>2
  <2>4. R \cup {r} \in SUBSET ReasonType  BY <1>1
  <2>5. /\ Add(res, r) \in [reasons : SUBSET ReasonType, truncated : BOOLEAN]
        /\ Add(res, r).reasons = R \cup {r}
    BY <1>1, <2>1, <2>4
  <2>6. Add(res, r) \in ResultType  BY <2>2, <2>3, <2>5 DEF ResultType
  <2>. QED  BY <1>3, <2>1, <2>6
<1>4. CASE ~ (Cardinality(R) < MaxReasons) /\ LimitMaxReasons \in R
  <2>1. Add(res, r) = res  BY <1>4 DEF Add
  <2>2. Cardinality(R) = MaxReasons  BY <1>1, <1>2, <1>4
  <2>. QED  BY <1>4, <2>1, <2>2
<1>5. CASE ~ (Cardinality(R) < MaxReasons) /\ LimitMaxReasons \notin R
  <2>1. Cardinality(R) = MaxReasons  BY <1>1, <1>2, <1>5
  <2>2. R # {}  BY <1>2, <2>1, FS_EmptySet
  <2>. DEFINE last == Latest(res)
              new  == (R \ {last}) \cup {LimitMaxReasons}
  <2>3. last \in R /\ \A q \in R \ {last} : Before(q, last)
    <3>1. \E x \in R : \A q \in R \ {x} : Before(q, x)  BY <1>1, <2>2, FirstAndLast
    <3>. QED  BY <3>1 DEF Latest
  <2>4. Add(res, r) = [reasons |-> new, truncated |-> TRUE]  BY <1>5 DEF Add
  <2>5. IsFiniteSet(R \ {last}) /\ Cardinality(R \ {last}) = MaxReasons - 1
    BY <1>1, <2>1, <2>3, FS_RemoveElement
  <2>6. IsFiniteSet(new) /\ Cardinality(new) = (MaxReasons - 1) + 1
    <3>1. LimitMaxReasons \notin R \ {last}  BY <1>5
    <3>. QED  BY <2>5, <3>1, FS_AddElement
  <2>7. Cardinality(new) = MaxReasons  BY <1>2, <2>6
  <2>8. new \in SUBSET ReasonType  BY <1>1, NoteIs
  <2>9. Add(res, r) \in ResultType
    <3>. HIDE DEF new
    <3>. QED  BY <1>2, <2>4, <2>6, <2>7, <2>8 DEF ResultType
  <2>. QED  BY <1>5, <2>1, <2>3, <2>4, <2>7, <2>9
<1>. QED  BY <1>3, <1>4, <1>5

(* AddAll, one reason at a time. *)
AddSteps(f, rs, n) == \A k \in 1 .. n : f[k] = Add(f[k - 1], rs[k])

(* The folds of the library go through the results of the prefixes. *)
LEMMA AddAllRun ==
    ASSUME NEW res, NEW n \in Nat, NEW rs, DOMAIN rs = 1 .. n
    PROVE  \E f : f[0] = res /\ AddSteps(f, rs, n) /\ AddAll(res, rs) = f[n]
<1>. DEFINE Step(f, s) == IF s = {} THEN res ELSE Add(f[s \ {Max(s)}], rs[Max(s)])
            Built(f, m) == f = [s \in SUBSET (1 .. m) |-> Step(f, s)]
            S == {m \in 0 .. n : ~ \E f : Built(f, m)}
<1>0. ASSUME NEW m \in 0 .. n, NEW s \in SUBSET (1 .. m), s # {}
      PROVE  Max(s) \in s /\ \A x \in s : x <= Max(s)
  <2>1. s \in SUBSET (0 .. m) /\ m \in Nat  OBVIOUS
  <2>. QED  BY <1>0, <2>1, MaxIs
<1>1. 0 \notin S
  <2>. DEFINE g == [s \in {{}} |-> res]
  <2>1. SUBSET (1 .. 0) = {{}}  OBVIOUS
  <2>2. g = [s \in SUBSET (1 .. 0) |-> Step(g, s)]  BY <2>1
  <2>. QED  BY <2>2
<1>2. ASSUME NEW k \in 1 .. n, k - 1 \notin S PROVE k \notin S
  <2>0. k - 1 \in 0 .. n /\ \E f : Built(f, k - 1)
    <3>. HIDE DEF Built
    <3>. QED  BY <1>2
  <2>1. PICK f : Built(f, k - 1)  BY <2>0
  <2>. DEFINE g == [s \in SUBSET (1 .. k) |-> IF k \in s THEN Add(f[s \ {k}], rs[k]) ELSE f[s]]
  <2>2. \A s \in SUBSET (1 .. k) : k \notin s => s \in SUBSET (1 .. k - 1)  OBVIOUS
  <2>3. ASSUME NEW s \in SUBSET (1 .. k) PROVE g[s] = Step(g, s)
    <3>1. CASE s = {}
      <4>1. g[s] = f[s] /\ s \in SUBSET (1 .. k - 1)  BY <3>1
      <4>. QED  BY <2>1, <3>1, <4>1
    <3>2. CASE s # {}
      <4>1. Max(s) \in s /\ \A x \in s : x <= Max(s)
        <5>1. k \in 0 .. n  OBVIOUS
        <5>. QED  BY <1>0, <3>2, <5>1
      <4>2. CASE k \in s
        <5>0. Max(s) \in 1 .. k /\ k <= Max(s)  BY <4>1, <4>2
        <5>1. Max(s) = k  BY <5>0
        <5>2. s \ {k} \in SUBSET (1 .. k) /\ k \notin s \ {k}  OBVIOUS
        <5>3. g[s \ {k}] = f[s \ {k}]  BY <5>2
        <5>4. g[s] = Add(f[s \ {k}], rs[k])  BY <4>2
        <5>. HIDE DEF g
        <5>. QED  BY <3>2, <5>1, <5>3, <5>4
      <4>3. CASE k \notin s
        <5>. DEFINE m == Max(s)
        <5>1. s \in SUBSET (1 .. k - 1) /\ s \ {m} \in SUBSET (1 .. k)
          BY <2>2, <4>3
        <5>2. g[s] = f[s] /\ g[s \ {m}] = f[s \ {m}]  BY <4>3, <5>1
        <5>3. f[s] = Step(f, s)
          <6>. HIDE DEF Step
          <6>. QED  BY <2>1, <5>1
        <5>. HIDE DEF g
        <5>. QED  BY <3>2, <5>2, <5>3
      <4>. QED  BY <4>2, <4>3
    <3>. QED  BY <3>1, <3>2
  <2>4. Built(g, k)
    <3>. HIDE DEF Step
    <3>1. DOMAIN g = SUBSET (1 .. k) /\ g = [s \in DOMAIN g |-> g[s]]  OBVIOUS
    <3>. HIDE DEF g
    <3>. QED  BY <2>3, <3>1
  <2>. QED
    <3>. HIDE DEF Built, g
    <3>. QED  BY <2>4
<1>3. S = {}
  <2>1. S \in SUBSET (0 .. n)  OBVIOUS
  <2>. HIDE DEF S
  <2>. QED  BY <1>1, <1>2, <2>1, NoFailure
<1>4. \E f : Built(f, n)
  <2>. HIDE DEF Built
  <2>1. n \in 0 .. n  OBVIOUS
  <2>2. n \notin S  BY <1>3 DEF S
  <2>. QED  BY <2>1, <2>2
<1>. DEFINE F == CHOOSE f : Built(f, n)
<1>5. Built(F, n)
  <2>. HIDE DEF Built
  <2>. QED  BY <1>4
<1>6. AddAll(res, rs) = F[1 .. n]  BY DEF AddAll, FoldLeft, MapThenFoldSet
<1>. HIDE DEF F
<1>. DEFINE h == [k \in 0 .. n |-> F[1 .. k]]
<1>7. h[0] = res
  <2>1. {} \in SUBSET (1 .. n) /\ 1 .. 0 = {}  OBVIOUS
  <2>2. F[{}] = res  BY <1>5, <2>1
  <2>. QED  BY <2>1, <2>2
<1>8. ASSUME NEW k \in 1 .. n PROVE h[k] = Add(h[k - 1], rs[k])
  <2>1. 1 .. k \in SUBSET (1 .. n) /\ 1 .. k # {} /\ (1 .. k) \ {k} = 1 .. k - 1  OBVIOUS
  <2>2. Max(1 .. k) = k
    <3>1. k \in 0 .. n /\ 1 .. k \in SUBSET (1 .. k) /\ k \in 1 .. k  OBVIOUS
    <3>2. Max(1 .. k) \in 1 .. k /\ k <= Max(1 .. k)  BY <1>0, <2>1, <3>1
    <3>. QED  BY <3>2
  <2>3. F[1 .. k] = Step(F, 1 .. k)
    <3>. HIDE DEF Step
    <3>. QED  BY <1>5, <2>1
  <2>4. F[1 .. k] = Add(F[1 .. k - 1], rs[k])  BY <2>1, <2>2, <2>3
  <2>5. k \in 0 .. n /\ k - 1 \in 0 .. n  OBVIOUS
  <2>. QED  BY <2>4, <2>5
<1>9. h[n] = F[1 .. n]  OBVIOUS
<1>. HIDE DEF h
<1>. QED  BY <1>6, <1>7, <1>8, <1>9 DEF AddSteps

(* The reasons among the first k. *)
Prefix(rs, k) == {rs[i] : i \in 1 .. k}

(* What is known of a result after reasons were added to another: it has   *)
(* them all, or it is full and has the note.                               *)
Added(res, new, reasons) ==
    /\ new \in ResultType
    /\ res.truncated => new.truncated
    /\ \/ /\ new.reasons = res.reasons \cup reasons
          /\ new.truncated = res.truncated
       \/ /\ LimitMaxReasons \in new.reasons
          /\ Cardinality(new.reasons) = MaxReasons
          /\ new.reasons \subseteq res.reasons \cup reasons \cup {LimitMaxReasons}
          /\ new.truncated \/ LimitMaxReasons \in res.reasons \cup reasons

(* One more reason. *)
LEMMA AddedOne ==
    ASSUME NEW res \in ResultType, NEW new, NEW reasons, Added(res, new, reasons),
           NEW r \in ReasonType
    PROVE  Added(res, Add(new, r), reasons \cup {r})
<1>. DEFINE x == Add(new, r)
<1>1. new \in ResultType  BY DEF Added
<1>2. x \in ResultType  BY <1>1, AddIs
<1>3. CASE x = [new EXCEPT !.reasons = @ \cup {r}] /\ Cardinality(new.reasons) < MaxReasons
  <2>1. new \in [reasons : SUBSET ReasonType, truncated : BOOLEAN]  BY <1>1 DEF ResultType
  <2>2. x.reasons = new.reasons \cup {r} /\ x.truncated = new.truncated  BY <1>3, <2>1
  <2>3. MaxReasons \in Nat  BY ValidationAssumption
  <2>4. ~ Cardinality(new.reasons) = MaxReasons  BY <1>3, <2>3
  <2>. HIDE DEF x
  <2>. QED  BY <1>2, <2>2, <2>4 DEF Added, x
<1>4. CASE /\ x = new
           /\ LimitMaxReasons \in new.reasons
           /\ Cardinality(new.reasons) = MaxReasons
  <2>. HIDE DEF x
  <2>. QED  BY <1>2, <1>4 DEF Added, x
<1>5. CASE /\ LimitMaxReasons \notin new.reasons
           /\ Cardinality(x.reasons) = MaxReasons
           /\ x = [reasons |-> (new.reasons \ {Latest(new)}) \cup {LimitMaxReasons},
                   truncated |-> TRUE]
  <2>1. /\ x.truncated = TRUE
        /\ x.reasons = (new.reasons \ {Latest(new)}) \cup {LimitMaxReasons}
    BY <1>5
  <2>2. new.reasons \subseteq res.reasons \cup reasons  BY <1>5 DEF Added
  <2>. HIDE DEF x
  <2>. QED  BY <1>2, <1>5, <2>1, <2>2 DEF Added, x
<1>. HIDE DEF x
<1>. QED  BY <1>1, <1>3, <1>4, <1>5, AddIs DEF x

(* All of them. *)
LEMMA AddAllIs ==
    ASSUME NEW res \in ResultType, NEW rs \in Seq(ReasonType)
    PROVE  Added(res, AddAll(res, rs), ToSet(rs))
<1>0. PICK n \in Nat : Len(rs) = n  OBVIOUS
<1>1. DOMAIN rs = 1 .. n /\ \A k \in 1 .. n : rs[k] \in ReasonType  BY <1>0
<1>2. PICK f : f[0] = res /\ AddSteps(f, rs, n) /\ AddAll(res, rs) = f[n]  BY <1>1, AddAllRun
<1>. DEFINE S == {k \in 0 .. n : ~ Added(res, f[k], Prefix(rs, k))}
<1>3. 0 \notin S
  <2>1. Prefix(rs, 0) = {}  BY DEF Prefix
  <2>2. Added(res, res, {})  BY DEF Added
  <2>. QED  BY <1>2, <2>1, <2>2
<1>4. ASSUME NEW k \in 1 .. n, k - 1 \notin S PROVE k \notin S
  <2>1. k - 1 \in 0 .. n  OBVIOUS
  <2>2. Added(res, f[k - 1], Prefix(rs, k - 1))  BY <1>4, <2>1
  <2>3. f[k] = Add(f[k - 1], rs[k])  BY <1>2 DEF AddSteps
  <2>4. Added(res, f[k], Prefix(rs, k - 1) \cup {rs[k]})  BY <1>1, <2>2, <2>3, AddedOne
  <2>5. 1 .. k = (1 .. k - 1) \cup {k}  OBVIOUS
  <2>6. Prefix(rs, k) = Prefix(rs, k - 1) \cup {rs[k]}  BY <2>5 DEF Prefix
  <2>. QED  BY <2>4, <2>6
<1>5. S = {}
  <2>1. S \in SUBSET (0 .. n)  OBVIOUS
  <2>. HIDE DEF S
  <2>. QED  BY <1>3, <1>4, <2>1, NoFailure
<1>6. Added(res, f[n], Prefix(rs, n))  BY <1>5
<1>7. Prefix(rs, n) = ToSet(rs)  BY <1>1 DEF Prefix, ToSet
<1>. QED  BY <1>2, <1>6, <1>7

(* The result is what ReasonsAreComplete says of what was found. *)
Complete(res, found) ==
    /\ res \in ResultType
    /\ IF res.truncated
       THEN /\ LimitMaxReasons \in res.reasons
            /\ Cardinality(res.reasons) = MaxReasons
            /\ res.reasons \subseteq found \cup {LimitMaxReasons}
       ELSE res.reasons = found

(* No check finds that there are too many reasons. *)
Sources == {r \in ReasonType : r.code # LastCode}

(* The result stays complete when what a check found is added. *)
LEMMA AddAllCompletes ==
    ASSUME NEW res, NEW found \in SUBSET Sources, Complete(res, found),
           NEW rs \in Seq(Sources)
    PROVE  Complete(AddAll(res, rs), found \cup ToSet(rs))
<1>. DEFINE new == AddAll(res, rs)
<1>1. rs \in Seq(ReasonType)  BY DEF Sources
<1>2. res \in ResultType  BY DEF Complete
<1>3. Added(res, new, ToSet(rs))  BY <1>1, <1>2, AddAllIs
<1>4. LimitMaxReasons \notin found \cup ToSet(rs)
  <2>1. ToSet(rs) \subseteq Sources  BY NothingIn
  <2>. QED  BY <2>1, NoteIs DEF Sources
<1>. HIDE DEF new
<1>5. CASE new.reasons = res.reasons \cup ToSet(rs) /\ new.truncated = res.truncated
  <2>1. CASE res.truncated
    <3>1. res.reasons \subseteq new.reasons  BY <1>5
    <3>2. new.reasons \subseteq found \cup ToSet(rs) \cup {LimitMaxReasons}
      BY <1>5, <2>1 DEF Complete
    <3>3. IsFiniteSet(new.reasons) /\ Cardinality(new.reasons) <= MaxReasons
      BY <1>3 DEF Added, ResultType
    <3>4. Cardinality(res.reasons) = MaxReasons /\ LimitMaxReasons \in res.reasons
      BY <2>1 DEF Complete
    <3>5. res.reasons \in SUBSET new.reasons  BY <3>1
    <3>6. Cardinality(res.reasons) <= Cardinality(new.reasons)  BY <3>3, <3>5, FS_Subset
    <3>7. Cardinality(new.reasons) \in Nat /\ MaxReasons \in Nat
      BY <3>3, FS_CardinalityType, ValidationAssumption
    <3>8. Cardinality(new.reasons) = MaxReasons  BY <3>3, <3>4, <3>6, <3>7
    <3>. QED  BY <1>3, <1>5, <2>1, <3>1, <3>2, <3>4, <3>8 DEF Complete, Added, new
  <2>2. CASE ~ res.truncated
    <3>1. res.reasons = found  BY <2>2 DEF Complete
    <3>. QED  BY <1>3, <1>5, <2>2, <3>1 DEF Complete, Added, new
  <2>. QED  BY <2>1, <2>2
<1>6. CASE /\ LimitMaxReasons \in new.reasons
           /\ Cardinality(new.reasons) = MaxReasons
           /\ new.reasons \subseteq res.reasons \cup ToSet(rs) \cup {LimitMaxReasons}
           /\ new.truncated \/ LimitMaxReasons \in res.reasons \cup ToSet(rs)
  <2>1. res.reasons \subseteq found \cup {LimitMaxReasons}  BY DEF Complete
  <2>2. new.truncated
    <3>1. CASE LimitMaxReasons \in res.reasons
      <4>1. res.truncated  BY <1>4, <3>1 DEF Complete
      <4>. QED  BY <1>3, <4>1 DEF Added
    <3>. QED  BY <1>4, <1>6, <3>1
  <2>3. new.reasons \subseteq found \cup ToSet(rs) \cup {LimitMaxReasons}  BY <1>6, <2>1
  <2>. QED  BY <1>3, <1>6, <2>2, <2>3 DEF Complete, Added, new
<1>. QED  BY <1>3, <1>5, <1>6 DEF Added

(* So it does when another result is absorbed. *)
LEMMA AbsorbCompletes ==
    ASSUME NEW res, NEW found \in SUBSET Sources, Complete(res, found),
           NEW other, NEW more \in SUBSET Sources, Complete(other, more)
    PROVE  Complete(Absorb(res, other), found \cup more)
<1>. DEFINE start == [res EXCEPT !.truncated = @ \/ other.truncated]
            rs == InOrder(other.reasons)
            new == AddAll(start, rs)
            R == other.reasons
<1>1. /\ res \in [reasons : SUBSET ReasonType, truncated : BOOLEAN]
      /\ other \in [reasons : SUBSET ReasonType, truncated : BOOLEAN]
      /\ IsFiniteSet(res.reasons) /\ Cardinality(res.reasons) <= MaxReasons
      /\ IsFiniteSet(R) /\ Cardinality(R) <= MaxReasons
  BY DEF Complete, ResultType
<1>2. /\ start.reasons = res.reasons
      /\ start.truncated = (res.truncated \/ other.truncated)
      /\ start \in [reasons : SUBSET ReasonType, truncated : BOOLEAN]
  BY <1>1
<1>3. start \in ResultType
  <2>. HIDE DEF start
  <2>. QED  BY <1>1, <1>2 DEF ResultType
<1>4. rs \in Seq(R) /\ ToSet(rs) = R  BY <1>1, InOrderIs
<1>5. rs \in Seq(ReasonType)
  <2>. HIDE DEF rs
  <2>. QED  BY <1>1, <1>4
<1>. HIDE DEF rs, start
<1>6. Added(start, new, R)  BY <1>3, <1>4, <1>5, AddAllIs
<1>7. Absorb(res, other) = new  BY DEF Absorb, start, rs
<1>. HIDE DEF new, R
<1>8. LimitMaxReasons \notin found \cup more  BY NoteIs DEF Sources
<1>9. /\ R \subseteq more \cup {LimitMaxReasons}
      /\ ~ other.truncated => R = more
      /\ other.truncated => LimitMaxReasons \in R /\ Cardinality(R) = MaxReasons
  BY DEF Complete, R
<1>10. /\ res.reasons \subseteq found \cup {LimitMaxReasons}
       /\ ~ res.truncated => res.reasons = found
       /\ res.truncated => LimitMaxReasons \in res.reasons /\ Cardinality(res.reasons) = MaxReasons
  BY DEF Complete
<1>11. new \in ResultType /\ IsFiniteSet(new.reasons) /\ Cardinality(new.reasons) <= MaxReasons
  BY <1>6 DEF Added, ResultType
<1>12. Cardinality(new.reasons) \in Nat /\ MaxReasons \in Nat
  BY <1>11, FS_CardinalityType, ValidationAssumption
<1>13. CASE new.reasons = res.reasons \cup R /\ new.truncated = start.truncated
  <2>1. CASE new.truncated
    <3>1. LimitMaxReasons \in new.reasons  BY <1>2, <1>9, <1>10, <1>13, <2>1
    <3>2. new.reasons \subseteq found \cup more \cup {LimitMaxReasons}  BY <1>9, <1>10, <1>13
    <3>3. R \in SUBSET new.reasons /\ res.reasons \in SUBSET new.reasons  BY <1>13
    <3>4. /\ Cardinality(R) <= Cardinality(new.reasons)
          /\ Cardinality(res.reasons) <= Cardinality(new.reasons)
      BY <1>11, <3>3, FS_Subset
    <3>5. Cardinality(R) = MaxReasons \/ Cardinality(res.reasons) = MaxReasons
      BY <1>2, <1>9, <1>10, <1>13, <2>1
    <3>6. Cardinality(new.reasons) = MaxReasons  BY <1>11, <1>12, <3>4, <3>5
    <3>. QED  BY <1>7, <1>11, <2>1, <3>1, <3>2, <3>6 DEF Complete
  <2>2. CASE ~ new.truncated
    <3>1. new.reasons = found \cup more  BY <1>2, <1>9, <1>10, <1>13, <2>2
    <3>. QED  BY <1>7, <1>11, <2>2, <3>1 DEF Complete
  <2>. QED  BY <2>1, <2>2
<1>14. CASE /\ LimitMaxReasons \in new.reasons
            /\ Cardinality(new.reasons) = MaxReasons
            /\ new.reasons \subseteq res.reasons \cup R \cup {LimitMaxReasons}
            /\ new.truncated \/ LimitMaxReasons \in res.reasons \cup R
  <2>1. new.reasons \subseteq found \cup more \cup {LimitMaxReasons}  BY <1>9, <1>10, <1>14
  <2>2. new.truncated
    <3>1. CASE LimitMaxReasons \in res.reasons \cup R
      <4>1. res.truncated \/ other.truncated  BY <1>8, <1>9, <1>10, <3>1
      <4>. QED  BY <1>2, <1>6, <4>1 DEF Added
    <3>. QED  BY <1>14, <3>1
  <2>. QED  BY <1>7, <1>11, <1>14, <2>1, <2>2 DEF Complete
<1>. QED  BY <1>2, <1>6, <1>13, <1>14 DEF Added

(* A reason that is added to no reasons is kept, or one that comes before  *)
(* it is: only the last of the reasons gives its place to the note.        *)
LEMMA AddAllKeepsFirst ==
    ASSUME NEW rs \in Seq(Sources), rs # <<>>
    PROVE  \E q \in AddAll(Success, rs).reasons :
               q \in ToSet(rs) /\ phase_of(q) <= phase_of(rs[1])
<1>0. PICK n \in Nat : Len(rs) = n  OBVIOUS
<1>1. DOMAIN rs = 1 .. n /\ n # 0 /\ \A k \in 1 .. n : rs[k] \in Sources  BY <1>0
<1>2. PICK f : f[0] = Success /\ AddSteps(f, rs, n) /\ AddAll(Success, rs) = f[n]
  BY <1>1, AddAllRun
<1>. DEFINE ph == phase_of(rs[1])
            Kept(k) == \E q \in f[k].reasons : q \in ToSet(rs) /\ phase_of(q) <= ph
            Good(k) == /\ f[k] \in ResultType
                       /\ f[k].reasons \subseteq ToSet(rs) \cup {LimitMaxReasons}
                       /\ k # 0 => Kept(k)
            S == {k \in 0 .. n : ~ Good(k)}
<1>3. ToSet(rs) \subseteq Sources /\ \A k \in 1 .. n : rs[k] \in ToSet(rs)
  BY <1>1, NothingIn DEF ToSet
<1>4. 0 \notin S  BY <1>2, SuccessIs DEF Success
<1>5. \A r \in ReasonType : phase_of(r) \in Nat
  BY PhasesFollow
<1>6. ASSUME NEW k \in 1 .. n, k - 1 \notin S PROVE k \notin S
  <2>1. k - 1 \in 0 .. n  OBVIOUS
  <2>2. Good(k - 1)  BY <1>6, <2>1
  <2>. DEFINE old == f[k - 1]
              new == f[k]
  <2>3. new = Add(old, rs[k]) /\ old \in ResultType  BY <1>2, <2>2 DEF AddSteps
  <2>4. rs[k] \in ReasonType /\ rs[k] \in ToSet(rs)  BY <1>1, <1>3 DEF Sources
  <2>5. new \in ResultType  BY <2>3, <2>4, AddIs
  <2>6. old \in [reasons : SUBSET ReasonType, truncated : BOOLEAN]  BY <2>3 DEF ResultType
  <2>7. CASE new = [old EXCEPT !.reasons = @ \cup {rs[k]}]
    <3>1. new.reasons = old.reasons \cup {rs[k]}  BY <2>6, <2>7
    <3>2. Kept(k)
      <4>1. CASE k = 1
        <5>1. ph \in Nat  BY <1>1, <1>5 DEF Sources
        <5>. QED  BY <2>4, <3>1, <4>1, <5>1
      <4>2. CASE k # 1
        <5>1. Kept(k - 1)  BY <2>2, <4>2
        <5>. QED  BY <3>1, <5>1
      <4>. QED  BY <4>1, <4>2
    <3>. QED  BY <2>2, <2>4, <2>5, <3>1, <3>2
  <2>8. CASE new = old /\ Cardinality(old.reasons) = MaxReasons
    <3>1. k # 1
      <4>1. MaxReasons # 0  BY ValidationAssumption
      <4>2. Cardinality(Success.reasons) = 0  BY FS_EmptySet DEF Success
      <4>. QED  BY <1>2, <2>8, <4>1, <4>2
    <3>. QED  BY <2>2, <2>5, <2>8, <3>1
  <2>9. CASE /\ LimitMaxReasons \notin old.reasons
             /\ Cardinality(old.reasons) = MaxReasons
             /\ Latest(old) \in old.reasons
             /\ \A q \in old.reasons \ {Latest(old)} : Before(q, Latest(old))
             /\ new = [reasons |-> (old.reasons \ {Latest(old)}) \cup {LimitMaxReasons},
                       truncated |-> TRUE]
    <3>. DEFINE last == Latest(old)
    <3>1. new.reasons = (old.reasons \ {last}) \cup {LimitMaxReasons}  BY <2>9
    <3>2. k # 1
      <4>1. MaxReasons # 0  BY ValidationAssumption
      <4>2. Cardinality(Success.reasons) = 0  BY FS_EmptySet DEF Success
      <4>. QED  BY <1>2, <2>9, <4>1, <4>2
    <3>3. PICK q \in old.reasons : q \in ToSet(rs) /\ phase_of(q) <= ph  BY <2>2, <3>2
    <3>4. Kept(k)
      <4>1. CASE q # last  BY <3>1, <3>3, <4>1
      <4>2. CASE q = last
        <5>1. IsFiniteSet(old.reasons)  BY <2>3 DEF ResultType
        <5>2. Cardinality(old.reasons \ {last}) = Cardinality(old.reasons) - 1
          BY <2>9, <5>1, FS_RemoveElement
        <5>3. Cardinality(old.reasons \ {last}) # 0
          BY <2>9, <5>2, ValidationAssumption
        <5>4. PICK x : x \in old.reasons \ {last}  BY <5>3, FS_EmptySet
        <5>5. Before(x, q) /\ x \in ReasonType /\ q \in ReasonType  BY <2>6, <2>9, <4>2, <5>4
        <5>6. /\ phase_of(x) <= phase_of(q)
              /\ phase_of(x) \in Nat /\ phase_of(q) \in Nat
          BY <5>5, PhasesFollow
        <5>7. ph \in Nat  BY <1>1, <1>5 DEF Sources
        <5>8. phase_of(x) <= ph  BY <3>3, <5>6, <5>7
        <5>9. x \in ToSet(rs) /\ x \in new.reasons  BY <2>2, <2>9, <3>1, <5>4
        <5>. QED  BY <5>8, <5>9
      <4>. QED  BY <4>1, <4>2
    <3>5. new.reasons \subseteq ToSet(rs) \cup {LimitMaxReasons}  BY <2>2, <3>1
    <3>. HIDE DEF Kept
    <3>. QED  BY <2>5, <3>4, <3>5
  <2>. HIDE DEF S, Good, new, old
  <2>. QED  BY <2>3, <2>4, <2>7, <2>8, <2>9, AddIs
<1>7. S = {}
  <2>1. S \in SUBSET (0 .. n)  OBVIOUS
  <2>. HIDE DEF S
  <2>. QED  BY <1>4, <1>6, <2>1, NoFailure
<1>8. Kept(n)
  <2>. HIDE DEF Kept
  <2>. QED  BY <1>1, <1>7
<1>. QED  BY <1>2, <1>8

(* So if the reasons are added phase by phase, the primary reason is one   *)
(* of them and of the earliest phase.                                      *)
LEMMA PrimaryIsEarliest ==
    ASSUME NEW rs \in Seq(Sources), rs # <<>>, InPhaseOrder(rs)
    PROVE  /\ Primary(AddAll(Success, rs)) \in ToSet(rs)
           /\ \A r \in ToSet(rs) : phase_of(Primary(AddAll(Success, rs))) <= phase_of(r)
<1>. DEFINE res == AddAll(Success, rs)
            R == res.reasons
            first == Primary(res)
<1>1. rs \in Seq(ReasonType)  BY DEF Sources
<1>2. Added(Success, res, ToSet(rs))  BY <1>1, SuccessIs, AddAllIs
<1>3. R \in SUBSET ReasonType /\ IsFiniteSet(R)  BY <1>2 DEF Added, ResultType
<1>4. R \subseteq ToSet(rs) \cup {LimitMaxReasons}  BY <1>2 DEF Added, Success
<1>5. PICK q \in R : q \in ToSet(rs) /\ phase_of(q) <= phase_of(rs[1])  BY AddAllKeepsFirst
<1>. HIDE DEF res
<1>6. first \in R /\ \A x \in R \ {first} : Before(first, x)
  <2>1. \E r \in R : \A x \in R \ {r} : Before(r, x)  BY <1>3, <1>5, FirstAndLast
  <2>. QED  BY <2>1 DEF Primary
<1>. HIDE DEF first
<1>7. first = q \/ Before(first, q)  BY <1>5, <1>6
<1>8. first \in ReasonType /\ q \in ReasonType  BY <1>3, <1>5, <1>6
<1>9. first \in ToSet(rs)
  <2>1. q.code # LastCode /\ q.code \in 1 .. LastCode
    BY <1>5, <1>8, NothingIn, CodesAre DEF Sources, ReasonType
  <2>2. first = q \/ first.code <= q.code  BY <1>7, <1>8, BeforeIsOrder
  <2>3. LastCode \in Nat  BY DEF LastCode
  <2>4. first.code # LastCode  BY <2>1, <2>2, <2>3
  <2>. QED  BY <1>4, <1>6, <2>4, NoteIs
<1>10. phase_of(first) <= phase_of(q) /\ phase_of(first) \in Nat /\ phase_of(q) \in Nat
  BY <1>7, <1>8, PhasesFollow
<1>11. ASSUME NEW r \in ToSet(rs) PROVE phase_of(first) <= phase_of(r)
  <2>0. DOMAIN rs = 1 .. Len(rs) /\ Len(rs) \in Nat /\ Len(rs) # 0  OBVIOUS
  <2>1. PICK j \in 1 .. Len(rs) : r = rs[j]  BY <2>0 DEF ToSet
  <2>2. rs[1] \in ReasonType /\ r \in ReasonType  BY <1>1, <2>0, <2>1
  <2>3. phase_of(rs[1]) \in Nat /\ phase_of(r) \in Nat  BY <2>2, PhasesFollow
  <2>4. phase_of(rs[1]) <= phase_of(r)
    <3>1. 1 \in DOMAIN rs /\ j \in DOMAIN rs  BY <2>0
    <3>2. CASE j = 1  BY <2>1, <2>3, <3>2
    <3>3. CASE j # 1
      <4>1. 1 < j  BY <2>0, <3>3
      <4>. QED  BY <2>1, <3>1, <4>1 DEF InPhaseOrder
    <3>. QED  BY <3>2, <3>3
  <2>. QED  BY <1>5, <1>10, <2>3, <2>4
<1>. QED  BY <1>9, <1>11 DEF first, res
--------------------------------------------------------------------------------
(* The checks: what each reports is of its phase, and when it reports      *)
(* nothing.                                                                *)

(* The names the checks use. *)
LEMMA NamesAre ==
    /\ {"ListIdInvalid", "ListNotFound", "ListAlreadyExists", "ListGenerationInvalid",
        "ListGenerationConflict", "ListGenerationExhausted", "LifecycleTransitionDenied",
        "ListRetired", "ListRevoked", "ListWithdrawn", "ListSuperseded",
        "ListEmptyNotPermitted", "ListSupersedesUnknown"} \subseteq Names(4)
    /\ {"ProfileUnknown", "ProfileIdInvalid", "ProfileGenerationInvalid",
        "ProfileGenerationMismatch", "ProfileKindNotAllowed", "ProfilePayloadWidthExceeded",
        "ProfileMaxDepthExceeded", "ProfileRepeatNotPermitted", "ProfileEmptyNotPermitted",
        "ProfileKindMismatch", "ProfileStrictnessUnsupported"} \subseteq Names(5)
    /\ {"PolicyUnknown", "PolicyGenerationMismatch", "PolicyDeniedProfile",
        "PolicyDeniedSegmentKind", "PolicyMaxDepthExceeded", "PolicyRequiredEntityMissing",
        "PolicyForbiddenEntityPresent", "PolicyOwnershipMismatch", "PolicyReplacementDenied",
        "PolicyDerivationDenied", "PolicyStrictnessRequired"} \subseteq Names(6)
    /\ {"SegmentKindInvalid", "SegmentIdInvalid", "SegmentGenerationInvalid",
        "SegmentReservedFieldSet", "SegmentMissingBinding", "SegmentBindingIncomplete",
        "SegmentEncodingMismatch", "SegmentEntityUnknown", "SegmentEntityGenerationMismatch",
        "SegmentEntityKindMismatch", "SegmentDuplicateConsecutive",
        "SegmentDuplicateNonConsecutive"} \subseteq Names(7)
    /\ {"LimitMaxSegmentsPerList", "LimitMaxSegmentPayloadBytes"} \subseteq Names(13)
<1>0. \A c \in 1 .. LastCode - 1 : kCodes[c][1] \in Names(kCodes[c][2])  BY DEF Names
<1>1. {"ListIdInvalid", "ListNotFound", "ListAlreadyExists", "ListGenerationInvalid",
       "ListGenerationConflict", "ListGenerationExhausted", "LifecycleTransitionDenied",
       "ListRetired", "ListRevoked", "ListWithdrawn", "ListSuperseded",
       "ListEmptyNotPermitted", "ListSupersedesUnknown"} \subseteq Names(4)
  BY <1>0 DEF kCodes, LastCode
<1>2. {"ProfileUnknown", "ProfileIdInvalid", "ProfileGenerationInvalid",
       "ProfileGenerationMismatch", "ProfileKindNotAllowed", "ProfilePayloadWidthExceeded",
       "ProfileMaxDepthExceeded", "ProfileRepeatNotPermitted", "ProfileEmptyNotPermitted",
       "ProfileKindMismatch", "ProfileStrictnessUnsupported"} \subseteq Names(5)
  BY <1>0 DEF kCodes, LastCode
<1>3. {"PolicyUnknown", "PolicyGenerationMismatch", "PolicyDeniedProfile",
       "PolicyDeniedSegmentKind", "PolicyMaxDepthExceeded", "PolicyRequiredEntityMissing",
       "PolicyForbiddenEntityPresent", "PolicyOwnershipMismatch", "PolicyReplacementDenied",
       "PolicyDerivationDenied", "PolicyStrictnessRequired"} \subseteq Names(6)
  BY <1>0 DEF kCodes, LastCode
<1>4. {"SegmentKindInvalid", "SegmentIdInvalid", "SegmentGenerationInvalid",
       "SegmentReservedFieldSet", "SegmentMissingBinding", "SegmentBindingIncomplete",
       "SegmentEncodingMismatch", "SegmentEntityUnknown", "SegmentEntityGenerationMismatch",
       "SegmentEntityKindMismatch", "SegmentDuplicateConsecutive",
       "SegmentDuplicateNonConsecutive"} \subseteq Names(7)
  BY <1>0 DEF kCodes, LastCode
<1>5. {"LimitMaxSegmentsPerList", "LimitMaxSegmentPayloadBytes"} \subseteq Names(13)
  BY <1>0 DEF kCodes, LastCode
<1>. QED  BY <1>1, <1>2, <1>3, <1>4, <1>5

(* A check of one condition. *)
LEMMA IfIs ==
    ASSUME NEW ph, NEW name \in Names(ph), NEW index \in Nat, NEW detail \in Nat,
           NEW c \in BOOLEAN
    PROVE  /\ If(c, name, index, detail) \in Seq(Found({ph}))
           /\ If(c, name, index, detail) = <<>> <=> ~ c
<1>1. CASE c  BY <1>1, ReasonIs DEF If
<1>2. CASE ~ c  BY <1>2 DEF If
<1>. QED  BY <1>1, <1>2

(* Three checks, one after the other. *)
LEMMA Three ==
    ASSUME NEW T, NEW s \in Seq(T), NEW t \in Seq(T), NEW u \in Seq(T)
    PROVE  /\ s \o t \o u \in Seq(T)
           /\ s \o t \o u = <<>> <=> s = <<>> /\ t = <<>> /\ u = <<>>
<1>1. s \o t \in Seq(T) /\ (s \o t = <<>> <=> s = <<>> /\ t = <<>>)  BY Concatenation
<1>. DEFINE v == s \o t
<1>. HIDE DEF v
<1>2. v \o u \in Seq(T) /\ (v \o u = <<>> <=> v = <<>> /\ u = <<>>)
  <2>1. v \in Seq(T)  BY <1>1 DEF v
  <2>. QED  BY <2>1, Concatenation
<1>. QED  BY <1>1, <1>2 DEF v

(* A check of every place. *)
LEMMA Everywhere ==
    ASSUME NEW T, NEW n \in Nat, NEW ss, ss = [i \in 1 .. n |-> ss[i]],
           \A i \in 1 .. n : ss[i] \in Seq(T)
    PROVE  /\ FlattenSeq(ss) \in Seq(T)
           /\ FlattenSeq(ss) = <<>> <=> \A i \in 1 .. n : ss[i] = <<>>
<1>1. ss \in Seq(Seq(T)) /\ DOMAIN ss = 1 .. n  OBVIOUS
<1>. QED  BY <1>1, Flattened

(* A reason for each of a sequence. *)
LEMMA EachOf ==
    ASSUME NEW T, NEW n \in Nat, NEW rs, rs = [k \in 1 .. n |-> rs[k]],
           \A k \in 1 .. n : rs[k] \in T
    PROVE  rs \in Seq(T) /\ (rs = <<>> <=> n = 0)
<1>1. rs \in Seq(T) /\ Len(rs) = n  OBVIOUS
<1>. QED  BY <1>1

(* What is known of a draft, and of its first segments. *)
LEMMA DraftIs ==
    ASSUME NEW d \in DraftType
    PROVE  /\ d.segments \in Seq(SegmentType) /\ Len(d.segments) \in Nat
           /\ DOMAIN d.segments = 1 .. Len(d.segments)
           /\ \A i \in DOMAIN d.segments : d.segments[i] \in SegmentType
           /\ d.id \in Nat /\ d.call \in {"create", "replace", "revalidate", "batch"}
           /\ d.existing \in 0 .. MaxGeneration /\ d.existing \in Nat
           /\ d.state \in LifecycleState /\ d.expected \in Nat
           /\ d.profile \in Nat /\ d.profile_generation \in Nat
           /\ d.policy \in Nat /\ d.policy_generation \in Nat /\ d.scope \in Nat
           /\ d.strictness \in {"Strict", "Loose"} /\ d.derived \in BOOLEAN
           /\ d.superseded \in {"none", "unknown"} \cup LifecycleState
           /\ d.supersedes_generation \in Nat /\ d.superseded_generation \in Nat
<1>1. d.segments \in Seq(SegmentType)  BY DEF DraftType
<1>2. /\ Len(d.segments) \in Nat /\ DOMAIN d.segments = 1 .. Len(d.segments)
      /\ \A i \in DOMAIN d.segments : d.segments[i] \in SegmentType
  BY <1>1
<1>3. d.existing \in 0 .. MaxGeneration /\ MaxGeneration \in Nat
  BY ValidationAssumption DEF DraftType
<1>4. d.existing \in Nat  BY <1>3
<1>. QED  BY <1>1, <1>2, <1>3, <1>4 DEF DraftType

(* The scan leaves out nothing of a draft within the limit. *)
LEMMA ScanIs ==
    ASSUME NEW d \in DraftType
    PROVE  /\ Scan(d) \in Seq(SegmentType) /\ Len(Scan(d)) \in Nat
           /\ DOMAIN Scan(d) = 1 .. Len(Scan(d))
           /\ \A i \in DOMAIN Scan(d) : Scan(d)[i] \in SegmentType
           /\ Len(d.segments) <= MaxSegments => Scan(d) = d.segments
<1>. DEFINE s == d.segments
            m == IF Len(s) <= MaxSegments THEN Len(s) ELSE MaxSegments + 1
<1>1. s \in Seq(SegmentType) /\ Len(s) \in Nat /\ DOMAIN s = 1 .. Len(s)  BY DraftIs
<1>2. MaxSegments \in Nat  BY ValidationAssumption
<1>3. Scan(d) = SubSeq(s, 1, m)  BY DEF Scan
<1>4. m \in Nat /\ m <= Len(s)  BY <1>1, <1>2
<1>. HIDE DEF s, m
<1>5. SubSeq(s, 1, m) = [i \in 1 .. m |-> s[i]]  BY <1>1, <1>4
<1>6. Scan(d) = [i \in 1 .. m |-> s[i]]  BY <1>3, <1>5
<1>7. \A i \in 1 .. m : s[i] \in SegmentType  BY <1>1, <1>4
<1>8. /\ Scan(d) \in Seq(SegmentType) /\ Len(Scan(d)) = m /\ DOMAIN Scan(d) = 1 .. m
      /\ \A i \in 1 .. m : Scan(d)[i] \in SegmentType
  BY <1>4, <1>6, <1>7
<1>9. ASSUME Len(s) <= MaxSegments PROVE Scan(d) = s
  <2>1. m = Len(s)  BY <1>9 DEF m
  <2>. QED  BY <1>1, <1>6, <2>1
<1>. QED  BY <1>4, <1>8, <1>9 DEF s

(* A profile or policy that is found is one of those that are registered,  *)
(* and the only one with its id.                                           *)
LEMMA FindIs ==
    ASSUME NEW table \in {Profiles, Policies, Recorded}, NEW id
    PROVE  /\ Find(table, id) = None <=> ~ \E x \in table : x.id = id
           /\ Find(table, id) # None => Find(table, id) \in table /\ Find(table, id).id = id
           /\ \A x \in table : x.id = id => x = Find(table, id)
<1>1. None \notin table /\ \A x, y \in table : x.id = y.id => x = y  BY ValidationAssumption
<1>2. CASE \E x \in table : x.id = id
  <2>1. Find(table, id) \in table /\ Find(table, id).id = id  BY <1>2 DEF Find
  <2>. QED  BY <1>1, <1>2, <2>1
<1>3. CASE ~ \E x \in table : x.id = id  BY <1>1, <1>3 DEF Find
<1>. QED  BY <1>2, <1>3

(* What is known of the profile of a draft. *)
LEMMA ProfileIs ==
    ASSUME NEW p \in Profiles
    PROVE  /\ p.gen \in Nat /\ p.gen # 0 /\ p.max_depth \in Nat /\ p.payload_width \in Nat
           /\ p.kinds \subseteq SegmentKind /\ p.empty \in BOOLEAN /\ p.loose \in BOOLEAN
           /\ p.consecutive \in BOOLEAN /\ p.nonconsecutive \in BOOLEAN /\ p # None
<1>1. p \in ProfileType /\ None \notin Profiles  BY ValidationAssumption
<1>. QED  BY <1>1 DEF ProfileType

(* Two segments of which the profile forbids the second. *)
Forbidden(s, p, j, i) ==
    /\ SegmentSemanticEqual(s[j], s[i], IF p = None THEN 0 ELSE p.payload_width)
    /\ p # None => ~ IF j + 1 = i THEN p.consecutive ELSE p.nonconsecutive

RepeatType(n) == [at : 1 .. n, consecutive : BOOLEAN]

(* There is no forbidden repeat if no pair is forbidden. *)
LEMMA RepeatsAre ==
    ASSUME NEW d \in DraftType, NEW p
    PROVE  /\ ForbiddenRepeats(d, p) \in Seq(RepeatType(Len(Scan(d))))
           /\ ForbiddenRepeats(d, p) = <<>>
                <=> \A i \in DOMAIN Scan(d) : \A j \in 1 .. i - 1 : ~ Forbidden(Scan(d), p, j, i)
<1>. DEFINE s == Scan(d)
            T == RepeatType(Len(s))
            pair(j, i) == IF Forbidden(s, p, j, i)
                          THEN <<[at |-> i, consecutive |-> j + 1 = i]>> ELSE <<>>
            row(i) == [j \in 1 .. i - 1 |-> pair(j, i)]
            rows == [i \in DOMAIN s |-> FlattenSeq(row(i))]
<1>1. ForbiddenRepeats(d, p) = FlattenSeq(rows)  BY DEF ForbiddenRepeats, Forbidden
<1>2. PICK n \in Nat : Len(s) = n /\ DOMAIN s = 1 .. n  BY ScanIs
<1>3. ASSUME NEW i \in 1 .. n
      PROVE  /\ FlattenSeq(row(i)) \in Seq(T)
             /\ FlattenSeq(row(i)) = <<>> <=> \A j \in 1 .. i - 1 : ~ Forbidden(s, p, j, i)
  <2>1. ASSUME NEW j \in 1 .. i - 1
        PROVE  pair(j, i) \in Seq(T) /\ (pair(j, i) = <<>> <=> ~ Forbidden(s, p, j, i))
    <3>1. [at |-> i, consecutive |-> j + 1 = i] \in T  BY <1>2 DEF RepeatType
    <3>2. CASE Forbidden(s, p, j, i)  BY <3>1, <3>2
    <3>3. CASE ~ Forbidden(s, p, j, i)  BY <3>3
    <3>. QED  BY <3>2, <3>3
  <2>2. i - 1 \in Nat  OBVIOUS
  <2>. DEFINE ss == row(i)
  <2>3. ss = [j \in 1 .. i - 1 |-> ss[j]] /\ \A j \in 1 .. i - 1 : ss[j] = pair(j, i)  OBVIOUS
  <2>. HIDE DEF ss, T, pair
  <2>4. \A j \in 1 .. i - 1 : ss[j] \in Seq(T)  BY <2>1, <2>3
  <2>5. /\ FlattenSeq(ss) \in Seq(T)
        /\ FlattenSeq(ss) = <<>> <=> \A j \in 1 .. i - 1 : ss[j] = <<>>
    BY <2>2, <2>3, <2>4, Everywhere
  <2>6. FlattenSeq(ss) = <<>> <=> \A j \in 1 .. i - 1 : ~ Forbidden(s, p, j, i)
    BY <2>1, <2>3, <2>5
  <2>. QED  BY <2>5, <2>6 DEF ss
<1>. HIDE DEF row, T
<1>4. rows = [i \in 1 .. n |-> rows[i]] /\ \A i \in 1 .. n : rows[i] = FlattenSeq(row(i))
  BY <1>2
<1>. HIDE DEF rows
<1>5. \A i \in 1 .. n : rows[i] \in Seq(T)  BY <1>3, <1>4
<1>6. FlattenSeq(rows) \in Seq(T) /\ (FlattenSeq(rows) = <<>> <=> \A i \in 1 .. n : rows[i] = <<>>)
  BY <1>4, <1>5, Everywhere
<1>. QED  BY <1>1, <1>2, <1>3, <1>4, <1>6 DEF T

(* Two checks, one after the other. *)
LEMMA Two ==
    ASSUME NEW T, NEW s \in Seq(T), NEW t \in Seq(T)
    PROVE  s \o t \in Seq(T) /\ (s \o t = <<>> <=> s = <<>> /\ t = <<>>)
  BY Concatenation

(* Where a new revision can start from, and what can be superseded. *)
LEMMA PermittedStates ==
    /\ \A c \in {"create", "replace", "revalidate", "batch"} : \A l \in LifecycleState :
          /\ 256 * StateCode[l] + EventCode[Intent[c]] \in Nat
          /\ c # "create" =>
                (Permits(l, Intent[c]) <=>
                    l \in IF c = "revalidate" THEN {"Active", "RevalidationRequired"}
                          ELSE {"Declared", "Validating", "Active", "RevalidationRequired"})
    /\ \A l \in LifecycleState :
          Permits(l, "SupersedeBegin") <=> l \notin {"Superseded", "Revoked", "Retired"}
<1>1. \A l \in LifecycleState : StateCode[l] \in Nat  BY DEF LifecycleState, StateCode
<1>2. \A c \in {"create", "replace", "revalidate", "batch"} : EventCode[Intent[c]] \in Nat
  BY DEF Intent, EventCode
<1>3. \A c \in {"create", "replace", "revalidate", "batch"} : \A l \in LifecycleState :
        256 * StateCode[l] + EventCode[Intent[c]] \in Nat
  BY <1>1, <1>2
<1>4. \A l \in LifecycleState :
        /\ Permits(l, "ReplaceBegin")
              <=> l \in {"Declared", "Validating", "Active", "RevalidationRequired"}
        /\ Permits(l, "RevalidateBegin") <=> l \in {"Active", "RevalidationRequired"}
        /\ Permits(l, "SupersedeBegin") <=> l \notin {"Superseded", "Revoked", "Retired"}
  BY DEF LifecycleState, Permits, kTable
<1>5. /\ Intent["replace"] = "ReplaceBegin" /\ Intent["batch"] = "ReplaceBegin"
      /\ Intent["revalidate"] = "RevalidateBegin"
  BY DEF Intent
<1>. QED  BY <1>3, <1>4, <1>5

(* A transition is denied exactly if the table does. *)
LEMMA TransitionDeniedIs ==
    ASSUME NEW d \in DraftType
    PROVE  /\ transition_denied(d) \in Seq(Found({4}))
           /\ transition_denied(d) = <<>> <=> Permits(d.state, Intent[d.call])
<1>1. CASE Permits(d.state, Intent[d.call])
  <2>1. transition_denied(d) = <<>>  BY <1>1 DEF transition_denied
  <2>. QED  BY <1>1, <2>1
<1>2. CASE ~ Permits(d.state, Intent[d.call])
  <2>0. /\ 0 \in Nat /\ d.existing \in Nat
        /\ 256 * StateCode[d.state] + EventCode[Intent[d.call]] \in Nat
        /\ "ListRetired" \in Names(4) /\ "ListRevoked" \in Names(4)
        /\ "ListSuperseded" \in Names(4) /\ "ListWithdrawn" \in Names(4)
        /\ "LifecycleTransitionDenied" \in Names(4)
    BY DraftIs, PermittedStates, NamesAre
  <2>. DEFINE T == Found({4})
              a == If(d.state = "Retired", "ListRetired", 0, d.existing)
              b == If(d.state = "Revoked", "ListRevoked", 0, d.existing)
              c == If(d.state = "Superseded", "ListSuperseded", 0, d.existing)
              e == If(d.state = "Withdrawn", "ListWithdrawn", 0, d.existing)
              f == <<Reason("LifecycleTransitionDenied", 0,
                            256 * StateCode[d.state] + EventCode[Intent[d.call]])>>
              g == a \o b \o c
  <2>1. a \in Seq(T)  BY <2>0, IfIs, Zenon
  <2>2. b \in Seq(T)  BY <2>0, IfIs, Zenon
  <2>3. c \in Seq(T)  BY <2>0, IfIs, Zenon
  <2>4. e \in Seq(T)  BY <2>0, IfIs, Zenon
  <2>5. f \in Seq(T) /\ f # <<>>  BY <2>0, ReasonIs
  <2>6. transition_denied(d) = g \o e \o f  BY <1>2 DEF transition_denied
  <2>. HIDE DEF T, a, b, c, e, f
  <2>7. g \in Seq(T)  BY <2>1, <2>2, <2>3, Three
  <2>. HIDE DEF g
  <2>8. g \o e \o f \in Seq(T) /\ g \o e \o f # <<>>  BY <2>4, <2>5, <2>7, Three
  <2>. QED  BY <1>2, <2>6, <2>8 DEF T
<1>. QED  BY <1>1, <1>2

(* What is asked of a list that exists. *)
LEMMA ExistingListIs ==
    ASSUME NEW d \in DraftType, d.existing # 0
    PROVE  /\ existing_list(d) \in Seq(Found({4}))
           /\ existing_list(d) = <<>>
                <=> /\ d.expected = d.existing /\ d.existing < MaxGeneration
                    /\ Permits(d.state, Intent[d.call])
<1>0. /\ 0 \in Nat /\ d.existing \in Nat /\ "ListGenerationConflict" \in Names(4)
      /\ "ListGenerationInvalid" \in Names(4) /\ "ListGenerationExhausted" \in Names(4)
  BY DraftIs, NamesAre
<1>. DEFINE T == Found({4})
            a == generation_conflict(d)
            b == If(d.expected = 0, "ListGenerationInvalid", 0, 0)
            c == If(d.existing = MaxGeneration, "ListGenerationExhausted", 0, d.existing)
            e == transition_denied(d)
            g == a \o b \o c
<1>1. a \in Seq(T) /\ (a = <<>> <=> ~ (d.existing # 0 /\ d.expected # d.existing))
  BY <1>0, IfIs, Zenon DEF generation_conflict
<1>2. b \in Seq(T) /\ (b = <<>> <=> ~ (d.expected = 0))  BY <1>0, IfIs, Zenon
<1>3. c \in Seq(T) /\ (c = <<>> <=> ~ (d.existing = MaxGeneration))  BY <1>0, IfIs, Zenon
<1>4. e \in Seq(T) /\ (e = <<>> <=> Permits(d.state, Intent[d.call]))  BY TransitionDeniedIs
<1>5. existing_list(d) = g \o e  BY DEF existing_list
<1>. HIDE DEF T, a, b, c, e
<1>6. g \in Seq(T) /\ (g = <<>> <=> a = <<>> /\ b = <<>> /\ c = <<>>)
  BY <1>1, <1>2, <1>3, Three
<1>. HIDE DEF g
<1>7. g \o e \in Seq(T) /\ (g \o e = <<>> <=> g = <<>> /\ e = <<>>)  BY <1>4, <1>6, Two
<1>8. d.existing # MaxGeneration <=> d.existing < MaxGeneration
  <2>1. d.existing \in 0 .. MaxGeneration /\ MaxGeneration \in Nat  BY DraftIs, ValidationAssumption
  <2>. QED  BY <2>1
<1>9. g \o e = <<>> <=> /\ d.expected = d.existing /\ d.existing < MaxGeneration
                        /\ Permits(d.state, Intent[d.call])
  BY <1>1, <1>2, <1>3, <1>4, <1>6, <1>7, <1>8
<1>. QED  BY <1>5, <1>7, <1>9 DEF T

(* The conditions on the lifecycle of the list. *)
LEMMA ListLifecycleIs ==
    ASSUME NEW d \in DraftType
    PROVE  /\ check_list_lifecycle(d) \in Seq(Found({4}))
           /\ check_list_lifecycle(d) = <<>> <=> MayFollow(d)
<1>0. /\ 0 \in Nat /\ d.id \in Nat /\ "ListIdInvalid" \in Names(4)
      /\ "ListNotFound" \in Names(4) /\ "ListAlreadyExists" \in Names(4)
  BY DraftIs, NamesAre
<1>. DEFINE T == Found({4})
            a == If(d.id = 0, "ListIdInvalid", 0, 0)
            b == If(d.call \in {"replace", "revalidate"} /\ d.existing = 0, "ListNotFound", 0, d.id)
            c == If(d.call = "create" /\ d.existing # 0, "ListAlreadyExists", 0, d.id)
            e == IF d.existing = 0 THEN If(d.expected # 0, "ListNotFound", 0, d.id)
                                   ELSE existing_list(d)
            g == a \o b \o c
<1>1. a \in Seq(T) /\ (a = <<>> <=> ~ (d.id = 0))  BY <1>0, IfIs, Zenon
<1>2. b \in Seq(T) /\ (b = <<>> <=> ~ (d.call \in {"replace", "revalidate"} /\ d.existing = 0))
  BY <1>0, IfIs, Zenon
<1>3. c \in Seq(T) /\ (c = <<>> <=> ~ (d.call = "create" /\ d.existing # 0))
  BY <1>0, IfIs, Zenon
<1>4. /\ e \in Seq(T)
      /\ d.existing = 0 => (e = <<>> <=> d.expected = 0)
      /\ d.existing # 0 =>
            (e = <<>> <=> /\ d.expected = d.existing /\ d.existing < MaxGeneration
                          /\ Permits(d.state, Intent[d.call]))
  <2>1. /\ If(d.expected # 0, "ListNotFound", 0, d.id) \in Seq(T)
        /\ If(d.expected # 0, "ListNotFound", 0, d.id) = <<>> <=> ~ (d.expected # 0)
    BY <1>0, IfIs, Zenon
  <2>2. CASE d.existing = 0  BY <2>1, <2>2
  <2>3. CASE d.existing # 0  BY <2>3, ExistingListIs
  <2>. QED  BY <2>2, <2>3
<1>5. check_list_lifecycle(d) = g \o e  BY DEF check_list_lifecycle
<1>. HIDE DEF T, a, b, c, e
<1>6. g \in Seq(T) /\ (g = <<>> <=> a = <<>> /\ b = <<>> /\ c = <<>>)
  BY <1>1, <1>2, <1>3, Three
<1>. HIDE DEF g
<1>7. g \o e \in Seq(T) /\ (g \o e = <<>> <=> g = <<>> /\ e = <<>>)  BY <1>4, <1>6, Two
<1>8. d.call # "create" =>
        (Permits(d.state, Intent[d.call]) <=>
            d.state \in IF d.call = "revalidate" THEN {"Active", "RevalidationRequired"}
                        ELSE {"Declared", "Validating", "Active", "RevalidationRequired"})
  BY DraftIs, PermittedStates
<1>9. g \o e = <<>> <=> MayFollow(d)
  <2>1. CASE d.existing = 0  BY <1>1, <1>2, <1>3, <1>4, <1>6, <1>7, <2>1 DEF MayFollow
  <2>2. CASE d.existing # 0 /\ d.call = "create"
    BY <1>1, <1>2, <1>3, <1>6, <1>7, <2>2 DEF MayFollow
  <2>3. CASE d.existing # 0 /\ d.call # "create"
    BY <1>1, <1>2, <1>3, <1>4, <1>6, <1>7, <1>8, <2>3 DEF MayFollow
  <2>. QED  BY <2>1, <2>2, <2>3
<1>. QED  BY <1>5, <1>7, <1>9 DEF T

(* The conditions on a list that is superseded and was found. *)
LEMMA SupersedesKnownIs ==
    ASSUME NEW d \in DraftType, d.superseded \notin {"none", "unknown"}
    PROVE  /\ supersedes_known(d) \in Seq(Found({4}))
           /\ supersedes_known(d) = <<>> <=> MaySupersede(d)
<1>0. /\ 0 \in Nat /\ d.superseded_generation \in Nat /\ d.superseded \in LifecycleState
      /\ "ListGenerationConflict" \in Names(4) /\ "ListRetired" \in Names(4)
      /\ "ListRevoked" \in Names(4) /\ "LifecycleTransitionDenied" \in Names(4)
  BY DraftIs, NamesAre
<1>. DEFINE T == Found({4})
            a == If(d.supersedes_generation # d.superseded_generation,
                    "ListGenerationConflict", 0, d.superseded_generation)
            b == If(d.superseded = "Retired", "ListRetired", 0, d.superseded_generation)
            c == If(d.superseded = "Revoked", "ListRevoked", 0, d.superseded_generation)
            e == If(~ Permits(d.superseded, "SupersedeBegin"),
                    "LifecycleTransitionDenied", 0, d.superseded_generation)
            g == a \o b \o c
<1>1. a \in Seq(T) /\ (a = <<>> <=> ~ (d.supersedes_generation # d.superseded_generation))
  BY <1>0, IfIs, Zenon
<1>2. b \in Seq(T) /\ (b = <<>> <=> ~ (d.superseded = "Retired"))  BY <1>0, IfIs, Zenon
<1>3. c \in Seq(T) /\ (c = <<>> <=> ~ (d.superseded = "Revoked"))  BY <1>0, IfIs, Zenon
<1>4. e \in Seq(T) /\ (e = <<>> <=> Permits(d.superseded, "SupersedeBegin"))
  <2>1. (~ Permits(d.superseded, "SupersedeBegin")) \in BOOLEAN  BY DEF Permits
  <2>2. e \in Seq(T) /\ (e = <<>> <=> ~ ~ Permits(d.superseded, "SupersedeBegin"))
    BY <1>0, <2>1, IfIs, Zenon
  <2>. QED  BY <2>2
<1>5. supersedes_known(d) = g \o e  BY DEF supersedes_known
<1>. HIDE DEF T, a, b, c, e
<1>6. g \in Seq(T) /\ (g = <<>> <=> a = <<>> /\ b = <<>> /\ c = <<>>)
  BY <1>1, <1>2, <1>3, Three
<1>. HIDE DEF g
<1>7. g \o e \in Seq(T) /\ (g \o e = <<>> <=> g = <<>> /\ e = <<>>)  BY <1>4, <1>6, Two
<1>8. Permits(d.superseded, "SupersedeBegin") <=> d.superseded \notin {"Superseded", "Revoked", "Retired"}
  BY <1>0, PermittedStates
<1>9. g \o e = <<>> <=> MaySupersede(d)
  BY <1>0, <1>1, <1>2, <1>3, <1>4, <1>6, <1>7, <1>8 DEF MaySupersede
<1>. QED  BY <1>5, <1>7, <1>9 DEF T

(* What the checks on the list and those after the phases ask. *)
LEMMA LifecycleIs ==
    ASSUME NEW d \in DraftType, NEW p
    PROVE  /\ check_list_lifecycle(d) \in Seq(Found({4}))
           /\ check_list_lifecycle(d) = <<>> <=> MayFollow(d)
           /\ check_list_content_lifecycle(d, p) \in Seq(Found({4}))
           /\ check_list_content_lifecycle(d, p) = <<>>
                <=> ~ (d.segments = <<>> /\ (p # None => ~ p.empty))
           /\ LateChecks(d) \in Seq(Found({4}))
           /\ LateChecks(d) = <<>>
                <=> (d.existing # 0 => d.expected = d.existing) /\ MaySupersede(d)
<1>1. /\ 0 \in Nat /\ 1 \in Nat /\ d.existing \in Nat
      /\ "ListGenerationConflict" \in Names(4) /\ "ListEmptyNotPermitted" \in Names(4)
      /\ "ListSupersedesUnknown" \in Names(4)
  BY DraftIs, NamesAre
<1>2. /\ check_list_content_lifecycle(d, p) \in Seq(Found({4}))
      /\ check_list_content_lifecycle(d, p) = <<>>
           <=> ~ (d.segments = <<>> /\ (p # None => ~ p.empty))
  BY <1>1, IfIs, Zenon DEF check_list_content_lifecycle
<1>. DEFINE T == Found({4})
            a == generation_conflict(d)
            u == <<Reason("ListSupersedesUnknown", 0, 1)>>
            b == IF d.superseded = "none" THEN <<>>
                 ELSE IF d.superseded = "unknown" THEN u ELSE supersedes_known(d)
<1>3. a \in Seq(T) /\ (a = <<>> <=> ~ (d.existing # 0 /\ d.expected # d.existing))
  BY <1>1, IfIs, Zenon DEF generation_conflict
<1>4. u \in Seq(T) /\ u # <<>>  BY <1>1, ReasonIs
<1>5. b \in Seq(T) /\ (b = <<>> <=> MaySupersede(d))
  <2>. HIDE DEF u
  <2>1. CASE d.superseded = "none"
    <3>1. b = <<>>  BY <2>1
    <3>2. <<>> \in Seq(T)  OBVIOUS
    <3>. QED  BY <2>1, <3>1, <3>2 DEF MaySupersede
  <2>2. CASE d.superseded = "unknown"
    <3>1. b = u  BY <2>2
    <3>2. ~ MaySupersede(d)  BY <2>2 DEF MaySupersede, LifecycleState
    <3>. QED  BY <1>4, <3>1, <3>2
  <2>3. CASE d.superseded \notin {"none", "unknown"}
    <3>1. b = supersedes_known(d)  BY <2>3
    <3>. QED  BY <2>3, <3>1, SupersedesKnownIs
  <2>. QED  BY <2>1, <2>2, <2>3
<1>6. LateChecks(d) = a \o b  BY DEF LateChecks
<1>. HIDE DEF T, a, b
<1>7. a \o b \in Seq(T) /\ (a \o b = <<>> <=> a = <<>> /\ b = <<>>)  BY <1>3, <1>5, Two
<1>8. LateChecks(d) \in Seq(Found({4}))  BY <1>6, <1>7 DEF T
<1>9. LateChecks(d) = <<>> <=> (d.existing # 0 => d.expected = d.existing) /\ MaySupersede(d)
  BY <1>3, <1>5, <1>6, <1>7
<1>. QED  BY <1>2, <1>8, <1>9, ListLifecycleIs

(* The codes of the kinds. *)
LEMMA KindCodes ==
    ASSUME NEW k \in KindType
    PROVE  KindCode[k] \in Nat
  BY DEF KindType, SegmentKind, KindCode

(* What is known of a segment. *)
LEMMA SegmentIs ==
    ASSUME NEW s \in SegmentType
    PROVE  /\ s.kind \in KindType /\ s.encoding \in KindType /\ s.id \in Nat /\ s.gen \in Nat
           /\ s.ref \in Nat /\ s.payload \in Seq(Nat) /\ Len(s.payload) \in Nat
           /\ DOMAIN s.payload = 1 .. Len(s.payload)
           /\ KindCode[s.kind] \in Nat /\ KindCode[s.encoding] \in Nat
<1>1. /\ s.kind \in KindType /\ s.encoding \in KindType /\ s.id \in Nat /\ s.gen \in Nat
      /\ s.ref \in Nat /\ s.payload \in Seq(Nat)
  BY DEF SegmentType
<1>2. Len(s.payload) \in Nat /\ DOMAIN s.payload = 1 .. Len(s.payload)  BY <1>1
<1>. QED  BY <1>1, <1>2, KindCodes

(* The conditions of a profile on a segment. *)
LEMMA ProfileSegmentIs ==
    ASSUME NEW p \in Profiles, NEW s \in SegmentType, NEW index \in Nat
    PROVE  /\ profile_segment(p, s, index) \in Seq(Found({5}))
           /\ profile_segment(p, s, index) = <<>>
                <=> s.kind \in p.kinds /\ Len(s.payload) <= p.payload_width
<1>1. KindCode[s.kind] \in Nat /\ p.payload_width \in Nat /\ Len(s.payload) \in Nat
  BY SegmentIs, ProfileIs
<1>2. /\ "ProfileKindNotAllowed" \in Names(5) /\ "ProfileKindMismatch" \in Names(5)
      /\ "ProfilePayloadWidthExceeded" \in Names(5)
  BY NamesAre
<1>. DEFINE a == If(s.kind \notin p.kinds, "ProfileKindNotAllowed", index, KindCode[s.kind])
            b == If(s.kind = "Invalid", "ProfileKindMismatch", index, KindCode[s.kind])
            c == If(Len(s.payload) > p.payload_width, "ProfilePayloadWidthExceeded", index,
                    p.payload_width)
<1>3. a \in Seq(Found({5})) /\ (a = <<>> <=> ~ (s.kind \notin p.kinds))
  BY <1>1, <1>2, IfIs, Zenon
<1>4. b \in Seq(Found({5})) /\ (b = <<>> <=> ~ (s.kind = "Invalid"))
  BY <1>1, <1>2, IfIs, Zenon
<1>5. c \in Seq(Found({5})) /\ (c = <<>> <=> ~ (Len(s.payload) > p.payload_width))
  <2>1. (Len(s.payload) > p.payload_width) \in BOOLEAN  BY <1>1
  <2>. QED  BY <1>1, <1>2, <2>1, IfIs, ZenonT(60)
<1>6. profile_segment(p, s, index) = a \o b \o c  BY DEF profile_segment
<1>. HIDE DEF a, b, c
<1>7. a \o b \o c \in Seq(Found({5})) /\ (a \o b \o c = <<>> <=> a = <<>> /\ b = <<>> /\ c = <<>>)
  BY <1>3, <1>4, <1>5, Three
<1>8. "Invalid" \notin p.kinds  BY ProfileIs DEF SegmentKind
<1>9. ~ (Len(s.payload) > p.payload_width) <=> Len(s.payload) <= p.payload_width  BY <1>1
<1>. QED  BY <1>3, <1>4, <1>5, <1>6, <1>7, <1>8, <1>9

(* The conditions of a profile that is known. *)
KeepsProfile(d, p) ==
    /\ d.profile_generation \in {0, p.gen}
    /\ p.empty \/ d.segments # <<>>
    /\ d.strictness # "Loose" \/ p.loose
    /\ Len(d.segments) <= p.max_depth
    /\ \A i \in DOMAIN Scan(d) :
          Scan(d)[i].kind \in p.kinds /\ Len(Scan(d)[i].payload) <= p.payload_width
    /\ ForbiddenRepeats(d, p) = <<>>

(* check_profile finds nothing exactly if the profile is known and its conditions are kept. *)
LEMMA CheckProfileIs ==
    ASSUME NEW d \in DraftType, NEW p \in Profiles \cup {None}
    PROVE  /\ check_profile(d, p) \in Seq(Found({5}))
           /\ check_profile(d, p) = <<>> <=> p # None /\ KeepsProfile(d, p)
<1>0. /\ 0 \in Nat
      /\ "ProfileIdInvalid" \in Names(5) /\ "ProfileUnknown" \in Names(5)
      /\ "ProfileGenerationInvalid" \in Names(5) /\ "ProfileGenerationMismatch" \in Names(5)
      /\ "ProfileEmptyNotPermitted" \in Names(5) /\ "ProfileStrictnessUnsupported" \in Names(5)
      /\ "ProfileMaxDepthExceeded" \in Names(5) /\ "ProfileRepeatNotPermitted" \in Names(5)
  BY NamesAre
<1>1. CASE p = None
  <2>1. d.profile \in Nat  BY DraftIs
  <2>2. check_profile(d, p)
          = <<Reason(IF d.profile = 0 THEN "ProfileIdInvalid" ELSE "ProfileUnknown", 0, d.profile)>>
    BY <1>1 DEF check_profile
  <2>. QED  BY <1>0, <1>1, <2>1, <2>2, ReasonIs
<1>2. CASE p # None
  <2>. DEFINE T == Found({5})
              s == Scan(d)
              repeats == ForbiddenRepeats(d, p)
              a == If(p.gen = 0, "ProfileGenerationInvalid", 0, 0)
              b == If(d.profile_generation \notin {0, p.gen}, "ProfileGenerationMismatch", 0, p.gen)
              c == If(~ p.empty /\ d.segments = <<>>, "ProfileEmptyNotPermitted", 0, 0)
              e == If(d.strictness = "Loose" /\ ~ p.loose, "ProfileStrictnessUnsupported", 0, 0)
              f == If(Len(d.segments) > p.max_depth, "ProfileMaxDepthExceeded", 0, p.max_depth)
              ss == [i \in DOMAIN s |-> profile_segment(p, s[i], i - 1)]
              g == FlattenSeq(ss)
              h == [k \in DOMAIN repeats |->
                       Reason("ProfileRepeatNotPermitted", repeats[k].at - 1, s[repeats[k].at].id)]
  <2>1. p \in Profiles /\ p.gen \in Nat /\ p.gen # 0 /\ p.max_depth \in Nat /\ Len(d.segments) \in Nat
    BY <1>2, ProfileIs, DraftIs
  <2>2. a \in Seq(T) /\ a = <<>>  BY <2>1 DEF If
  <2>3. b \in Seq(T) /\ (b = <<>> <=> ~ (d.profile_generation \notin {0, p.gen}))
    BY <1>0, <2>1, IfIs, ZenonT(60)
  <2>4. c \in Seq(T) /\ (c = <<>> <=> ~ (~ p.empty /\ d.segments = <<>>))
    BY <1>0, IfIs, Zenon
  <2>5. e \in Seq(T) /\ (e = <<>> <=> ~ (d.strictness = "Loose" /\ ~ p.loose))
    BY <1>0, IfIs, Zenon
  <2>6. f \in Seq(T) /\ (f = <<>> <=> ~ (Len(d.segments) > p.max_depth))
    <3>1. (Len(d.segments) > p.max_depth) \in BOOLEAN  BY <2>1
    <3>2. 0 \in Nat /\ p.max_depth \in Nat /\ "ProfileMaxDepthExceeded" \in Names(5)
      BY <1>0, <2>1
    <3>. QED  BY <3>1, <3>2, IfIs, Zenon
  <2>7. PICK n \in Nat : Len(s) = n /\ DOMAIN s = 1 .. n /\ \A i \in 1 .. n : s[i] \in SegmentType
    BY ScanIs
  <2>8. /\ g \in Seq(T)
        /\ g = <<>> <=> \A i \in DOMAIN s : s[i].kind \in p.kinds /\ Len(s[i].payload) <= p.payload_width
    <3>1. ss = [i \in 1 .. n |-> ss[i]] /\ \A i \in 1 .. n : ss[i] = profile_segment(p, s[i], i - 1)
      BY <2>7
    <3>2. ASSUME NEW i \in 1 .. n
          PROVE  /\ ss[i] \in Seq(T)
                 /\ ss[i] = <<>> <=> s[i].kind \in p.kinds /\ Len(s[i].payload) <= p.payload_width
      <4>1. i - 1 \in Nat /\ s[i] \in SegmentType /\ ss[i] = profile_segment(p, s[i], i - 1)
        BY <2>7, <3>1
      <4>. HIDE DEF ss, s
      <4>. QED  BY <2>1, <4>1, ProfileSegmentIs
    <3>. HIDE DEF ss, T, s
    <3>3. \A i \in 1 .. n : ss[i] \in Seq(T)  BY <3>2
    <3>4. g \in Seq(T) /\ (g = <<>> <=> \A i \in 1 .. n : ss[i] = <<>>)
      BY <2>7, <3>1, <3>3, Everywhere
    <3>. QED  BY <2>7, <3>2, <3>4
  <2>9. h \in Seq(T) /\ (h = <<>> <=> repeats = <<>>)
    <3>1. PICK m \in Nat : Len(repeats) = m /\ DOMAIN repeats = 1 .. m  BY RepeatsAre
    <3>2. repeats \in Seq(RepeatType(n))  BY <2>7, RepeatsAre
    <3>. HIDE DEF repeats
    <3>3. ASSUME NEW k \in 1 .. m PROVE h[k] \in T
      <4>1. repeats[k].at \in 1 .. n
        <5>1. repeats[k] \in RepeatType(n)  BY <3>1, <3>2
        <5>. QED  BY <5>1 DEF RepeatType
      <4>2. repeats[k].at - 1 \in Nat /\ s[repeats[k].at].id \in Nat
        <5>1. repeats[k].at - 1 \in Nat  BY <4>1
        <5>2. s[repeats[k].at] \in SegmentType  BY <2>7, <4>1
        <5>. QED  BY <5>1, <5>2, SegmentIs
      <4>. QED  BY <1>0, <3>1, <4>2, ReasonIs
    <3>4. h = [k \in 1 .. m |-> h[k]]  BY <3>1
    <3>. HIDE DEF h, T
    <3>5. h \in Seq(T) /\ (h = <<>> <=> m = 0)  BY <3>1, <3>3, <3>4, EachOf
    <3>6. repeats = <<>> <=> m = 0  BY <3>1, <3>2
    <3>. QED  BY <3>5, <3>6
  <2>10. check_profile(d, p) = a \o b \o c \o e \o f \o g \o h  BY <1>2 DEF check_profile
  <2>. DEFINE u == a \o b \o c
              v == u \o e \o f
  <2>. HIDE DEF T, a, b, c, e, f, g, h
  <2>11. u \in Seq(T) /\ (u = <<>> <=> a = <<>> /\ b = <<>> /\ c = <<>>)
    BY <2>2, <2>3, <2>4, Three
  <2>. HIDE DEF u
  <2>12. v \in Seq(T) /\ (v = <<>> <=> u = <<>> /\ e = <<>> /\ f = <<>>)
    BY <2>5, <2>6, <2>11, Three
  <2>. HIDE DEF v
  <2>13. v \o g \o h \in Seq(T) /\ (v \o g \o h = <<>> <=> v = <<>> /\ g = <<>> /\ h = <<>>)
    BY <2>8, <2>9, <2>12, Three
  <2>14. check_profile(d, p) = v \o g \o h  BY <2>10 DEF v, u
  <2>15. check_profile(d, p) = <<>>
          <=> b = <<>> /\ c = <<>> /\ e = <<>> /\ f = <<>> /\ g = <<>> /\ h = <<>>
    BY <2>2, <2>11, <2>12, <2>13, <2>14
  <2>16. ~ (Len(d.segments) > p.max_depth) <=> Len(d.segments) <= p.max_depth  BY <2>1
  <2>17. check_profile(d, p) = <<>> <=> KeepsProfile(d, p)
    BY <2>3, <2>4, <2>5, <2>6, <2>8, <2>9, <2>15, <2>16 DEF KeepsProfile
  <2>. QED  BY <1>2, <2>13, <2>14, <2>17 DEF T
<1>. QED  BY <1>1, <1>2

(* SetToSeq lists a finite set. *)
LEMMA SetToSeqIs ==
    ASSUME NEW S, IsFiniteSet(S)
    PROVE  SetToSeq(S) \in Seq(S) /\ (SetToSeq(S) = <<>> <=> S = {})
<1>1. Cardinality(S) \in Nat /\ ExistsBijection(1 .. Cardinality(S), S)
  BY FS_CardinalityType
<1>2. \E f \in [1 .. Cardinality(S) -> S] : IsInjective(f)
  BY <1>1 DEF ExistsBijection, Bijection, Injection
<1>3. SetToSeq(S) \in [1 .. Cardinality(S) -> S]  BY <1>2 DEF SetToSeq
<1>4. SetToSeq(S) \in Seq(S) /\ Len(SetToSeq(S)) = Cardinality(S)  BY <1>1, <1>3
<1>5. Cardinality(S) = 0 <=> S = {}  BY FS_EmptySet
<1>. QED  BY <1>4, <1>5

(* The conditions of a policy on the segments. *)
KeepsPolicySegments(p, s) ==
    /\ \A x \in p.required : \E i \in DOMAIN s : s[i].id = x
    /\ \A x \in p.forbidden : ~ \E i \in DOMAIN s : s[i].id = x
    /\ \A i \in DOMAIN s : ~ (p.kinds # {} /\ s[i].kind \notin p.kinds \cup {"Invalid"})

(* What is known of a policy. *)
LEMMA PolicyIs ==
    ASSUME NEW p \in Policies
    PROVE  /\ p.gen \in Nat /\ p.owner_scope \in Nat /\ p.max_depth \in Nat
           /\ p.kinds \subseteq SegmentKind /\ p.id # 0
           /\ p.required \in SUBSET Nat /\ IsFiniteSet(p.required)
           /\ p.forbidden \in SUBSET Nat /\ IsFiniteSet(p.forbidden)
           /\ p.replacement \in BOOLEAN /\ p.derivation \in BOOLEAN /\ p.strict \in BOOLEAN
           /\ p # None
<1>1. p \in PolicyType /\ None \notin Policies  BY ValidationAssumption
<1>2. IsFiniteSet(p.required) /\ IsFiniteSet(p.forbidden)  BY ValidationAssumption
<1>. QED  BY <1>1, <1>2 DEF PolicyType

(* A policy reports the required segments that are missing, the forbidden  *)
(* ones that are there and the kinds that it denies.                       *)
LEMMA PolicySegmentsAre ==
    ASSUME NEW p \in Policies, NEW s \in Seq(SegmentType)
    PROVE  /\ policy_segments(p, s) \in Seq(Found({6}))
           /\ policy_segments(p, s) = <<>> <=> KeepsPolicySegments(p, s)
<1>. DEFINE T == Found({6})
            at(x) == {i \in DOMAIN s : s[i].id = x}
            Missing == {x \in p.required : at(x) = {}}
            Offending == {x \in p.forbidden : at(x) # {}}
            missing == SetToSeq(Missing)
            present == SetToSeq(Offending)
            a == [k \in DOMAIN missing |-> Reason("PolicyRequiredEntityMissing", 0, missing[k])]
            b == [k \in DOMAIN present |->
                     Reason("PolicyForbiddenEntityPresent", Min(at(present[k])) - 1, present[k])]
            ss == [i \in DOMAIN s |->
                      If(p.kinds # {} /\ s[i].kind \notin p.kinds \cup {"Invalid"},
                         "PolicyDeniedSegmentKind", i - 1, KindCode[s[i].kind])]
            c == FlattenSeq(ss)
<1>0. policy_segments(p, s) = a \o b \o c  BY DEF policy_segments
<1>1. PICK n \in Nat : DOMAIN s = 1 .. n /\ \A i \in 1 .. n : s[i] \in SegmentType  OBVIOUS
<1>2. /\ 0 \in Nat /\ "PolicyRequiredEntityMissing" \in Names(6)
      /\ "PolicyForbiddenEntityPresent" \in Names(6) /\ "PolicyDeniedSegmentKind" \in Names(6)
  BY NamesAre
<1>3. Missing \in SUBSET p.required /\ Offending \in SUBSET p.forbidden  OBVIOUS
<1>4. /\ p.required \in SUBSET Nat /\ IsFiniteSet(p.required)
      /\ p.forbidden \in SUBSET Nat /\ IsFiniteSet(p.forbidden)
  BY PolicyIs
<1>5. IsFiniteSet(Missing) /\ IsFiniteSet(Offending)
  <2>. HIDE DEF Missing, Offending
  <2>. QED  BY <1>3, <1>4, FS_Subset
<1>6. a \in Seq(T) /\ (a = <<>> <=> Missing = {})
  <2>1. missing \in Seq(Missing) /\ (missing = <<>> <=> Missing = {})
    <3>. HIDE DEF Missing
    <3>. QED  BY <1>5, SetToSeqIs
  <2>. HIDE DEF missing, Missing
  <2>2. PICK m \in Nat : Len(missing) = m /\ DOMAIN missing = 1 .. m  BY <2>1
  <2>3. ASSUME NEW k \in 1 .. m PROVE a[k] \in T
    <3>1. missing[k] \in Nat  BY <1>3, <1>4, <2>1, <2>2
    <3>. QED  BY <1>2, <2>2, <3>1, ReasonIs
  <2>4. a = [k \in 1 .. m |-> a[k]]  BY <2>2
  <2>5. missing = <<>> <=> m = 0  BY <2>1, <2>2
  <2>. HIDE DEF a, T
  <2>6. a \in Seq(T) /\ (a = <<>> <=> m = 0)  BY <2>3, <2>4, EachOf
  <2>. QED  BY <2>1, <2>5, <2>6
<1>7. b \in Seq(T) /\ (b = <<>> <=> Offending = {})
  <2>1. present \in Seq(Offending) /\ (present = <<>> <=> Offending = {})
    <3>. HIDE DEF Offending
    <3>. QED  BY <1>5, SetToSeqIs
  <2>. HIDE DEF present
  <2>2. PICK m \in Nat : Len(present) = m /\ DOMAIN present = 1 .. m  BY <2>1
  <2>3. ASSUME NEW k \in 1 .. m PROVE b[k] \in T
    <3>1. present[k] \in Offending
      <4>. HIDE DEF Offending
      <4>. QED  BY <2>1, <2>2
    <3>2. present[k] \in Nat /\ at(present[k]) # {}  BY <1>3, <1>4, <3>1
    <3>3. at(present[k]) \in SUBSET (1 .. n) /\ at(present[k]) \in SUBSET Nat  BY <1>1
    <3>4. Min(at(present[k])) \in at(present[k])
      <4>. HIDE DEF at
      <4>. QED  BY <3>2, <3>3, MinIs
    <3>5. Min(at(present[k])) \in 1 .. n
      <4>. HIDE DEF at
      <4>. QED  BY <3>3, <3>4
    <3>6. Min(at(present[k])) - 1 \in Nat
      <4>. HIDE DEF at
      <4>. QED  BY <3>5
    <3>. DEFINE ix == Min(at(present[k])) - 1
    <3>7. b[k] = Reason("PolicyForbiddenEntityPresent", ix, present[k])  BY <2>2
    <3>. HIDE DEF ix, b
    <3>8. ix \in Nat  BY <3>6 DEF ix
    <3>. QED  BY <1>2, <3>2, <3>7, <3>8, ReasonIs
  <2>4. b = [k \in 1 .. m |-> b[k]]  BY <2>2
  <2>5. present = <<>> <=> m = 0
    <3>. HIDE DEF Offending
    <3>. QED  BY <2>1, <2>2
  <2>. HIDE DEF b, T, Offending
  <2>6. b \in Seq(T) /\ (b = <<>> <=> m = 0)  BY <2>3, <2>4, EachOf
  <2>. QED  BY <2>1, <2>5, <2>6
<1>8. /\ c \in Seq(T)
      /\ c = <<>> <=> \A i \in 1 .. n : ~ (p.kinds # {} /\ s[i].kind \notin p.kinds \cup {"Invalid"})
  <2>1. ss = [i \in 1 .. n |-> ss[i]]  BY <1>1
  <2>2. ASSUME NEW i \in 1 .. n
        PROVE  /\ ss[i] \in Seq(T)
               /\ ss[i] = <<>> <=> ~ (p.kinds # {} /\ s[i].kind \notin p.kinds \cup {"Invalid"})
    <3>1. i - 1 \in Nat /\ KindCode[s[i].kind] \in Nat  BY <1>1, SegmentIs
    <3>2. ss[i] = If(p.kinds # {} /\ s[i].kind \notin p.kinds \cup {"Invalid"},
                     "PolicyDeniedSegmentKind", i - 1, KindCode[s[i].kind])
      BY <1>1, Zenon
    <3>. HIDE DEF ss
    <3>3. "PolicyDeniedSegmentKind" \in Names(6)  BY <1>2
    <3>4. CASE p.kinds # {} /\ s[i].kind \notin p.kinds \cup {"Invalid"}
      <4>1. ss[i] = <<Reason("PolicyDeniedSegmentKind", i - 1, KindCode[s[i].kind])>>
        BY <3>2, <3>4 DEF If
      <4>. QED  BY <3>1, <3>3, <3>4, <4>1, ReasonIs
    <3>5. CASE ~ (p.kinds # {} /\ s[i].kind \notin p.kinds \cup {"Invalid"})
      <4>1. ss[i] = <<>>  BY <3>2, <3>5 DEF If
      <4>. QED  BY <3>5, <4>1
    <3>. QED  BY <3>4, <3>5
  <2>. HIDE DEF ss, T
  <2>3. \A i \in 1 .. n : ss[i] \in Seq(T)  BY <2>2
  <2>4. c \in Seq(T) /\ (c = <<>> <=> \A i \in 1 .. n : ss[i] = <<>>)  BY <2>1, <2>3, Everywhere
  <2>. QED  BY <2>2, <2>4
<1>9. /\ Missing = {} <=> \A x \in p.required : \E i \in DOMAIN s : s[i].id = x
      /\ Offending = {} <=> \A x \in p.forbidden : ~ \E i \in DOMAIN s : s[i].id = x
  OBVIOUS
<1>. HIDE DEF a, b, c, T, Missing, Offending
<1>10. a \o b \o c \in Seq(T) /\ (a \o b \o c = <<>> <=> a = <<>> /\ b = <<>> /\ c = <<>>)
  BY <1>6, <1>7, <1>8, Three
<1>11. a \o b \o c = <<>> <=> KeepsPolicySegments(p, s)
  BY <1>1, <1>6, <1>7, <1>8, <1>9, <1>10 DEF KeepsPolicySegments
<1>. QED  BY <1>0, <1>10, <1>11 DEF T

(* The conditions of a policy that is known. *)
KeepsPolicy(d, p) ==
    /\ d.policy_generation \in {0, p.gen}
    /\ p.owner_scope \in {0, d.scope}
    /\ p.profiles = {} \/ d.profile \in p.profiles
    /\ p.max_depth = 0 \/ Len(d.segments) <= p.max_depth
    /\ d.existing # 0 => p.replacement
    /\ d.derived => p.derivation
    /\ p.strict => d.strictness = "Strict"
    /\ KeepsPolicySegments(p, d.segments)

(* A draft without a policy has no reason from one; a draft with one that  *)
(* is known has none if it keeps all conditions.                           *)
LEMMA CheckPolicyIs ==
    ASSUME NEW d \in DraftType
    PROVE  /\ check_policy(d) \in Seq(Found({6}))
           /\ check_policy(d) = <<>>
                <=> IF Find(Policies, d.policy) = None THEN d.policy = 0
                    ELSE KeepsPolicy(d, Find(Policies, d.policy))
<1>. DEFINE p == Find(Policies, d.policy)
<1>0. /\ 0 \in Nat /\ d.policy \in Nat /\ d.profile \in Nat /\ Len(d.segments) \in Nat
      /\ d.segments \in Seq(SegmentType)
  BY DraftIs
<1>1. CASE p = None
  <2>1. check_policy(d) = If(d.policy # 0, "PolicyUnknown", 0, d.policy)  BY <1>1 DEF check_policy
  <2>2. "PolicyUnknown" \in Names(6)  BY NamesAre
  <2>. DEFINE x == If(d.policy # 0, "PolicyUnknown", 0, d.policy)
  <2>3. x \in Seq(Found({6})) /\ (x = <<>> <=> ~ (d.policy # 0))  BY <1>0, <2>2, IfIs, Zenon
  <2>. QED  BY <1>1, <2>1, <2>3, Zenon
<1>2. CASE p # None
  <2>0. p \in Policies  BY <1>2, FindIs
  <2>. HIDE DEF p
  <2>1. p.gen \in Nat /\ p.owner_scope \in Nat /\ p.max_depth \in Nat  BY <2>0, PolicyIs
  <2>. DEFINE T == Found({6})
              gens == {0, p.gen}
              scopes == {0, d.scope}
              a == If(d.policy_generation \notin gens, "PolicyGenerationMismatch", 0, p.gen)
              b == If(p.owner_scope \notin scopes, "PolicyOwnershipMismatch", 0, p.owner_scope)
              c == If(p.profiles # {} /\ d.profile \notin p.profiles, "PolicyDeniedProfile", 0,
                      d.profile)
              e == If(p.max_depth # 0 /\ Len(d.segments) > p.max_depth,
                      "PolicyMaxDepthExceeded", 0, p.max_depth)
              f == If(d.existing # 0 /\ ~ p.replacement, "PolicyReplacementDenied", 0, 0)
              g == If(d.derived /\ ~ p.derivation, "PolicyDerivationDenied", 0, 0)
              h == If(p.strict /\ d.strictness # "Strict", "PolicyStrictnessRequired", 0, 0)
              w == policy_segments(p, d.segments)
  <2>. HIDE DEF gens, scopes
  <2>2. a \in Seq(T) /\ (a = <<>> <=> ~ (d.policy_generation \notin gens))
    <3>1. "PolicyGenerationMismatch" \in Names(6)  BY NamesAre
    <3>. QED  BY <1>0, <2>1, <3>1, IfIs, ZenonT(60)
  <2>3. b \in Seq(T) /\ (b = <<>> <=> ~ (p.owner_scope \notin scopes))
    <3>1. "PolicyOwnershipMismatch" \in Names(6)  BY NamesAre
    <3>. QED  BY <1>0, <2>1, <3>1, IfIs, ZenonT(60)
  <2>4. c \in Seq(T) /\ (c = <<>> <=> ~ (p.profiles # {} /\ d.profile \notin p.profiles))
    <3>1. "PolicyDeniedProfile" \in Names(6)  BY NamesAre
    <3>. QED  BY <1>0, <3>1, IfIs, Zenon
  <2>5. e \in Seq(T) /\ (e = <<>> <=> ~ (p.max_depth # 0 /\ Len(d.segments) > p.max_depth))
    <3>1. "PolicyMaxDepthExceeded" \in Names(6)  BY NamesAre
    <3>. QED  BY <1>0, <2>1, <3>1, IfIs, ZenonT(60)
  <2>6. f \in Seq(T) /\ (f = <<>> <=> ~ (d.existing # 0 /\ ~ p.replacement))
    <3>1. "PolicyReplacementDenied" \in Names(6)  BY NamesAre
    <3>. QED  BY <1>0, <3>1, IfIs, Zenon
  <2>7. g \in Seq(T) /\ (g = <<>> <=> ~ (d.derived /\ ~ p.derivation))
    <3>1. "PolicyDerivationDenied" \in Names(6)  BY NamesAre
    <3>. QED  BY <1>0, <3>1, IfIs, Zenon
  <2>8. h \in Seq(T) /\ (h = <<>> <=> ~ (p.strict /\ d.strictness # "Strict"))
    <3>1. "PolicyStrictnessRequired" \in Names(6)  BY NamesAre
    <3>. QED  BY <1>0, <3>1, IfIs, Zenon
  <2>9. w \in Seq(T) /\ (w = <<>> <=> KeepsPolicySegments(p, d.segments))
    BY <1>0, <2>0, PolicySegmentsAre
  <2>10. check_policy(d) = a \o b \o c \o e \o f \o g \o h \o w  BY <1>2 DEF check_policy, p, gens, scopes
  <2>. HIDE DEF T, a, b, c, e, f, g, h, w
  <2>. DEFINE u == a \o b \o c
              v == u \o e \o f
              y == v \o g \o h
  <2>11. u \in Seq(T) /\ (u = <<>> <=> a = <<>> /\ b = <<>> /\ c = <<>>)
    BY <2>2, <2>3, <2>4, Three
  <2>. HIDE DEF u
  <2>12. v \in Seq(T) /\ (v = <<>> <=> u = <<>> /\ e = <<>> /\ f = <<>>)
    BY <2>5, <2>6, <2>11, Three
  <2>. HIDE DEF v
  <2>13. y \in Seq(T) /\ (y = <<>> <=> v = <<>> /\ g = <<>> /\ h = <<>>)
    BY <2>7, <2>8, <2>12, Three
  <2>. HIDE DEF y
  <2>14. y \o w \in Seq(T) /\ (y \o w = <<>> <=> y = <<>> /\ w = <<>>)
    BY <2>9, <2>13, Concatenation
  <2>15. check_policy(d) = y \o w  BY <2>10 DEF u, v, y
  <2>16. check_policy(d) = <<>>
          <=> /\ a = <<>> /\ b = <<>> /\ c = <<>> /\ e = <<>> /\ f = <<>> /\ g = <<>> /\ h = <<>>
              /\ w = <<>>
    BY <2>11, <2>12, <2>13, <2>14, <2>15
  <2>17. ~ (Len(d.segments) > p.max_depth) <=> Len(d.segments) <= p.max_depth  BY <1>0, <2>1
  <2>18. check_policy(d) = <<>> <=> KeepsPolicy(d, p)
    <3>1. a = <<>> <=> d.policy_generation \in {0, p.gen}  BY <2>2 DEF gens
    <3>2. b = <<>> <=> p.owner_scope \in {0, d.scope}  BY <2>3 DEF scopes
    <3>3. c = <<>> <=> p.profiles = {} \/ d.profile \in p.profiles  BY <2>4
    <3>4. e = <<>> <=> p.max_depth = 0 \/ Len(d.segments) <= p.max_depth  BY <2>5, <2>17
    <3>5. f = <<>> <=> (d.existing # 0 => p.replacement)  BY <2>6
    <3>6. g = <<>> <=> (d.derived => p.derivation)  BY <2>7
    <3>7. h = <<>> <=> (p.strict => d.strictness = "Strict")  BY <2>8
    <3>. QED  BY <2>9, <2>16, <3>1, <3>2, <3>3, <3>4, <3>5, <3>6, <3>7 DEF KeepsPolicy
  <2>. QED  BY <1>2, <2>14, <2>15, <2>18 DEF T, p
<1>. QED  BY <1>1, <1>2

(* What is asked of a segment but for the width of its payload. *)
SoundSegment(s) ==
    /\ s.kind \in SegmentKind
    /\ s.encoding \in {"Invalid", s.kind}
    /\ s.fields = Required[s.kind]
    /\ [id |-> s.id, kind |-> s.kind, gen |-> s.gen] \in Recorded
    /\ s.kind \in {"Node", "Endpoint", "Binding"} => s.ref \in Entities

(* The conditions on the shape of a segment of a kind that exists; a shape *)
(* that is right has a binding.                                            *)
LEMMA ShapeIs ==
    ASSUME NEW s \in SegmentType, NEW index \in Nat
    PROVE  /\ structural_shape(s, index) \in Seq(Found({7}))
           /\ structural_shape(s, index) = <<>>
                <=> /\ s.kind # "Invalid" /\ s.id # 0 /\ s.gen # 0
                    /\ s.encoding \in {"Invalid", s.kind}
                    /\ s.fields = Required[s.kind]
<1>0. 0 \in Nat /\ KindCode[s.encoding] \in Nat /\ s.kind \in KindType  BY SegmentIs
<1>1. CASE s.kind = "Invalid"
  <2>1. "SegmentKindInvalid" \in Names(7)  BY NamesAre
  <2>2. structural_shape(s, index) = <<Reason("SegmentKindInvalid", index, 0)>>
    BY <1>1 DEF structural_shape
  <2>. QED  BY <1>0, <1>1, <2>1, <2>2, ReasonIs
<1>2. CASE s.kind # "Invalid"
  <2>. DEFINE T == Found({7})
              given == s.fields \cap EntityFields
              a == If(s.id = 0, "SegmentIdInvalid", index, 0)
              b == If(s.gen = 0, "SegmentGenerationInvalid", index, 0)
              c == If(s.encoding \notin {"Invalid", s.kind}, "SegmentEncodingMismatch", index,
                      KindCode[s.encoding])
              e == If(~ Required[s.kind] \subseteq s.fields, "SegmentBindingIncomplete", index, 0)
              f == If(~ s.fields \subseteq Required[s.kind], "SegmentReservedFieldSet", index, 0)
              g == If(given = {}, "SegmentMissingBinding", index, 0)
  <2>. HIDE DEF given
  <2>1. a \in Seq(T) /\ (a = <<>> <=> ~ (s.id = 0))
    <3>1. "SegmentIdInvalid" \in Names(7)  BY NamesAre
    <3>. QED  BY <1>0, <3>1, IfIs, Zenon
  <2>2. b \in Seq(T) /\ (b = <<>> <=> ~ (s.gen = 0))
    <3>1. "SegmentGenerationInvalid" \in Names(7)  BY NamesAre
    <3>. QED  BY <1>0, <3>1, IfIs, Zenon
  <2>3. c \in Seq(T) /\ (c = <<>> <=> ~ (s.encoding \notin {"Invalid", s.kind}))
    <3>1. "SegmentEncodingMismatch" \in Names(7)  BY NamesAre
    <3>. QED  BY <1>0, <3>1, IfIs, Zenon
  <2>4. e \in Seq(T) /\ (e = <<>> <=> ~ (~ Required[s.kind] \subseteq s.fields))
    <3>1. "SegmentBindingIncomplete" \in Names(7)  BY NamesAre
    <3>. QED  BY <1>0, <3>1, IfIs, Zenon
  <2>5. f \in Seq(T) /\ (f = <<>> <=> ~ (~ s.fields \subseteq Required[s.kind]))
    <3>1. "SegmentReservedFieldSet" \in Names(7)  BY NamesAre
    <3>. QED  BY <1>0, <3>1, IfIs, Zenon
  <2>6. g \in Seq(T) /\ (g = <<>> <=> ~ (given = {}))
    <3>1. "SegmentMissingBinding" \in Names(7)  BY NamesAre
    <3>. QED  BY <1>0, <3>1, IfIs, Zenon
  <2>7. structural_shape(s, index) = a \o b \o c \o e \o f \o g  BY <1>2 DEF structural_shape, given
  <2>. DEFINE u == a \o b \o c
              v == u \o e \o f
  <2>. HIDE DEF T, a, b, c, e, f, g
  <2>8. u \in Seq(T) /\ (u = <<>> <=> a = <<>> /\ b = <<>> /\ c = <<>>)
    BY <2>1, <2>2, <2>3, Three
  <2>. HIDE DEF u
  <2>9. v \in Seq(T) /\ (v = <<>> <=> u = <<>> /\ e = <<>> /\ f = <<>>)
    BY <2>4, <2>5, <2>8, Three
  <2>. HIDE DEF v
  <2>10. v \o g \in Seq(T) /\ (v \o g = <<>> <=> v = <<>> /\ g = <<>>)
    BY <2>6, <2>9, Concatenation
  <2>11. structural_shape(s, index) = v \o g  BY <2>7 DEF u, v
  <2>12. structural_shape(s, index) = <<>>
          <=> a = <<>> /\ b = <<>> /\ c = <<>> /\ e = <<>> /\ f = <<>> /\ g = <<>>
    BY <2>8, <2>9, <2>10, <2>11
  <2>13. Required[s.kind] \cap EntityFields # {}
    <3>1. s.kind \in SegmentKind  BY <1>0, <1>2 DEF KindType
    <3>2. \A k \in SegmentKind : \E x \in Required[k] : x \in EntityFields
      BY DEF SegmentKind, Required, EntityFields
    <3>3. PICK x \in Required[s.kind] : x \in EntityFields  BY <3>1, <3>2
    <3>. QED  BY <3>3
  <2>14. e = <<>> /\ f = <<>> /\ g = <<>> <=> s.fields = Required[s.kind]
    BY <2>4, <2>5, <2>6, <2>13 DEF given
  <2>. QED  BY <1>2, <2>1, <2>2, <2>3, <2>10, <2>11, <2>12, <2>14 DEF T
<1>. QED  BY <1>1, <1>2

(* What the evidence says of a segment. *)
LEMMA EvidenceIs ==
    ASSUME NEW s \in SegmentType, NEW index \in Nat
    PROVE  /\ structural_evidence(s, index) \in Seq(Found({7}))
           /\ structural_evidence(s, index) = <<>>
                <=> /\ [id |-> s.id, kind |-> s.kind, gen |-> s.gen] \in Recorded
                    /\ ~ (/\ s.kind \in {"Node", "Endpoint", "Binding"}
                          /\ Required[s.kind] \subseteq s.fields
                          /\ s.ref \notin Entities)
<1>. DEFINE r == Find(Recorded, s.id)
            T == Found({7})
            a == IF r = None
                 THEN <<Reason("SegmentEntityUnknown", index, s.id)>>
                 ELSE If(r.kind # s.kind, "SegmentEntityKindMismatch", index, KindCode[r.kind])
                      \o If(r.gen # s.gen, "SegmentEntityGenerationMismatch", index, r.gen)
            b == If(/\ s.kind \in {"Node", "Endpoint", "Binding"}
                    /\ Required[s.kind] \subseteq s.fields
                    /\ s.ref \notin Entities, "SegmentEntityUnknown", index, s.ref)
            x == [id |-> s.id, kind |-> s.kind, gen |-> s.gen]
<1>1. "SegmentEntityUnknown" \in Names(7) /\ s.id \in Nat /\ s.ref \in Nat  BY NamesAre, SegmentIs
<1>2. Recorded \subseteq [id : Nat \ {0}, kind : SegmentKind, gen : Nat \ {0}]
  BY ValidationAssumption
<1>3. a \in Seq(T) /\ (a = <<>> <=> x \in Recorded)
  <2>1. CASE r = None
    <3>1. x \notin Recorded
      <4>1. ~ \E y \in Recorded : y.id = s.id  BY <2>1, FindIs
      <4>2. x.id = s.id  OBVIOUS
      <4>. QED  BY <4>1, <4>2
    <3>2. a = <<Reason("SegmentEntityUnknown", index, s.id)>>  BY <2>1
    <3>. QED  BY <1>1, <3>1, <3>2, ReasonIs
  <2>2. CASE r # None
    <3>1. r \in Recorded /\ r.id = s.id  BY <2>2, FindIs
    <3>2. \A y \in Recorded : y.id = s.id => y = r  BY FindIs
    <3>. HIDE DEF r
    <3>3. /\ r.kind \in SegmentKind /\ r.gen \in Nat /\ KindCode[r.kind] \in Nat
          /\ r = [id |-> r.id, kind |-> r.kind, gen |-> r.gen]
      <4>1. r.kind \in SegmentKind /\ r.gen \in Nat /\ r = [id |-> r.id, kind |-> r.kind, gen |-> r.gen]
        BY <1>2, <3>1
      <4>. QED  BY <4>1, KindCodes DEF KindType
    <3>. DEFINE c == If(r.kind # s.kind, "SegmentEntityKindMismatch", index, KindCode[r.kind])
                e == If(r.gen # s.gen, "SegmentEntityGenerationMismatch", index, r.gen)
    <3>4. c \in Seq(T) /\ (c = <<>> <=> ~ (r.kind # s.kind))
      <4>1. "SegmentEntityKindMismatch" \in Names(7)  BY NamesAre
      <4>. QED  BY <3>3, <4>1, IfIs, Zenon
    <3>5. e \in Seq(T) /\ (e = <<>> <=> ~ (r.gen # s.gen))
      <4>1. "SegmentEntityGenerationMismatch" \in Names(7)  BY NamesAre
      <4>. QED  BY <3>3, <4>1, IfIs, Zenon
    <3>6. a = c \o e  BY <2>2
    <3>. HIDE DEF a, c, e, T
    <3>7. c \o e \in Seq(T) /\ (c \o e = <<>> <=> c = <<>> /\ e = <<>>)
      BY <3>4, <3>5, Concatenation
    <3>8. r.kind = s.kind /\ r.gen = s.gen <=> x \in Recorded
      <4>1. ASSUME x \in Recorded PROVE r.kind = s.kind /\ r.gen = s.gen
        <5>1. x.id = s.id /\ x.kind = s.kind /\ x.gen = s.gen  OBVIOUS
        <5>2. x = r  BY <3>2, <4>1, <5>1
        <5>. QED  BY <5>1, <5>2
      <4>2. ASSUME r.kind = s.kind, r.gen = s.gen PROVE x \in Recorded
        <5>1. x = r  BY <3>1, <3>3, <4>2
        <5>. QED  BY <3>1, <5>1
      <4>. QED  BY <4>1, <4>2
    <3>. QED  BY <3>4, <3>5, <3>6, <3>7, <3>8
  <2>. QED  BY <2>1, <2>2
<1>4. /\ b \in Seq(T)
      /\ b = <<>> <=> ~ (/\ s.kind \in {"Node", "Endpoint", "Binding"}
                         /\ Required[s.kind] \subseteq s.fields
                         /\ s.ref \notin Entities)
  <2>. DEFINE K == {"Node", "Endpoint", "Binding"}
  <2>. HIDE DEF K
  <2>1. b = If(s.kind \in K /\ Required[s.kind] \subseteq s.fields /\ s.ref \notin Entities,
               "SegmentEntityUnknown", index, s.ref)
    BY DEF K
  <2>. HIDE DEF b
  <2>2. b \in Seq(T) /\ (b = <<>> <=> ~ (s.kind \in K /\ Required[s.kind] \subseteq s.fields
                                         /\ s.ref \notin Entities))
    <3>1. CASE s.kind \in K /\ Required[s.kind] \subseteq s.fields /\ s.ref \notin Entities
      <4>1. b = <<Reason("SegmentEntityUnknown", index, s.ref)>>  BY <2>1, <3>1 DEF If
      <4>. QED  BY <1>1, <3>1, <4>1, ReasonIs
    <3>2. CASE ~ (s.kind \in K /\ Required[s.kind] \subseteq s.fields /\ s.ref \notin Entities)
      <4>1. b = <<>>  BY <2>1, <3>2 DEF If
      <4>. QED  BY <3>2, <4>1
    <3>. QED  BY <3>1, <3>2
  <2>. QED  BY <2>2 DEF K
<1>5. structural_evidence(s, index) = a \o b  BY DEF structural_evidence
<1>. HIDE DEF a, b, T
<1>6. a \o b \in Seq(T) /\ (a \o b = <<>> <=> a = <<>> /\ b = <<>>)  BY <1>3, <1>4, Concatenation
<1>. QED  BY <1>3, <1>4, <1>5, <1>6 DEF T

(* The conditions on a segment. *)
LEMMA StructuralSegmentIs ==
    ASSUME NEW s \in SegmentType, NEW index \in Nat
    PROVE  /\ structural_segment(s, index) \in Seq(Found({7}))
           /\ structural_segment(s, index) = <<>> <=> SoundSegment(s)
<1>. DEFINE T == Found({7})
            a == structural_shape(s, index)
            b == IF s.kind = "Invalid" THEN <<>> ELSE structural_evidence(s, index)
            x == [id |-> s.id, kind |-> s.kind, gen |-> s.gen]
<1>1. a \in Seq(T) /\ (a = <<>> <=> /\ s.kind # "Invalid" /\ s.id # 0 /\ s.gen # 0
                                    /\ s.encoding \in {"Invalid", s.kind}
                                    /\ s.fields = Required[s.kind])
  BY ShapeIs
<1>2. b \in Seq(T)
  <2>1. structural_evidence(s, index) \in Seq(T)  BY EvidenceIs
  <2>2. <<>> \in Seq(T)  OBVIOUS
  <2>. QED  BY <2>1, <2>2
<1>3. structural_segment(s, index) = a \o b  BY DEF structural_segment
<1>4. s.kind # "Invalid" =>
        (b = <<>> <=> /\ x \in Recorded
                      /\ ~ (/\ s.kind \in {"Node", "Endpoint", "Binding"}
                            /\ Required[s.kind] \subseteq s.fields
                            /\ s.ref \notin Entities))
  BY EvidenceIs
<1>. HIDE DEF a, b, T
<1>5. a \o b \in Seq(T) /\ (a \o b = <<>> <=> a = <<>> /\ b = <<>>)  BY <1>1, <1>2, Concatenation
<1>6. s.kind \in SegmentKind <=> s.kind # "Invalid"  BY SegmentIs DEF KindType, SegmentKind
<1>7. x \in Recorded => s.id # 0 /\ s.gen # 0
  <2>1. Recorded \subseteq [id : Nat \ {0}, kind : SegmentKind, gen : Nat \ {0}]
    BY ValidationAssumption
  <2>2. x.id = s.id /\ x.gen = s.gen  OBVIOUS
  <2>. HIDE DEF x
  <2>. QED  BY <2>1, <2>2
<1>. HIDE DEF x
<1>8. a \o b = <<>> <=> SoundSegment(s)
  <2>1. ASSUME a = <<>>, b = <<>> PROVE SoundSegment(s)
    <3>1. /\ s.kind # "Invalid" /\ s.encoding \in {"Invalid", s.kind}
          /\ s.fields = Required[s.kind]
      BY <1>1, <2>1
    <3>2. /\ x \in Recorded
          /\ ~ (/\ s.kind \in {"Node", "Endpoint", "Binding"}
                /\ Required[s.kind] \subseteq s.fields
                /\ s.ref \notin Entities)
      BY <1>4, <2>1, <3>1
    <3>3. s.kind \in {"Node", "Endpoint", "Binding"} => s.ref \in Entities  BY <3>1, <3>2
    <3>. QED  BY <1>6, <3>1, <3>2, <3>3 DEF SoundSegment, x
  <2>2. ASSUME SoundSegment(s) PROVE a = <<>> /\ b = <<>>
    <3>1. /\ s.kind # "Invalid" /\ s.encoding \in {"Invalid", s.kind}
          /\ s.fields = Required[s.kind] /\ x \in Recorded
          /\ s.kind \in {"Node", "Endpoint", "Binding"} => s.ref \in Entities
      BY <1>6, <2>2 DEF SoundSegment, x
    <3>2. a = <<>>  BY <1>1, <1>7, <3>1
    <3>3. b = <<>>  BY <1>4, <3>1
    <3>. QED  BY <3>2, <3>3
  <2>. QED  BY <1>5, <2>1, <2>2
<1>. QED  BY <1>3, <1>5, <1>8 DEF T

(* The structure of the segments that are scanned. *)
LEMMA CheckStructuralIs ==
    ASSUME NEW d \in DraftType, NEW p
    PROVE  /\ check_structural(d, p) \in Seq(Found({7}))
           /\ check_structural(d, p) = <<>>
                <=> /\ \A i \in DOMAIN Scan(d) : SoundSegment(Scan(d)[i])
                    /\ ForbiddenRepeats(d, p) = <<>>
<1>. DEFINE T == Found({7})
            s == Scan(d)
            repeats == ForbiddenRepeats(d, p)
            name(r) == IF r.consecutive THEN "SegmentDuplicateConsecutive"
                                        ELSE "SegmentDuplicateNonConsecutive"
            ss == [i \in DOMAIN s |-> structural_segment(s[i], i - 1)]
            g == FlattenSeq(ss)
            h == [k \in DOMAIN repeats |->
                     Reason(name(repeats[k]), repeats[k].at - 1, s[repeats[k].at].id)]
<1>1. check_structural(d, p) = g \o h  BY DEF check_structural, structural
<1>2. PICK n \in Nat : Len(s) = n /\ DOMAIN s = 1 .. n /\ \A i \in 1 .. n : s[i] \in SegmentType
  BY ScanIs
<1>3. g \in Seq(T) /\ (g = <<>> <=> \A i \in DOMAIN s : SoundSegment(s[i]))
  <2>1. ss = [i \in 1 .. n |-> ss[i]] /\ \A i \in 1 .. n : ss[i] = structural_segment(s[i], i - 1)
    BY <1>2
  <2>2. ASSUME NEW i \in 1 .. n
        PROVE  ss[i] \in Seq(T) /\ (ss[i] = <<>> <=> SoundSegment(s[i]))
    <3>1. i - 1 \in Nat /\ s[i] \in SegmentType /\ ss[i] = structural_segment(s[i], i - 1)
      BY <1>2, <2>1
    <3>. HIDE DEF ss, s
    <3>. QED  BY <3>1, StructuralSegmentIs
  <2>. HIDE DEF ss, T, s
  <2>3. \A i \in 1 .. n : ss[i] \in Seq(T)  BY <2>2
  <2>4. g \in Seq(T) /\ (g = <<>> <=> \A i \in 1 .. n : ss[i] = <<>>)
    BY <1>2, <2>1, <2>3, Everywhere
  <2>. QED  BY <1>2, <2>2, <2>4
<1>4. h \in Seq(T) /\ (h = <<>> <=> repeats = <<>>)
  <2>1. PICK m \in Nat : Len(repeats) = m /\ DOMAIN repeats = 1 .. m  BY RepeatsAre
  <2>2. repeats \in Seq(RepeatType(n))  BY <1>2, RepeatsAre
  <2>. HIDE DEF repeats
  <2>3. ASSUME NEW k \in 1 .. m PROVE h[k] \in T
    <3>1. repeats[k].at \in 1 .. n
      <4>1. repeats[k] \in RepeatType(n)  BY <2>1, <2>2
      <4>. QED  BY <4>1 DEF RepeatType
    <3>2. repeats[k].at - 1 \in Nat  BY <3>1
    <3>3. s[repeats[k].at].id \in Nat  BY <1>2, <3>1, SegmentIs
    <3>4. name(repeats[k]) \in Names(7)  BY NamesAre
    <3>5. h[k] = Reason(name(repeats[k]), repeats[k].at - 1, s[repeats[k].at].id)  BY <2>1
    <3>. HIDE DEF h, s, name
    <3>. QED  BY <3>2, <3>3, <3>4, <3>5, ReasonIs
  <2>4. h = [k \in 1 .. m |-> h[k]]  BY <2>1
  <2>. HIDE DEF h, T
  <2>5. h \in Seq(T) /\ (h = <<>> <=> m = 0)  BY <2>1, <2>3, <2>4, EachOf
  <2>6. repeats = <<>> <=> m = 0  BY <2>1, <2>2
  <2>. QED  BY <2>5, <2>6
<1>. HIDE DEF g, h, T
<1>5. g \o h \in Seq(T) /\ (g \o h = <<>> <=> g = <<>> /\ h = <<>>)  BY <1>3, <1>4, Concatenation
<1>. QED  BY <1>1, <1>3, <1>4, <1>5 DEF T

(* The limits, which are checked of every segment. *)
LEMMA CheckLimitsIs ==
    ASSUME NEW d \in DraftType
    PROVE  /\ check_resource_limits(d) \in Seq(Found({13}))
           /\ check_resource_limits(d) = <<>>
                <=> /\ Len(d.segments) <= MaxSegments
                    /\ \A i \in DOMAIN d.segments : Len(d.segments[i].payload) <= MaxPayload
<1>. DEFINE T == Found({13})
            s == d.segments
            wide(i) == If(Len(s[i].payload) > MaxPayload, "LimitMaxSegmentPayloadBytes", i - 1,
                          MaxPayload)
            ss == [i \in DOMAIN s |-> wide(i)]
            a == If(Len(s) > MaxSegments, "LimitMaxSegmentsPerList", 0, MaxSegments)
            b == FlattenSeq(ss)
<1>0. check_resource_limits(d) = a \o b  BY DEF check_resource_limits
<1>1. 0 \in Nat /\ MaxSegments \in Nat /\ MaxPayload \in Nat  BY ValidationAssumption
<1>2. PICK n \in Nat : Len(s) = n /\ DOMAIN s = 1 .. n /\ \A i \in 1 .. n : s[i] \in SegmentType
  BY DraftIs
<1>3. a \in Seq(T) /\ (a = <<>> <=> ~ (Len(s) > MaxSegments))
  <2>1. "LimitMaxSegmentsPerList" \in Names(13)  BY NamesAre
  <2>2. (Len(s) > MaxSegments) \in BOOLEAN  BY <1>1, <1>2
  <2>. QED  BY <1>1, <2>1, <2>2, IfIs, Zenon
<1>4. ~ (Len(s) > MaxSegments) <=> Len(s) <= MaxSegments  BY <1>1, <1>2
<1>5. b \in Seq(T) /\ (b = <<>> <=> \A i \in DOMAIN s : Len(s[i].payload) <= MaxPayload)
  <2>1. ss = [i \in 1 .. n |-> ss[i]] /\ \A i \in 1 .. n : ss[i] = wide(i)
    <3>. HIDE DEF wide
    <3>. QED  BY <1>2
  <2>2. ASSUME NEW i \in 1 .. n
        PROVE  ss[i] \in Seq(T) /\ (ss[i] = <<>> <=> Len(s[i].payload) <= MaxPayload)
    <3>1. i - 1 \in Nat /\ Len(s[i].payload) \in Nat  BY <1>2, SegmentIs
    <3>2. "LimitMaxSegmentPayloadBytes" \in Names(13)  BY NamesAre
    <3>3. (Len(s[i].payload) > MaxPayload) \in BOOLEAN  BY <1>1, <3>1
    <3>4. wide(i) \in Seq(T) /\ (wide(i) = <<>> <=> ~ (Len(s[i].payload) > MaxPayload))
      BY <1>1, <3>1, <3>2, <3>3, IfIs, ZenonT(60)
    <3>5. ~ (Len(s[i].payload) > MaxPayload) <=> Len(s[i].payload) <= MaxPayload  BY <1>1, <3>1
    <3>. HIDE DEF wide, ss
    <3>. QED  BY <2>1, <3>4, <3>5
  <2>. HIDE DEF ss, T
  <2>3. \A i \in 1 .. n : ss[i] \in Seq(T)  BY <2>2
  <2>4. b \in Seq(T) /\ (b = <<>> <=> \A i \in 1 .. n : ss[i] = <<>>)  BY <2>1, <2>3, Everywhere
  <2>. QED  BY <1>2, <2>2, <2>4
<1>. HIDE DEF a, b, T
<1>6. a \o b \in Seq(T) /\ (a \o b = <<>> <=> a = <<>> /\ b = <<>>)  BY <1>3, <1>5, Concatenation
<1>. QED  BY <1>0, <1>3, <1>4, <1>5, <1>6 DEF T
--------------------------------------------------------------------------------
(* The checks find nothing exactly of the governed drafts. *)

(* A segment with another encoding and another payload. *)
Respelled(x, e, q) ==
    [kind |-> x.kind, encoding |-> e, id |-> x.id, gen |-> x.gen,
     fields |-> x.fields, ref |-> x.ref, payload |-> q]

(* The two orders in which EXCEPT can change the two fields. *)
LEMMA RespelledIs ==
    ASSUME NEW x \in SegmentType, NEW e, NEW q
    PROVE  /\ [x EXCEPT !.encoding = e, !.payload = q] = Respelled(x, e, q)
           /\ [x EXCEPT !.payload = q, !.encoding = e] = Respelled(x, e, q)
<1>1. x = Respelled(x, x.encoding, x.payload)  BY DEF SegmentType, Respelled
<1>2. [x EXCEPT !.encoding = e] = Respelled(x, e, x.payload)  BY <1>1 DEF Respelled
<1>3. [x EXCEPT !.encoding = e, !.payload = q] = [[x EXCEPT !.encoding = e] EXCEPT !.payload = q]
  OBVIOUS
<1>4. Respelled(x, e, q) = [Respelled(x, e, x.payload) EXCEPT !.payload = q]  BY DEF Respelled
<1>5. [x EXCEPT !.payload = q] = Respelled(x, x.encoding, q)  BY <1>1 DEF Respelled
<1>6. [x EXCEPT !.payload = q, !.encoding = e] = [[x EXCEPT !.payload = q] EXCEPT !.encoding = e]
  OBVIOUS
<1>7. Respelled(x, e, q) = [Respelled(x, x.encoding, q) EXCEPT !.encoding = e]  BY DEF Respelled
<1>8. [x EXCEPT !.encoding = e, !.payload = q] = Respelled(x, e, q)  BY <1>2, <1>3, <1>4, Zenon
<1>9. [x EXCEPT !.payload = q, !.encoding = e] = Respelled(x, e, q)  BY <1>5, <1>6, <1>7, Zenon
<1>. QED  BY <1>8, <1>9

(* Two segments that are not too wide are equal to the checks if they have *)
(* the same canonical form, however they are spelled.                      *)
LEMMA SameCanonicalForm ==
    ASSUME NEW s \in SegmentType, NEW t \in SegmentType, NEW width \in Nat,
           Len(s.payload) <= width, Len(t.payload) <= width
    PROVE  SegmentSemanticEqual(s, t, width) <=> Canonical(s, width) = Canonical(t, width)
<1>. DEFINE Same(e, f) == /\ s.kind = t.kind /\ e = f /\ s.id = t.id /\ s.gen = t.gen
                          /\ s.fields = t.fields /\ s.ref = t.ref
<1>3. \A e, f, q, r : Respelled(s, e, q) = Respelled(t, f, r) <=> Same(e, f) /\ q = r
  BY DEF Respelled
<1>. DEFINE e == EffectiveEncoding(s)
            f == EffectiveEncoding(t)
            q == Padded(s.payload, width)
            r == Padded(t.payload, width)
<1>4. /\ Canonical(s, width) = Respelled(s, e, q)
      /\ Canonical(t, width) = Respelled(t, f, r)
  BY RespelledIs, Zenon DEF Canonical
<1>5. SameScalarContent(s, t) <=> Respelled(s, e, <<>>) = Respelled(t, f, <<>>)
  <2>1. /\ [s EXCEPT !.payload = <<>>, !.encoding = EffectiveEncoding(s)] = Respelled(s, e, <<>>)
        /\ [t EXCEPT !.payload = <<>>, !.encoding = EffectiveEncoding(t)] = Respelled(t, f, <<>>)
    BY RespelledIs, Zenon
  <2>. QED  BY <2>1, Zenon DEF SameScalarContent
<1>. HIDE DEF Same, e, f, q, r
<1>6. SegmentSemanticEqual(s, t, width) <=> Same(e, f) /\ q = r
  BY <1>3, <1>5 DEF SegmentSemanticEqual, q, r
<1>. QED  BY <1>3, <1>4, <1>6

(* A draft within the limit fits its profile if the checks of it and of    *)
(* the structure find no reason of the profile.                            *)
LEMMA FitsProfileIs ==
    ASSUME NEW d \in DraftType, NEW p \in Profiles
    PROVE  FitsProfile(d, p) <=> KeepsProfile(d, p) /\ Len(d.segments) <= MaxSegments
<1>. DEFINE s == d.segments
            w == p.payload_width
            Fit == \A i \in DOMAIN s : s[i].kind \in p.kinds /\ Len(s[i].payload) <= w
            Apart == \A i, j \in DOMAIN s :
                        i < j /\ Canonical(s[i], w) = Canonical(s[j], w)
                            => IF j = i + 1 THEN p.consecutive ELSE p.nonconsecutive
<1>1. PICK n \in Nat : Len(s) = n /\ DOMAIN s = 1 .. n /\ \A i \in 1 .. n : s[i] \in SegmentType
  BY DraftIs
<1>2. /\ MaxSegments \in Nat /\ p.max_depth \in Nat /\ w \in Nat /\ p # None
      /\ p.empty \in BOOLEAN /\ p.loose \in BOOLEAN
      /\ p.consecutive \in BOOLEAN /\ p.nonconsecutive \in BOOLEAN
  BY ProfileIs, ValidationAssumption
<1>3. s = <<>> <=> n = 0
  <2>1. s \in Seq(SegmentType)  BY DraftIs
  <2>. QED  BY <1>1, <2>1
<1>4. n \in (IF p.empty THEN 0 ELSE 1) .. Min({p.max_depth, MaxSegments})
        <=> (p.empty \/ s # <<>>) /\ n <= p.max_depth /\ n <= MaxSegments
  <2>. DEFINE S == {p.max_depth, MaxSegments}
              m == Min(S)
  <2>1. S \in SUBSET Nat /\ S # {}  BY <1>2
  <2>. HIDE DEF S
  <2>2. m \in S /\ \A x \in S : m <= x  BY <2>1, MinIs
  <2>3. m \in Nat /\ m <= p.max_depth /\ m <= MaxSegments /\ (m = p.max_depth \/ m = MaxSegments)
    BY <1>2, <2>2 DEF S
  <2>. HIDE DEF m
  <2>4. n <= m <=> n <= p.max_depth /\ n <= MaxSegments  BY <1>2, <2>3
  <2>5. n \in (IF p.empty THEN 0 ELSE 1) .. m <=> (p.empty \/ n # 0) /\ n <= m
    BY <1>2, <2>3
  <2>. QED  BY <1>3, <2>4, <2>5 DEF m, S
<1>5. ASSUME n <= MaxSegments, Fit
      PROVE  ForbiddenRepeats(d, p) = <<>> <=> Apart
  <2>1. Scan(d) = s  BY <1>1, <1>5, ScanIs
  <2>2. ForbiddenRepeats(d, p) = <<>>
          <=> \A i \in 1 .. n : \A j \in 1 .. i - 1 : ~ Forbidden(s, p, j, i)
    BY <1>1, <2>1, RepeatsAre
  <2>3. ASSUME NEW i \in 1 .. n, NEW j \in 1 .. n
        PROVE  Forbidden(s, p, j, i)
                 <=> /\ Canonical(s[j], w) = Canonical(s[i], w)
                     /\ ~ IF i = j + 1 THEN p.consecutive ELSE p.nonconsecutive
    <3>1. Len(s[i].payload) <= w /\ Len(s[j].payload) <= w  BY <1>1, <1>5
    <3>2. SegmentSemanticEqual(s[j], s[i], w) <=> Canonical(s[j], w) = Canonical(s[i], w)
      BY <1>1, <1>2, <3>1, SameCanonicalForm
    <3>3. Forbidden(s, p, j, i)
            <=> /\ SegmentSemanticEqual(s[j], s[i], w)
                /\ ~ IF j + 1 = i THEN p.consecutive ELSE p.nonconsecutive
      BY <1>2 DEF Forbidden
    <3>. HIDE DEF w, s
    <3>. QED  BY <3>2, <3>3
  <2>4. \A i \in 1 .. n : \A j \in 1 .. n : j < i <=> j \in 1 .. i - 1  OBVIOUS
  <2>5. \A i \in 1 .. n : \A j \in 1 .. i - 1 : j \in 1 .. n  OBVIOUS
  <2>6. Apart <=> \A i, j \in 1 .. n :
                    j < i /\ Canonical(s[j], w) = Canonical(s[i], w)
                       => IF i = j + 1 THEN p.consecutive ELSE p.nonconsecutive
    BY <1>1
  <2>. HIDE DEF Apart, s, w
  <2>. QED  BY <2>2, <2>3, <2>4, <2>5, <2>6
<1>6. n <= MaxSegments =>
        (Fit <=> \A i \in DOMAIN Scan(d) :
                    Scan(d)[i].kind \in p.kinds /\ Len(Scan(d)[i].payload) <= w)
  <2>. SUFFICES ASSUME n <= MaxSegments
                PROVE  Fit <=> \A i \in DOMAIN Scan(d) :
                            Scan(d)[i].kind \in p.kinds /\ Len(Scan(d)[i].payload) <= w
    OBVIOUS
  <2>1. Scan(d) = s  BY <1>1, ScanIs
  <2>. QED  BY <2>1
<1>7. d.strictness = "Strict" <=> d.strictness # "Loose"  BY DraftIs
<1>8. FitsProfile(d, p)
        <=> /\ d.profile_generation \in {0, p.gen}
            /\ n \in (IF p.empty THEN 0 ELSE 1) .. Min({p.max_depth, MaxSegments})
            /\ d.strictness = "Strict" \/ p.loose
            /\ Fit /\ Apart
  BY <1>1 DEF FitsProfile
<1>. DEFINE Scanned == \A i \in DOMAIN Scan(d) :
                          Scan(d)[i].kind \in p.kinds /\ Len(Scan(d)[i].payload) <= w
<1>9. KeepsProfile(d, p)
        <=> /\ d.profile_generation \in {0, p.gen}
            /\ p.empty \/ s # <<>>
            /\ d.strictness # "Loose" \/ p.loose
            /\ n <= p.max_depth
            /\ Scanned
            /\ ForbiddenRepeats(d, p) = <<>>
  BY <1>1 DEF KeepsProfile
<1>. HIDE DEF Fit, Apart, Scanned, s
<1>10. n <= MaxSegments => (Fit <=> Scanned)  BY <1>6 DEF Scanned
<1>. QED  BY <1>1, <1>4, <1>5, <1>7, <1>8, <1>9, <1>10 DEF s

(* Segments of kinds that exist fit a policy if its check finds nothing.   *)
LEMMA FitsPolicyIs ==
    ASSUME NEW d \in DraftType, NEW p \in Policies,
           \A i \in DOMAIN d.segments : d.segments[i].kind \in SegmentKind
    PROVE  FitsPolicy(d, p) <=> KeepsPolicy(d, p)
<1>. DEFINE s == d.segments
            ids == {x.id : x \in ToSet(s)}
            kinds == {x.kind : x \in ToSet(s)}
<1>1. \A x : x \in ids <=> \E i \in DOMAIN s : s[i].id = x  BY DEF ToSet
<1>2. \A i \in DOMAIN s : s[i].kind \in kinds  BY DEF ToSet
<1>3. \A x \in kinds : \E i \in DOMAIN s : x = s[i].kind  BY DEF ToSet
<1>4. \A i \in DOMAIN s : s[i].kind # "Invalid"  BY DEF SegmentKind
<1>. HIDE DEF ids, kinds, s
<1>5. p.required \subseteq ids <=> \A x \in p.required : \E i \in DOMAIN s : s[i].id = x
  BY <1>1
<1>6. p.forbidden \cap ids = {} <=> \A x \in p.forbidden : ~ \E i \in DOMAIN s : s[i].id = x
  BY <1>1
<1>7. (p.kinds = {} \/ kinds \subseteq p.kinds)
        <=> \A i \in DOMAIN s : ~ (p.kinds # {} /\ s[i].kind \notin p.kinds \cup {"Invalid"})
  BY <1>2, <1>3, <1>4
<1>8. KeepsPolicySegments(p, s)
        <=> /\ p.required \subseteq ids /\ p.forbidden \cap ids = {}
            /\ p.kinds = {} \/ kinds \subseteq p.kinds
  BY <1>5, <1>6, <1>7 DEF KeepsPolicySegments
<1>. QED  BY <1>8 DEF FitsPolicy, KeepsPolicy, ids, kinds, s

(* What validate_request adds to the result, in this order. *)
Reported(d) ==
    LET p == Find(Profiles, d.profile)
    IN  d.before \o check_list_lifecycle(d) \o check_list_content_lifecycle(d, p)
        \o check_profile(d, p) \o check_policy(d) \o check_structural(d, p)
        \o d.between \o check_resource_limits(d)

(* Reasons of the phases from one to another, phase by phase. *)
Within(s, a, b) == s \in Seq(Found(a .. b)) /\ InPhaseOrder(s)

(* Later phases follow. *)
LEMMA LaterPhases ==
    ASSUME NEW a \in Nat, NEW b \in Nat, a <= b, NEW s, Within(s, 0, a),
           NEW t, Within(t, a, b)
    PROVE  Within(s \o t, 0, b) /\ (s \o t = <<>> <=> s = <<>> /\ t = <<>>)
<1>. DEFINE T == Found(0 .. b)
<1>1. Found(0 .. a) \subseteq T /\ Found(a .. b) \subseteq T  BY DEF Found
<1>2. s \in Seq(Found(0 .. a)) /\ t \in Seq(Found(a .. b))  BY DEF Within
<1>. HIDE DEF T
<1>3. s \in Seq(T) /\ t \in Seq(T)  BY <1>1, <1>2
<1>4. s \o t \in Seq(T) /\ (s \o t = <<>> <=> s = <<>> /\ t = <<>>)  BY <1>3, Concatenation
<1>5. PICK n \in Nat, m \in Nat : Len(s) = n /\ Len(t) = m /\ DOMAIN s = 1 .. n /\ DOMAIN t = 1 .. m
  BY <1>3
<1>. DEFINE st == s \o t
<1>6. /\ Len(st) = n + m /\ DOMAIN st = 1 .. n + m
      /\ \A k \in 1 .. n : st[k] = s[k]
      /\ \A k \in 1 .. m : st[n + k] = t[k]
  BY <1>3, <1>5
<1>. HIDE DEF st
<1>7. \A k \in 1 .. n : phase_of(s[k]) \in 0 .. a  BY <1>2, <1>5 DEF Found
<1>8. \A k \in 1 .. m : phase_of(t[k]) \in a .. b  BY <1>2, <1>5 DEF Found
<1>9. ASSUME NEW i \in 1 .. n + m, NEW j \in 1 .. n + m, i < j
      PROVE  phase_of(st[i]) <= phase_of(st[j])
  <2>1. CASE j \in 1 .. n
    <3>1. i \in 1 .. n  BY <1>9, <2>1
    <3>2. phase_of(s[i]) <= phase_of(s[j])  BY <1>5, <1>9, <2>1, <3>1 DEF Within, InPhaseOrder
    <3>. QED  BY <1>6, <2>1, <3>1, <3>2
  <2>2. CASE i \notin 1 .. n
    <3>1. i - n \in 1 .. m /\ j - n \in 1 .. m /\ i - n < j - n  BY <1>9, <2>2
    <3>2. phase_of(t[i - n]) <= phase_of(t[j - n])  BY <1>5, <3>1 DEF Within, InPhaseOrder
    <3>3. n + (i - n) = i /\ n + (j - n) = j  OBVIOUS
    <3>4. st[i] = t[i - n] /\ st[j] = t[j - n]  BY <1>6, <3>1, <3>3
    <3>. QED  BY <3>2, <3>4
  <2>3. CASE i \in 1 .. n /\ j \notin 1 .. n
    <3>1. j - n \in 1 .. m /\ n + (j - n) = j  BY <2>3
    <3>2. st[i] = s[i] /\ st[j] = t[j - n]  BY <1>6, <2>3, <3>1
    <3>3. phase_of(s[i]) \in 0 .. a /\ phase_of(t[j - n]) \in a .. b  BY <1>7, <1>8, <2>3, <3>1
    <3>4. phase_of(s[i]) <= phase_of(t[j - n])  BY <3>3
    <3>. QED  BY <3>2, <3>4
  <2>. QED  BY <2>1, <2>2, <2>3
<1>10. InPhaseOrder(st)  BY <1>6, <1>9 DEF InPhaseOrder
<1>. QED  BY <1>4, <1>10 DEF Within, st, T

(* Reasons of one phase are in order, and of the phases that include it.   *)
LEMMA OnePhase ==
    ASSUME NEW ph \in Nat, NEW s \in Seq(Found({ph})), NEW a \in Nat, NEW b \in Nat,
           a <= ph, ph <= b
    PROVE  Within(s, a, b)
<1>1. Found({ph}) \subseteq Found(a .. b)  BY DEF Found
<1>2. \A i \in DOMAIN s : phase_of(s[i]) = ph  BY DEF Found
<1>3. s \in Seq(Found(a .. b))
  <2>. DEFINE S == Found({ph})
              T == Found(a .. b)
  <2>1. S \subseteq T /\ s \in Seq(S)  BY <1>1
  <2>. HIDE DEF S, T
  <2>2. s \in Seq(T)  BY <2>1
  <2>. QED  BY <2>2 DEF T
<1>. QED  BY <1>2, <1>3 DEF Within, InPhaseOrder

(* The request is validated phase by phase. *)
LEMMA ReportedIs ==
    ASSUME NEW d \in DraftType, InPhaseOrder(d.before), InPhaseOrder(d.between),
           NEW p, p = Find(Profiles, d.profile)
    PROVE  /\ Reported(d) \in Seq(Sources) /\ InPhaseOrder(Reported(d))
           /\ Reported(d) = <<>>
                <=> /\ d.before = <<>> /\ check_list_lifecycle(d) = <<>>
                    /\ check_list_content_lifecycle(d, p) = <<>>
                    /\ check_profile(d, p) = <<>> /\ check_policy(d) = <<>>
                    /\ check_structural(d, p) = <<>> /\ d.between = <<>>
                    /\ check_resource_limits(d) = <<>>
<1>. DEFINE c1 == d.before
            c2 == check_list_lifecycle(d)
            c3 == check_list_content_lifecycle(d, p)
            c4 == check_profile(d, p)
            c5 == check_policy(d)
            c6 == check_structural(d, p)
            c7 == d.between
            c8 == check_resource_limits(d)
<1>0. p \in Profiles \cup {None}  BY FindIs
<1>n. /\ \A n \in {3, 4, 5, 6, 7, 12, 13} : n \in Nat /\ n <= n
      /\ 3 <= 4 /\ 4 <= 5 /\ 5 <= 6 /\ 6 <= 7 /\ 7 <= 12 /\ 12 <= 13
  OBVIOUS
<1>a. \A r \in ReasonType : phase_of(r) \in 0 .. 13 /\ (r.code = LastCode => phase_of(r) = 13)
  <2>1. \A r \in ReasonType : r.code \in 1 .. LastCode  BY CodesAre DEF ReasonType
  <2>2. \A c \in 1 .. LastCode : kCodes[c][2] \in 0 .. 13
    <3>1. \A c \in 1 .. LastCode : kCodes[c][2] \in 1 .. 13  BY CodesAre
    <3>2. \A x \in 1 .. 13 : x \in 0 .. 13  OBVIOUS
    <3>. QED  BY <3>1, <3>2
  <2>3. kCodes[LastCode][2] = 13  BY CodesAre
  <2>. QED  BY <2>1, <2>2, <2>3 DEF phase_of
<1>1. Within(c1, 0, 3)
  <2>1. c1 \in Seq({r \in ReasonType : phase_of(r) < 4})  BY DEF DraftType
  <2>2. {r \in ReasonType : phase_of(r) < 4} \subseteq Found(0 .. 3)  BY <1>a DEF Found
  <2>3. c1 \in Seq(Found(0 .. 3))  BY <2>1, <2>2
  <2>. QED  BY <2>3 DEF Within
<1>2. Within(c2, 3, 4)
  <2>1. c2 \in Seq(Found({4}))  BY LifecycleIs
  <2>. QED  BY <1>n, <2>1, OnePhase
<1>3. Within(c3, 4, 4)
  <2>1. c3 \in Seq(Found({4}))  BY LifecycleIs
  <2>. QED  BY <1>n, <2>1, OnePhase
<1>4. Within(c4, 4, 5)
  <2>1. c4 \in Seq(Found({5}))  BY <1>0, CheckProfileIs
  <2>. QED  BY <1>n, <2>1, OnePhase
<1>5. Within(c5, 5, 6)
  <2>1. c5 \in Seq(Found({6}))  BY CheckPolicyIs
  <2>. QED  BY <1>n, <2>1, OnePhase
<1>6. Within(c6, 6, 7)
  <2>1. c6 \in Seq(Found({7}))  BY CheckStructuralIs
  <2>. QED  BY <1>n, <2>1, OnePhase
<1>7. Within(c7, 7, 12)
  <2>1. c7 \in Seq({r \in ReasonType : phase_of(r) \in 8 .. 12})  BY DEF DraftType
  <2>2. {r \in ReasonType : phase_of(r) \in 8 .. 12} \subseteq Found(7 .. 12)  BY <1>a DEF Found
  <2>3. c7 \in Seq(Found(7 .. 12))  BY <2>1, <2>2
  <2>. QED  BY <2>3 DEF Within
<1>8. Within(c8, 12, 13)
  <2>1. c8 \in Seq(Found({13}))  BY CheckLimitsIs
  <2>. QED  BY <1>n, <2>1, OnePhase
<1>9. Reported(d) = c1 \o c2 \o c3 \o c4 \o c5 \o c6 \o c7 \o c8  BY DEF Reported
<1>. HIDE DEF c1, c2, c3, c4, c5, c6, c7, c8
<1>. DEFINE d2 == c1 \o c2
            d3 == d2 \o c3
            d4 == d3 \o c4
            d5 == d4 \o c5
            d6 == d5 \o c6
            d7 == d6 \o c7
            d8 == d7 \o c8
<1>10. Within(d2, 0, 4) /\ (d2 = <<>> <=> c1 = <<>> /\ c2 = <<>>)  BY <1>1, <1>2, <1>n, LaterPhases
<1>. HIDE DEF d2
<1>11. Within(d3, 0, 4) /\ (d3 = <<>> <=> d2 = <<>> /\ c3 = <<>>)  BY <1>3, <1>10, <1>n, LaterPhases
<1>. HIDE DEF d3
<1>12. Within(d4, 0, 5) /\ (d4 = <<>> <=> d3 = <<>> /\ c4 = <<>>)  BY <1>4, <1>11, <1>n, LaterPhases
<1>. HIDE DEF d4
<1>13. Within(d5, 0, 6) /\ (d5 = <<>> <=> d4 = <<>> /\ c5 = <<>>)  BY <1>5, <1>12, <1>n, LaterPhases
<1>. HIDE DEF d5
<1>14. Within(d6, 0, 7) /\ (d6 = <<>> <=> d5 = <<>> /\ c6 = <<>>)  BY <1>6, <1>13, <1>n, LaterPhases
<1>. HIDE DEF d6
<1>15. Within(d7, 0, 12) /\ (d7 = <<>> <=> d6 = <<>> /\ c7 = <<>>)  BY <1>7, <1>14, <1>n, LaterPhases
<1>. HIDE DEF d7
<1>16. Within(d8, 0, 13) /\ (d8 = <<>> <=> d7 = <<>> /\ c8 = <<>>)  BY <1>8, <1>15, <1>n, LaterPhases
<1>. HIDE DEF d8
<1>17. Reported(d) = d8  BY <1>9 DEF d2, d3, d4, d5, d6, d7, d8
<1>18. d8 \in Seq(Sources) /\ InPhaseOrder(d8)
  <2>1. Found(0 .. 13) \subseteq Sources  BY DEF Found, Sources
  <2>2. d8 \in Seq(Found(0 .. 13)) /\ InPhaseOrder(d8)  BY <1>16 DEF Within
  <2>. QED  BY <2>1, <2>2
<1>19. d8 = <<>> <=> /\ c1 = <<>> /\ c2 = <<>> /\ c3 = <<>> /\ c4 = <<>>
                     /\ c5 = <<>> /\ c6 = <<>> /\ c7 = <<>> /\ c8 = <<>>
  BY <1>10, <1>11, <1>12, <1>13, <1>14, <1>15, <1>16
<1>. QED  BY <1>17, <1>18, <1>19 DEF c1, c2, c3, c4, c5, c6, c7, c8

(* Everything that was found of a draft. *)
FoundOf(d) == Defects(d) \cup ToSet(LateChecks(d))

(* Nothing is found exactly of the governed drafts. *)
LEMMA NothingFoundOfGoverned ==
    ASSUME NEW d \in DraftType, InPhaseOrder(d.before), InPhaseOrder(d.between)
    PROVE  /\ FoundOf(d) \in SUBSET Sources
           /\ FoundOf(d) = {} <=> Governed(d)
<1>. DEFINE p == Find(Profiles, d.profile)
            q == Find(Policies, d.policy)
            s == d.segments
<1>0. /\ p = Find(Profiles, d.profile) /\ p \in Profiles \cup {None}
      /\ Defects(d) = ToSet(Reported(d))
  <2>1. p = Find(Profiles, d.profile) /\ p \in Profiles \cup {None}  BY FindIs
  <2>2. Defects(d) = ToSet(Reported(d))  BY DEF Defects, Reported
  <2>. QED  BY <2>1, <2>2
<1>1. Reported(d) \in Seq(Sources) /\ LateChecks(d) \in Seq(Sources)
  <2>1. Reported(d) \in Seq(Sources)  BY ReportedIs
  <2>2. Found({4}) \subseteq Sources  BY DEF Found, Sources
  <2>3. LateChecks(d) \in Seq(Found({4}))  BY LifecycleIs
  <2>. QED  BY <2>1, <2>2, <2>3
<1>2. FoundOf(d) \in SUBSET Sources  BY <1>0, <1>1, NothingIn DEF FoundOf
<1>3. FoundOf(d) = {} <=> Reported(d) = <<>> /\ LateChecks(d) = <<>>
  <2>1. ToSet(Reported(d)) = {} <=> Reported(d) = <<>>  BY <1>1, NothingIn
  <2>2. ToSet(LateChecks(d)) = {} <=> LateChecks(d) = <<>>  BY <1>1, NothingIn
  <2>. QED  BY <1>0, <2>1, <2>2 DEF FoundOf
<1>4. LateChecks(d) = <<>> <=> (d.existing # 0 => d.expected = d.existing) /\ MaySupersede(d)
  BY LifecycleIs
<1>5. /\ check_list_lifecycle(d) = <<>> <=> MayFollow(d)
      /\ MayFollow(d) => (d.existing # 0 => d.expected = d.existing)
  BY LifecycleIs DEF MayFollow
<1>6. check_list_content_lifecycle(d, p) = <<>> <=> ~ (s = <<>> /\ (p # None => ~ p.empty))
  BY LifecycleIs
<1>7. check_profile(d, p) = <<>> <=> p # None /\ KeepsProfile(d, p)  BY <1>0, CheckProfileIs
<1>8. check_policy(d) = <<>> <=> IF q = None THEN d.policy = 0 ELSE KeepsPolicy(d, q)
  BY CheckPolicyIs
<1>9. check_structural(d, p) = <<>>
        <=> /\ \A i \in DOMAIN Scan(d) : SoundSegment(Scan(d)[i])
            /\ ForbiddenRepeats(d, p) = <<>>
  BY CheckStructuralIs
<1>10. check_resource_limits(d) = <<>>
         <=> /\ Len(s) <= MaxSegments
             /\ \A i \in DOMAIN s : Len(s[i].payload) <= MaxPayload
  BY CheckLimitsIs
<1>11. Reported(d) = <<>>
         <=> /\ d.before = <<>> /\ check_list_lifecycle(d) = <<>>
             /\ check_list_content_lifecycle(d, p) = <<>>
             /\ check_profile(d, p) = <<>> /\ check_policy(d) = <<>>
             /\ check_structural(d, p) = <<>> /\ d.between = <<>>
             /\ check_resource_limits(d) = <<>>
  BY <1>0, ReportedIs
<1>12. (\E x \in Profiles : x.id = d.profile /\ FitsProfile(d, x))
         <=> p # None /\ KeepsProfile(d, p) /\ Len(s) <= MaxSegments
  <2>1. \A x \in Profiles : x.id = d.profile => x = p  BY FindIs
  <2>2. p # None => p \in Profiles /\ p.id = d.profile  BY FindIs
  <2>3. None \notin Profiles  BY ValidationAssumption
  <2>. HIDE DEF p
  <2>4. p # None => (FitsProfile(d, p) <=> KeepsProfile(d, p) /\ Len(s) <= MaxSegments)
    BY <2>2, FitsProfileIs
  <2>. QED  BY <2>1, <2>2, <2>3, <2>4
<1>13. Len(s) <= MaxSegments => Scan(d) = s  BY ScanIs
<1>14. (\A x \in ToSet(s) : WellFormed(x))
         <=> \A i \in DOMAIN s : SoundSegment(s[i]) /\ Len(s[i].payload) <= MaxPayload
  <2>1. ToSet(s) = {s[i] : i \in DOMAIN s}  BY DEF ToSet
  <2>2. \A x : WellFormed(x) <=> SoundSegment(x) /\ Len(x.payload) <= MaxPayload
    BY DEF WellFormed, SoundSegment
  <2>. HIDE DEF s
  <2>. QED  BY <2>1, <2>2
<1>15. ASSUME \A i \in DOMAIN s : SoundSegment(s[i])
       PROVE  (d.policy # 0 => \E x \in Policies : x.id = d.policy /\ FitsPolicy(d, x))
                <=> IF q = None THEN d.policy = 0 ELSE KeepsPolicy(d, q)
  <2>1. \A x \in Policies : x.id = d.policy => x = q  BY FindIs
  <2>2. q # None => q \in Policies /\ q.id = d.policy  BY FindIs
  <2>3. None \notin Policies /\ \A x \in Policies : x.id # 0  BY PolicyIs, ValidationAssumption
  <2>4. \A i \in DOMAIN s : s[i].kind \in SegmentKind  BY <1>15 DEF SoundSegment
  <2>. HIDE DEF q
  <2>5. q # None => (FitsPolicy(d, q) <=> KeepsPolicy(d, q))  BY <2>2, <2>4, FitsPolicyIs
  <2>. QED  BY <2>1, <2>2, <2>3, <2>5
<1>16. KeepsProfile(d, p) => (p.empty \/ s # <<>>) /\ ForbiddenRepeats(d, p) = <<>>
  BY DEF KeepsProfile
<1>17. Governed(d)
         <=> /\ d.before = <<>> /\ d.between = <<>>
             /\ MayFollow(d)
             /\ MaySupersede(d)
             /\ \E x \in Profiles : x.id = d.profile /\ FitsProfile(d, x)
             /\ d.policy # 0 => \E x \in Policies : x.id = d.policy /\ FitsPolicy(d, x)
             /\ \A x \in ToSet(s) : WellFormed(x)
  BY DEF Governed
<1>. HIDE DEF p, q, s
<1>18. ASSUME Reported(d) = <<>>, LateChecks(d) = <<>> PROVE Governed(d)
  <2>1. /\ d.before = <<>> /\ d.between = <<>> /\ p # None /\ KeepsProfile(d, p)
        /\ Len(s) <= MaxSegments /\ \A i \in DOMAIN s : Len(s[i].payload) <= MaxPayload
        /\ \A i \in DOMAIN Scan(d) : SoundSegment(Scan(d)[i])
        /\ IF q = None THEN d.policy = 0 ELSE KeepsPolicy(d, q)
    BY <1>7, <1>8, <1>9, <1>10, <1>11, <1>18
  <2>2. \A i \in DOMAIN s : SoundSegment(s[i])  BY <1>13, <2>1
  <2>3. MayFollow(d) /\ MaySupersede(d)  BY <1>4, <1>5, <1>11, <1>18
  <2>. QED  BY <1>12, <1>14, <1>15, <1>17, <2>1, <2>2, <2>3
<1>19. ASSUME Governed(d) PROVE Reported(d) = <<>> /\ LateChecks(d) = <<>>
  <2>1. /\ p # None /\ KeepsProfile(d, p) /\ Len(s) <= MaxSegments
        /\ \A i \in DOMAIN s : SoundSegment(s[i]) /\ Len(s[i].payload) <= MaxPayload
    BY <1>12, <1>14, <1>17, <1>19
  <2>2. IF q = None THEN d.policy = 0 ELSE KeepsPolicy(d, q)  BY <1>15, <1>17, <1>19, <2>1
  <2>3. \A i \in DOMAIN Scan(d) : SoundSegment(Scan(d)[i])  BY <1>13, <2>1
  <2>4. check_policy(d) = <<>> /\ check_profile(d, p) = <<>> /\ check_structural(d, p) = <<>>
    BY <1>7, <1>8, <1>9, <1>16, <2>1, <2>2, <2>3
  <2>5. check_list_content_lifecycle(d, p) = <<>> /\ check_resource_limits(d) = <<>>
    BY <1>6, <1>10, <1>16, <2>1
  <2>. QED  BY <1>4, <1>5, <1>11, <1>17, <1>19, <2>4, <2>5
<1>. QED  BY <1>2, <1>3, <1>18, <1>19
--------------------------------------------------------------------------------
(* The loop over the drafts of a batch. *)

(* What is known of a batch. *)
ValidBatch(b) ==
    /\ b \in Seq(DraftType)
    /\ \A i \in DOMAIN b : InPhaseOrder(b[i].before) /\ InPhaseOrder(b[i].between)

(* What was found of the drafts that were validated. *)
FoundSoFar == UNION {FoundOf(batch[i]) : i \in 1 .. next - 1}

(* The inductive invariant: what was combined is complete, the last result *)
(* is that of the draft before the next one, and a status is only given    *)
(* when all drafts were validated, from what was combined.                 *)
ValidationInv ==
    /\ ValidBatch(batch)
    /\ next \in 1 .. Len(batch) + 1
    /\ Complete(combined, FoundSoFar)
    /\ next > 1 => result = validate_request(batch[next - 1])
    /\ status # "validating" =>
          /\ next = Len(batch) + 1
          /\ status = status_for(Absorb(Success, combined))

(* What is found of a draft of a batch, and of the first drafts. *)
LEMMA FoundOfBatch ==
    ASSUME NEW b, ValidBatch(b)
    PROVE  /\ \A i \in 1 .. Len(b) : /\ b[i] \in DraftType
                                     /\ InPhaseOrder(b[i].before) /\ InPhaseOrder(b[i].between)
           /\ \A i \in 1 .. Len(b) : FoundOf(b[i]) \in SUBSET Sources
           /\ \A n \in 0 .. Len(b) : (UNION {FoundOf(b[i]) : i \in 1 .. n}) \in SUBSET Sources
           /\ Len(b) \in Nat /\ DOMAIN b = 1 .. Len(b)
<1>1. b \in Seq(DraftType)  BY DEF ValidBatch
<1>2. Len(b) \in Nat /\ DOMAIN b = 1 .. Len(b)  BY <1>1
<1>3. \A i \in 1 .. Len(b) : /\ b[i] \in DraftType
                             /\ InPhaseOrder(b[i].before) /\ InPhaseOrder(b[i].between)
  BY <1>1, <1>2 DEF ValidBatch
<1>4. \A i \in 1 .. Len(b) : FoundOf(b[i]) \in SUBSET Sources  BY <1>3, NothingFoundOfGoverned
<1>5. \A n \in 0 .. Len(b) : \A i \in 1 .. n : i \in 1 .. Len(b)  BY <1>2
<1>6. ASSUME NEW n \in 0 .. Len(b)
      PROVE  (UNION {FoundOf(b[i]) : i \in 1 .. n}) \in SUBSET Sources
  BY <1>4, <1>5
<1>. QED  BY <1>2, <1>3, <1>4, <1>6

(* A draft is validated and what was found of it is combined. *)
LEMMA ValidateDraftKeeps ==
    ASSUME ValidationInv, ValidateDraft
    PROVE  ValidationInv'
<1>. DEFINE d == batch[next]
            late == LateChecks(d)
            all == AddAll(result', late)
<1>1. ValidBatch(batch)  BY DEF ValidationInv
<1>2. /\ Len(batch) \in Nat /\ next \in 1 .. Len(batch) /\ next' = next + 1 /\ batch' = batch
      /\ status' = status /\ status = "validating" /\ next \in Nat
  BY <1>1, FoundOfBatch DEF ValidationInv, ValidateDraft
<1>3. d \in DraftType /\ InPhaseOrder(d.before) /\ InPhaseOrder(d.between)
  BY <1>1, <1>2, FoundOfBatch
<1>4. result' = validate_request(d)  BY DEF ValidateDraft
<1>5. Reported(d) \in Seq(Sources) /\ Defects(d) = ToSet(Reported(d))
      /\ validate_request(d) = AddAll(Success, Reported(d))
  <2>1. Reported(d) \in Seq(Sources)  BY <1>3, ReportedIs
  <2>2. Defects(d) = ToSet(Reported(d))  BY DEF Defects, Reported
  <2>3. validate_request(d) = AddAll(Success, Reported(d))  BY DEF validate_request, Reported
  <2>. QED  BY <2>1, <2>2, <2>3
<1>6. late \in Seq(Sources)
  <2>1. Found({4}) \subseteq Sources  BY DEF Found, Sources
  <2>2. late \in Seq(Found({4}))  BY <1>3, LifecycleIs
  <2>. QED  BY <2>1, <2>2
<1>7. Complete(Success, {})  BY SuccessIs DEF Complete, Success
<1>8. Complete(result', Defects(d))
  <2>1. {} \in SUBSET Sources  OBVIOUS
  <2>2. Complete(AddAll(Success, Reported(d)), {} \cup ToSet(Reported(d)))
    BY <1>5, <1>7, <2>1, AddAllCompletes
  <2>3. {} \cup ToSet(Reported(d)) = Defects(d)  BY <1>5
  <2>. QED  BY <1>4, <1>5, <2>2, <2>3
<1>9. FoundOf(d) \in SUBSET Sources /\ Defects(d) \in SUBSET Sources
  BY <1>3, NothingFoundOfGoverned DEF FoundOf
<1>10. Complete(all, FoundOf(d))  BY <1>6, <1>8, <1>9, AddAllCompletes DEF FoundOf
<1>11. FoundSoFar \in SUBSET Sources
  <2>1. next - 1 \in 0 .. Len(batch)  BY <1>2
  <2>. QED  BY <1>1, <2>1, FoundOfBatch DEF FoundSoFar
<1>12. combined' = Absorb(combined, all)  BY DEF ValidateDraft
<1>13. Complete(combined', FoundSoFar \cup FoundOf(d))
  <2>1. Complete(combined, FoundSoFar)  BY DEF ValidationInv
  <2>. HIDE DEF all, d
  <2>. QED  BY <1>9, <1>10, <1>11, <1>12, <2>1, AbsorbCompletes
<1>14. FoundSoFar' = FoundSoFar \cup FoundOf(d)
  <2>1. 1 .. next' - 1 = (1 .. next - 1) \cup {next}  BY <1>2
  <2>2. FoundSoFar' = UNION {FoundOf(batch[i]) : i \in 1 .. next' - 1}  BY <1>2 DEF FoundSoFar
  <2>. QED  BY <2>1, <2>2 DEF FoundSoFar
<1>15. next' \in 1 .. Len(batch') + 1 /\ next' - 1 = next  BY <1>2
<1>16. Complete(combined, FoundSoFar)'
  <2>1. Complete(combined', FoundSoFar')  BY <1>13, <1>14
  <2>. QED  BY <2>1 DEF Complete, ResultType
<1>. QED  BY <1>1, <1>2, <1>4, <1>15, <1>16 DEF ValidationInv

(* The status is given. *)
LEMMA FinishKeeps ==
    ASSUME ValidationInv, Finish
    PROVE  ValidationInv'
<1>1. /\ batch' = batch /\ next' = next /\ result' = result /\ combined' = combined
      /\ status' = status_for(Absorb(Success, combined)) /\ next > Len(batch)
  BY DEF Finish
<1>2. Len(batch) \in Nat /\ next \in 1 .. Len(batch) + 1  BY FoundOfBatch DEF ValidationInv
<1>3. next = Len(batch) + 1  BY <1>1, <1>2
<1>4. FoundSoFar' = FoundSoFar  BY <1>1 DEF FoundSoFar
<1>. QED  BY <1>1, <1>2, <1>3, <1>4 DEF ValidationInv

(* No reason was found exactly if the status is Ok: when there are too     *)
(* many the note is not alone.                                             *)
LEMMA OkMeansNothingFound ==
    ASSUME NEW res, NEW found \in SUBSET Sources, Complete(res, found)
    PROVE  status_for(Absorb(Success, res)) = "Ok" <=> found = {}
<1>. DEFINE all == Absorb(Success, res)
<1>1. Complete(Success, {})  BY SuccessIs DEF Complete, Success
<1>2. Complete(all, found)
  <2>1. {} \in SUBSET Sources /\ {} \cup found = found  OBVIOUS
  <2>2. Complete(all, {} \cup found)  BY <1>1, <2>1, AbsorbCompletes
  <2>. QED  BY <2>1, <2>2
<1>. HIDE DEF all
<1>3. status_for(all) = "Ok" <=> all.reasons = {}  BY DEF status_for
<1>4. all.reasons = {} <=> found = {}
  <2>1. CASE ~ all.truncated  BY <1>2, <2>1 DEF Complete
  <2>2. CASE all.truncated
    <3>1. LimitMaxReasons \in all.reasons /\ Cardinality(all.reasons) = MaxReasons
      BY <1>2, <2>2 DEF Complete
    <3>2. found # {}
      <4>1. SUFFICES ASSUME found = {} PROVE FALSE  OBVIOUS
      <4>2. all.reasons = {LimitMaxReasons}  BY <1>2, <2>2, <3>1, <4>1 DEF Complete
      <4>3. Cardinality(all.reasons) = 1  BY <4>2, FS_Singleton
      <4>. QED  BY <3>1, <4>3, ValidationAssumption
    <3>. QED  BY <3>1, <3>2
  <2>. QED  BY <2>1, <2>2
<1>. QED  BY <1>3, <1>4 DEF all

(* What the invariant says of what is reported and of what is accepted. *)
LEMMA ValidationInvImplies ==
    ASSUME ValidationInv
    PROVE  AcceptsExactlyTheGoverned /\ ReasonsAreComplete /\ RequestPrimaryDominates
<1>1. ValidBatch(batch) /\ Complete(combined, FoundSoFar)  BY DEF ValidationInv
<1>2. Len(batch) \in Nat /\ next \in 1 .. Len(batch) + 1 /\ DOMAIN batch = 1 .. Len(batch)
  BY <1>1, FoundOfBatch DEF ValidationInv
<1>3. ReasonsAreComplete
  <2>1. FoundSoFar
          = UNION {Defects(batch[i]) \cup ToSet(LateChecks(batch[i])) : i \in 1 .. next - 1}
    BY DEF FoundSoFar, FoundOf
  <2>. QED  BY <1>1, <2>1 DEF ReasonsAreComplete, Complete
<1>4. AcceptsExactlyTheGoverned
  <2>. SUFFICES ASSUME status # "validating"
                PROVE  status = "Ok" <=> \A i \in DOMAIN batch : Governed(batch[i])
    BY DEF AcceptsExactlyTheGoverned
  <2>1. next = Len(batch) + 1 /\ status = status_for(Absorb(Success, combined))
    BY DEF ValidationInv
  <2>2. FoundSoFar \in SUBSET Sources /\ 1 .. next - 1 = 1 .. Len(batch)
    <3>1. next - 1 \in 0 .. Len(batch) /\ next - 1 = Len(batch)  BY <1>2, <2>1
    <3>. QED  BY <1>1, <3>1, FoundOfBatch DEF FoundSoFar
  <2>3. status = "Ok" <=> FoundSoFar = {}  BY <1>1, <2>1, <2>2, OkMeansNothingFound
  <2>4. FoundSoFar = {} <=> \A i \in 1 .. Len(batch) : FoundOf(batch[i]) = {}
    <3>1. FoundSoFar = UNION {FoundOf(batch[i]) : i \in 1 .. Len(batch)}  BY <2>2 DEF FoundSoFar
    <3>2. \A i \in 1 .. Len(batch) : FoundOf(batch[i]) \subseteq FoundSoFar  BY <3>1
    <3>3. \A x \in FoundSoFar : \E i \in 1 .. Len(batch) : x \in FoundOf(batch[i])  BY <3>1
    <3>. QED  BY <3>2, <3>3
  <2>5. \A i \in 1 .. Len(batch) : FoundOf(batch[i]) = {} <=> Governed(batch[i])
    BY <1>1, FoundOfBatch, NothingFoundOfGoverned
  <2>. QED  BY <1>2, <2>3, <2>4, <2>5
<1>5. RequestPrimaryDominates
  <2>. DEFINE d == batch[next - 1]
  <2>. SUFFICES ASSUME next > 1, Defects(d) # {}
                PROVE  /\ Primary(result) \in Defects(d)
                       /\ \A r \in Defects(d) : phase_of(Primary(result)) <= phase_of(r)
    BY DEF RequestPrimaryDominates
  <2>1. next - 1 \in 1 .. Len(batch)  BY <1>2
  <2>2. d \in DraftType /\ InPhaseOrder(d.before) /\ InPhaseOrder(d.between)
    BY <1>1, <2>1, FoundOfBatch
  <2>3. result = AddAll(Success, Reported(d))
    BY DEF ValidationInv, validate_request, Reported
  <2>4. Defects(d) = ToSet(Reported(d))  BY DEF Defects, Reported
  <2>5. Reported(d) \in Seq(Sources) /\ InPhaseOrder(Reported(d))  BY <2>2, ReportedIs
  <2>6. Reported(d) # <<>>  BY <2>4, <2>5, NothingIn
  <2>. HIDE DEF d
  <2>. QED  BY <2>3, <2>4, <2>5, <2>6, PrimaryIsEarliest
<1>. QED  BY <1>3, <1>4, <1>5

(* The batches are valid, and so is one without drafts. *)
LEMMA InitialInv ==
    ASSUME batch \in Batches \/ batch = <<>>, next = 1, combined = Success, status = "validating"
    PROVE  ValidationInv
<1>1. ValidBatch(batch)
  <2>1. CASE batch \in Batches  BY <2>1, ValidationAssumption DEF ValidBatch
  <2>2. CASE batch = <<>>  BY <2>2 DEF ValidBatch
  <2>. QED  BY <2>1, <2>2
<1>2. Len(batch) \in Nat /\ next \in 1 .. Len(batch) + 1 /\ ~ (next > 1)
  <2>1. Len(batch) \in Nat  BY <1>1, FoundOfBatch
  <2>. QED  BY <2>1
<1>3. FoundSoFar = {}
  <2>1. 1 .. next - 1 = {}  OBVIOUS
  <2>. QED  BY <2>1 DEF FoundSoFar
<1>4. Complete(combined, FoundSoFar)  BY <1>3, SuccessIs DEF Complete, Success
<1>. QED  BY <1>1, <1>2, <1>4 DEF ValidationInv

(* The loop keeps the invariant. *)
LEMMA NextKeeps ==
    ASSUME ValidationInv, [Next]_vars
    PROVE  ValidationInv'
<1>1. CASE ValidateDraft  BY <1>1, ValidateDraftKeeps
<1>2. CASE Finish  BY <1>2, FinishKeeps
<1>3. CASE UNCHANGED vars
  <2>1. /\ batch' = batch /\ next' = next /\ result' = result /\ combined' = combined
        /\ status' = status
    BY <1>3 DEF vars
  <2>2. FoundSoFar' = FoundSoFar  BY <2>1 DEF FoundSoFar
  <2>. QED  BY <2>1, <2>2 DEF ValidationInv
<1>. QED  BY <1>1, <1>2, <1>3 DEF Next

(* Phase C accepts exactly the governed batches, reports all it finds or   *)
(* says that there is more, and puts an earlier phase before a later one:  *)
(* in the loop of run_batch, whatever batches are submitted.               *)
THEOREM ValidationIsExact ==
    Spec => [](AcceptsExactlyTheGoverned /\ ReasonsAreComplete /\ RequestPrimaryDominates)
<1>1. Init => ValidationInv  BY InitialInv DEF Init
<1>2. ValidationInv /\ [Next]_vars => ValidationInv'  BY NextKeeps
<1>3. ValidationInv => AcceptsExactlyTheGoverned /\ ReasonsAreComplete /\ RequestPrimaryDominates
  BY ValidationInvImplies
<1>. QED  BY <1>1, <1>2, <1>3, PTL DEF Spec

(* The questions leave what is validated alone. *)
LEMMA MessagesKeep ==
    /\ ExplainInit => ValidationInv
    /\ ValidationInv /\ [MessageNext]_explainVars => ValidationInv'
<1>1. ExplainInit => ValidationInv  BY InitialInv DEF ExplainInit, Init
<1>2. [MessageNext]_explainVars => [Next]_vars
  BY DEF MessageNext, OracleNext, ExplainNext, CrossCheck, Transmit, explainVars
<1>. QED  BY <1>1, <1>2, NextKeeps

(* A batch goes on to phase E exactly if all its drafts are governed. *)
THEOREM BatchesAreGoverned == MessageSpec => []AcceptsExactlyTheGoverned
<1>1. ValidationInv => AcceptsExactlyTheGoverned  BY ValidationInvImplies
<1>. QED  BY <1>1, MessagesKeep, PTL DEF MessageSpec

(* A result that is not marked as truncated has all that was found. *)
THEOREM NothingIsWithheld == MessageSpec => []ReasonsAreComplete
<1>1. ValidationInv => ReasonsAreComplete  BY ValidationInvImplies
<1>. QED  BY <1>1, MessagesKeep, PTL DEF MessageSpec

(* The primary reason of a request is of the earliest phase that failed. *)
THEOREM EarlierPhasesDominate == MessageSpec => []RequestPrimaryDominates
<1>1. ValidationInv => RequestPrimaryDominates  BY ValidationInvImplies
<1>. QED  BY <1>1, MessagesKeep, PTL DEF MessageSpec
--------------------------------------------------------------------------------
(* Questions and answers. *)

(* The inductive invariant: an answer is what its function returns of the  *)
(* question.                                                               *)
AnswerInv ==
    /\ question \in Questions \cup {None}
    /\ question # None /\ answer # None =>
          /\ question.topic = "diff" => answer = diff(question)
          /\ question.topic = "segment" => answer = explain_segment(question)
          /\ question.topic = "capability" => answer = explain_missing_capability(question)
          /\ question.topic = "topology" => answer = explain_stale_topology(question)
          /\ question.topic = "sequence" =>
                answer = [library |-> validate_segment_sequence(question),
                          librarySequence |-> canonical_sequence(question),
                          oracle |-> check(question),
                          oracleSequence |-> encodeSequence(question)]
          /\ question.topic = "message" =>
                answer = LET items == encode(question.message)
                         IN  IF items = None THEN [why |-> "NotEncoded"]
                             ELSE decode(question.message.type, Damaged(items, question))

(* It holds at first, and no step changes a question or an answer. *)
LEMMA AnswersAre ==
    /\ ExplainInit => AnswerInv
    /\ AnswerInv /\ [MessageNext]_explainVars => AnswerInv'
<1>1. ExplainInit => AnswerInv  BY DEF ExplainInit, AnswerInv
<1>2. ASSUME AnswerInv, [MessageNext]_explainVars PROVE AnswerInv'
  <2>1. CASE UNCHANGED <<question, answer>>  BY <1>2, <2>1 DEF AnswerInv
  <2>2. CASE UNCHANGED question /\ Diff  BY <1>2, <2>2 DEF AnswerInv, Diff, Asked
  <2>3. CASE UNCHANGED question /\ ExplainSegment
    BY <1>2, <2>3 DEF AnswerInv, ExplainSegment, Asked
  <2>4. CASE UNCHANGED question /\ ExplainMissingCapability
    BY <1>2, <2>4 DEF AnswerInv, ExplainMissingCapability, Asked
  <2>5. CASE UNCHANGED question /\ ExplainStaleTopology
    BY <1>2, <2>5 DEF AnswerInv, ExplainStaleTopology, Asked
  <2>6. CASE CrossCheck  BY <1>2, <2>6 DEF AnswerInv, CrossCheck, Asked
  <2>7. CASE Transmit  BY <1>2, <2>7 DEF AnswerInv, Transmit, Asked
  <2>. QED
    BY <1>2, <2>1, <2>2, <2>3, <2>4, <2>5, <2>6, <2>7
       DEF MessageNext, OracleNext, ExplainNext, explainVars
<1>. QED  BY <1>1, <1>2
--------------------------------------------------------------------------------
(* The library and the oracle. *)

(* A condition, whatever it is. *)
LEMMA IfIn ==
    ASSUME NEW T, NEW c, NEW name, NEW index, NEW detail, Reason(name, index, detail) \in T
    PROVE  If(c, name, index, detail) \in Seq(T)
<1>1. PICK r : r = Reason(name, index, detail)  OBVIOUS
<1>2. <<r>> \in Seq(T) /\ <<>> \in Seq(T)  BY <1>1
<1>. QED  BY <1>1, <1>2 DEF If

(* The names of what checks find. *)
ReasonNames == {kCodes[c][1] : c \in 1 .. LastCode - 1}

(* The names that are found without evidence. *)
LEMMA SequenceNames ==
    {"ListEmptyNotPermitted", "ProfileGenerationInvalid", "ProfileEmptyNotPermitted",
     "ProfileMaxDepthExceeded", "ProfileKindNotAllowed", "ProfileKindMismatch",
     "ProfilePayloadWidthExceeded", "ProfileRepeatNotPermitted", "SegmentKindInvalid",
     "SegmentIdInvalid", "SegmentGenerationInvalid", "SegmentEncodingMismatch",
     "SegmentBindingIncomplete", "SegmentReservedFieldSet", "SegmentMissingBinding",
     "SegmentDuplicateConsecutive", "SegmentDuplicateNonConsecutive",
     "CapabilityEvidenceUnavailable", "TopologyEvidenceUnavailable",
     "LimitMaxSegmentsPerList", "LimitMaxSegmentPayloadBytes"} \subseteq ReasonNames
<1>1. \A c \in 1 .. LastCode - 1 : kCodes[c][1] \in ReasonNames  BY DEF ReasonNames
<1>. QED  BY <1>1 DEF kCodes, LastCode

(* A reason is found, tells its place and can be told by its name. *)
LEMMA NamedReason ==
    ASSUME NEW name \in ReasonNames, NEW index \in Nat, NEW detail \in Nat
    PROVE  /\ Reason(name, index, detail) \in Sources
           /\ kCodes[Reason(name, index, detail).code][1] = name
           /\ Reason(name, index, detail).index = index
           /\ Reason(name, index, detail).detail = detail
<1>1. PICK c \in 1 .. LastCode - 1 : name = kCodes[c][1]  BY DEF ReasonNames
<1>2. c \in 1 .. LastCode /\ c # LastCode  BY DEF LastCode
<1>3. Code(name) = c  BY <1>1, <1>2, CodeIs
<1>4. Reason(name, index, detail) = [code |-> c, index |-> index, detail |-> detail]
  BY <1>3 DEF Reason
<1>. QED  BY <1>1, <1>2, <1>4, CodesAre DEF Sources, ReasonType

(* What a check reports, as a set. *)
Tells(reported, reasons) == reported \in Seq(Sources) /\ ToSet(reported) = reasons

(* A check of one condition tells what the oracle emits for it. *)
LEMMA TellsIf ==
    ASSUME NEW name \in ReasonNames, NEW index \in Nat, NEW detail \in Nat, NEW c
    PROVE  Tells(If(c, name, index, detail), Emit(c, name, index, detail))
<1>1. Reason(name, index, detail) \in Sources  BY NamedReason
<1>2. If(c, name, index, detail) \in Seq(Sources)  BY <1>1, IfIn, Zenon
<1>. QED  BY <1>2, Zenon DEF Tells, Emit

(* It is the reason, if the condition holds. *)
LEMMA EmitIs ==
    ASSUME NEW name, NEW index, NEW detail, NEW c \in BOOLEAN
    PROVE  \A r : r \in Emit(c, name, index, detail) <=> c /\ r = Reason(name, index, detail)
<1>1. PICK x : x = Reason(name, index, detail)  OBVIOUS
<1>2. ToSet(<<x>>) = {x} /\ ToSet(<<>>) = {}  BY DEF ToSet
<1>3. Emit(c, name, index, detail) = IF c THEN {x} ELSE {}  BY <1>1, <1>2 DEF Emit, If
<1>. QED  BY <1>1, <1>3

(* Two checks, one after the other. *)
LEMMA TellsBoth ==
    ASSUME NEW a, NEW b, NEW A, NEW B, Tells(a, A), Tells(b, B)
    PROVE  Tells(a \o b, A \cup B)
<1>1. a \in Seq(Sources) /\ b \in Seq(Sources) /\ ToSet(a) = A /\ ToSet(b) = B  BY DEF Tells
<1>. QED  BY <1>1, Concatenation DEF Tells

(* A check at every place. *)
LEMMA TellsEverywhere ==
    ASSUME NEW n \in Nat, NEW ss, ss = [i \in 1 .. n |-> ss[i]], NEW S,
           \A i \in 1 .. n : Tells(ss[i], S[i])
    PROVE  Tells(FlattenSeq(ss), UNION {S[i] : i \in 1 .. n})
<1>1. \A i \in 1 .. n : ss[i] \in Seq(Sources) /\ ToSet(ss[i]) = S[i]  BY DEF Tells
<1>. DEFINE T == Seq(Sources)
<1>2. \A i \in 1 .. n : ss[i] \in T  BY <1>1
<1>. HIDE DEF T
<1>3. ss \in Seq(T) /\ DOMAIN ss = 1 .. n  BY <1>2, EachOf
<1>4. /\ FlattenSeq(ss) \in Seq(Sources)
      /\ ToSet(FlattenSeq(ss)) = UNION {ToSet(ss[i]) : i \in 1 .. n}
  BY <1>3, Flattened DEF T
<1>5. {ToSet(ss[i]) : i \in 1 .. n} = {S[i] : i \in 1 .. n}  BY <1>1
<1>. QED  BY <1>4, <1>5 DEF Tells

(* The scan of any request. *)
LEMMA ScanOf ==
    ASSUME NEW d, d.segments \in Seq(SegmentType)
    PROVE  \E n \in Nat :
              /\ n = IF Len(d.segments) <= MaxSegments THEN Len(d.segments) ELSE MaxSegments + 1
              /\ n <= Len(d.segments)
              /\ Len(Scan(d)) = n /\ DOMAIN Scan(d) = 1 .. n
              /\ \A i \in 1 .. n : Scan(d)[i] = d.segments[i] /\ d.segments[i] \in SegmentType
<1>1. PICK s : s = d.segments  OBVIOUS
<1>2. MaxSegments \in Nat /\ s \in Seq(SegmentType) /\ Len(s) \in Nat
  BY <1>1, ValidationAssumption
<1>3. PICK m : m = IF Len(s) <= MaxSegments THEN Len(s) ELSE MaxSegments + 1  OBVIOUS
<1>4. m \in Nat /\ m <= Len(s)  BY <1>2, <1>3
<1>5. Scan(d) = SubSeq(s, 1, m)  BY <1>1, <1>3 DEF Scan
<1>6. /\ Len(SubSeq(s, 1, m)) = m /\ DOMAIN SubSeq(s, 1, m) = 1 .. m
      /\ \A i \in 1 .. m : SubSeq(s, 1, m)[i] = s[i] /\ s[i] \in SegmentType
  BY <1>2, <1>4
<1>. QED  BY <1>1, <1>3, <1>4, <1>5, <1>6

(* The repeats that are reported, each with its kind. *)
LEMMA RepeatsReported ==
    ASSUME NEW d, d.segments \in Seq(SegmentType), NEW p, NEW n \in Nat, DOMAIN Scan(d) = 1 .. n
    PROVE  /\ ForbiddenRepeats(d, p) \in Seq(RepeatType(n))
           /\ \A r : r \in ToSet(ForbiddenRepeats(d, p)) <=>
                \E i \in 1 .. n : \E j \in 1 .. i - 1 :
                    Forbidden(Scan(d), p, j, i) /\ r = [at |-> i, consecutive |-> j + 1 = i]
<1>. DEFINE s == Scan(d)
            T == RepeatType(n)
            note(j, i) == [at |-> i, consecutive |-> j + 1 = i]
            pair(j, i) == IF Forbidden(s, p, j, i) THEN <<note(j, i)>> ELSE <<>>
            row(i) == [j \in 1 .. i - 1 |-> pair(j, i)]
            rows == [i \in DOMAIN s |-> FlattenSeq(row(i))]
<1>1. ForbiddenRepeats(d, p) = FlattenSeq(rows)  BY DEF ForbiddenRepeats, Forbidden
<1>2. ASSUME NEW i \in 1 .. n, NEW j \in 1 .. i - 1
      PROVE  pair(j, i) \in Seq(T) /\ \A r : r \in ToSet(pair(j, i)) <=>
                                                Forbidden(s, p, j, i) /\ r = note(j, i)
  <2>1. PICK x : x = note(j, i)  OBVIOUS
  <2>2. x \in T  BY <2>1 DEF RepeatType
  <2>. HIDE DEF T
  <2>3. <<x>> \in Seq(T) /\ <<>> \in Seq(T) /\ ToSet(<<x>>) = {x} /\ ToSet(<<>>) = {}
    BY <2>2 DEF ToSet
  <2>4. pair(j, i) = IF Forbidden(s, p, j, i) THEN <<x>> ELSE <<>>  BY <2>1
  <2>. HIDE DEF pair, note, s
  <2>5. CASE Forbidden(s, p, j, i)  BY <2>1, <2>3, <2>4, <2>5
  <2>6. CASE ~ Forbidden(s, p, j, i)  BY <2>1, <2>3, <2>4, <2>6
  <2>. QED  BY <2>5, <2>6
<1>. HIDE DEF pair, note, s, T
<1>3. ASSUME NEW i \in 1 .. n
      PROVE  /\ FlattenSeq(row(i)) \in Seq(T)
             /\ \A r : r \in ToSet(FlattenSeq(row(i))) <=>
                          \E j \in 1 .. i - 1 : Forbidden(s, p, j, i) /\ r = note(j, i)
  <2>1. i - 1 \in Nat  OBVIOUS
  <2>2. PICK ss : ss = row(i)  OBVIOUS
  <2>3. /\ ss = [j \in 1 .. i - 1 |-> ss[j]] /\ DOMAIN ss = 1 .. i - 1
        /\ \A j \in 1 .. i - 1 : ss[j] = pair(j, i)
    BY <2>2
  <2>4. \A j \in 1 .. i - 1 : ss[j] \in Seq(T)  BY <1>2, <2>3
  <2>. DEFINE U == Seq(T)
  <2>. HIDE DEF U
  <2>5. ss \in Seq(U)  BY <2>1, <2>3, <2>4, EachOf DEF U
  <2>6. /\ FlattenSeq(ss) \in Seq(T)
        /\ ToSet(FlattenSeq(ss)) = UNION {ToSet(ss[j]) : j \in 1 .. i - 1}
    BY <2>3, <2>5, Flattened DEF U
  <2>7. \A r : r \in ToSet(FlattenSeq(ss)) <=> \E j \in 1 .. i - 1 : r \in ToSet(ss[j])  BY <2>6
  <2>. HIDE DEF row
  <2>. QED  BY <1>2, <2>2, <2>3, <2>6, <2>7
<1>. HIDE DEF row
<1>4. /\ rows = [i \in 1 .. n |-> rows[i]] /\ DOMAIN rows = 1 .. n
      /\ \A i \in 1 .. n : rows[i] = FlattenSeq(row(i))
  BY DEF s
<1>. HIDE DEF rows
<1>5. \A i \in 1 .. n : rows[i] \in Seq(T)  BY <1>3, <1>4
<1>. DEFINE U == Seq(T)
<1>. HIDE DEF U
<1>6. rows \in Seq(U)  BY <1>4, <1>5, EachOf DEF U
<1>7. /\ FlattenSeq(rows) \in Seq(T)
      /\ ToSet(FlattenSeq(rows)) = UNION {ToSet(rows[i]) : i \in 1 .. n}
  BY <1>4, <1>6, Flattened DEF U
<1>8. \A r : r \in ToSet(FlattenSeq(rows)) <=> \E i \in 1 .. n : r \in ToSet(rows[i])  BY <1>7
<1>9. \A r : r \in ToSet(FlattenSeq(rows)) <=>
         \E i \in 1 .. n : \E j \in 1 .. i - 1 : Forbidden(s, p, j, i) /\ r = note(j, i)
  BY <1>3, <1>4, <1>8
<1>. QED  BY <1>1, <1>7, <1>9 DEF T, s, note

(* What the library tells of one segment, without evidence. *)
ProfileTold(p, s, index) ==
    Emit(s.kind \notin p.kinds, "ProfileKindNotAllowed", index, KindCode[s.kind])
    \cup Emit(s.kind = "Invalid", "ProfileKindMismatch", index, KindCode[s.kind])
    \cup Emit(Len(s.payload) > p.payload_width, "ProfilePayloadWidthExceeded", index,
              p.payload_width)

ShapeTold(s, index) ==
    IF s.kind = "Invalid"
    THEN {Reason("SegmentKindInvalid", index, 0)}
    ELSE Emit(s.id = 0, "SegmentIdInvalid", index, 0)
         \cup Emit(s.gen = 0, "SegmentGenerationInvalid", index, 0)
         \cup Emit(s.encoding \notin {"Invalid", s.kind},
                   "SegmentEncodingMismatch", index, KindCode[s.encoding])
         \cup Emit(~ Required[s.kind] \subseteq s.fields, "SegmentBindingIncomplete", index, 0)
         \cup Emit(~ s.fields \subseteq Required[s.kind], "SegmentReservedFieldSet", index, 0)
         \cup Emit(s.fields \cap EntityFields = {}, "SegmentMissingBinding", index, 0)

(* The checks of one segment tell it. *)
LEMMA SegmentTells ==
    ASSUME NEW p, p.payload_width \in Nat, NEW s \in SegmentType, NEW index \in Nat
    PROVE  /\ Tells(profile_segment(p, s, index), ProfileTold(p, s, index))
           /\ Tells(structural_shape(s, index), ShapeTold(s, index))
<1>1. 0 \in Nat /\ KindCode[s.kind] \in Nat /\ KindCode[s.encoding] \in Nat  BY SegmentIs
<1>2. /\ "ProfileKindNotAllowed" \in ReasonNames /\ "ProfileKindMismatch" \in ReasonNames
      /\ "ProfilePayloadWidthExceeded" \in ReasonNames /\ "SegmentKindInvalid" \in ReasonNames
      /\ "SegmentIdInvalid" \in ReasonNames /\ "SegmentGenerationInvalid" \in ReasonNames
      /\ "SegmentEncodingMismatch" \in ReasonNames /\ "SegmentBindingIncomplete" \in ReasonNames
      /\ "SegmentReservedFieldSet" \in ReasonNames /\ "SegmentMissingBinding" \in ReasonNames
  BY SequenceNames
<1>3. Tells(profile_segment(p, s, index), ProfileTold(p, s, index))
  <2>. DEFINE a == If(s.kind \notin p.kinds, "ProfileKindNotAllowed", index, KindCode[s.kind])
              b == If(s.kind = "Invalid", "ProfileKindMismatch", index, KindCode[s.kind])
              c == If(Len(s.payload) > p.payload_width, "ProfilePayloadWidthExceeded", index,
                      p.payload_width)
              A == Emit(s.kind \notin p.kinds, "ProfileKindNotAllowed", index, KindCode[s.kind])
              B == Emit(s.kind = "Invalid", "ProfileKindMismatch", index, KindCode[s.kind])
              C == Emit(Len(s.payload) > p.payload_width, "ProfilePayloadWidthExceeded", index,
                        p.payload_width)
  <2>1. Tells(a, A)  BY <1>1, <1>2, TellsIf, Zenon
  <2>2. Tells(b, B)  BY <1>1, <1>2, TellsIf, Zenon
  <2>3. Tells(c, C)  BY <1>1, <1>2, TellsIf, Zenon
  <2>4. profile_segment(p, s, index) = (a \o b) \o c  BY DEF profile_segment
  <2>5. ProfileTold(p, s, index) = (A \cup B) \cup C  BY DEF ProfileTold
  <2>. HIDE DEF a, b, c, A, B, C
  <2>6. Tells(a \o b, A \cup B)  BY <2>1, <2>2, TellsBoth
  <2>7. Tells((a \o b) \o c, (A \cup B) \cup C)  BY <2>3, <2>6, TellsBoth
  <2>. QED  BY <2>4, <2>5, <2>7
<1>4. CASE s.kind = "Invalid"
  <2>1. PICK x : x = Reason("SegmentKindInvalid", index, 0)  OBVIOUS
  <2>2. x \in Sources  BY <1>1, <1>2, <2>1, NamedReason
  <2>3. <<x>> \in Seq(Sources) /\ ToSet(<<x>>) = {x}  BY <2>2 DEF ToSet
  <2>. QED  BY <1>3, <1>4, <2>1, <2>3 DEF Tells, structural_shape, ShapeTold
<1>5. CASE s.kind # "Invalid"
  <2>. DEFINE a == If(s.id = 0, "SegmentIdInvalid", index, 0)
              b == If(s.gen = 0, "SegmentGenerationInvalid", index, 0)
              c == If(s.encoding \notin {"Invalid", s.kind}, "SegmentEncodingMismatch", index,
                      KindCode[s.encoding])
              e == If(~ Required[s.kind] \subseteq s.fields, "SegmentBindingIncomplete", index, 0)
              f == If(~ s.fields \subseteq Required[s.kind], "SegmentReservedFieldSet", index, 0)
              g == If(s.fields \cap EntityFields = {}, "SegmentMissingBinding", index, 0)
              A == Emit(s.id = 0, "SegmentIdInvalid", index, 0)
              B == Emit(s.gen = 0, "SegmentGenerationInvalid", index, 0)
              C == Emit(s.encoding \notin {"Invalid", s.kind}, "SegmentEncodingMismatch", index,
                        KindCode[s.encoding])
              E == Emit(~ Required[s.kind] \subseteq s.fields, "SegmentBindingIncomplete", index, 0)
              F == Emit(~ s.fields \subseteq Required[s.kind], "SegmentReservedFieldSet", index, 0)
              G == Emit(s.fields \cap EntityFields = {}, "SegmentMissingBinding", index, 0)
  <2>1. Tells(a, A)  BY <1>1, <1>2, TellsIf, Zenon
  <2>2. Tells(b, B)  BY <1>1, <1>2, TellsIf, Zenon
  <2>3. Tells(c, C)  BY <1>1, <1>2, TellsIf, Zenon
  <2>4. Tells(e, E)  BY <1>1, <1>2, TellsIf, Zenon
  <2>5. Tells(f, F)  BY <1>1, <1>2, TellsIf, Zenon
  <2>6. Tells(g, G)  BY <1>1, <1>2, TellsIf, Zenon
  <2>7. structural_shape(s, index) = a \o b \o c \o e \o f \o g  BY <1>5 DEF structural_shape
  <2>8. ShapeTold(s, index) = A \cup B \cup C \cup E \cup F \cup G  BY <1>5 DEF ShapeTold
  <2>. HIDE DEF a, b, c, e, f, g, A, B, C, E, F, G
  <2>9. Tells(a \o b, A \cup B)  BY <2>1, <2>2, TellsBoth
  <2>10. Tells(a \o b \o c, A \cup B \cup C)  BY <2>3, <2>9, TellsBoth
  <2>11. Tells(a \o b \o c \o e, A \cup B \cup C \cup E)  BY <2>4, <2>10, TellsBoth
  <2>12. Tells(a \o b \o c \o e \o f, A \cup B \cup C \cup E \cup F)  BY <2>5, <2>11, TellsBoth
  <2>13. Tells(a \o b \o c \o e \o f \o g, A \cup B \cup C \cup E \cup F \cup G)
    BY <2>6, <2>12, TellsBoth
  <2>. QED  BY <1>3, <2>7, <2>8, <2>13
<1>. QED  BY <1>4, <1>5

(* A reason for every repeat that is reported. *)
LEMMA TellsEach ==
    ASSUME NEW n \in Nat, NEW rs \in Seq(RepeatType(n)), NEW h,
           h = [k \in DOMAIN rs |-> h[k]], \A k \in DOMAIN rs : h[k] \in Sources
    PROVE  Tells(h, {h[k] : k \in DOMAIN rs})
<1>1. PICK m \in Nat : DOMAIN rs = 1 .. m  BY DOMAIN rs = 1 .. Len(rs) /\ Len(rs) \in Nat
<1>2. h \in Seq(Sources) /\ DOMAIN h = 1 .. m  BY <1>1, EachOf
<1>. QED  BY <1>1, <1>2 DEF Tells, ToSet

(* Whether the library finds that a segment repeats an earlier one: any,   *)
(* the one right before, or another.                                       *)
Forbids(q, j, i) == Forbidden(q.segments, q.profile, j, i)
RepeatsAny(q, i) == \E j \in 1 .. i - 1 : Forbids(q, j, i)
RepeatsLast(q, i) == \E j \in 1 .. i - 1 : j + 1 = i /\ Forbids(q, j, i)
RepeatsOther(q, i) == \E j \in 1 .. i - 1 : j + 1 # i /\ Forbids(q, j, i)

RepeatTold(q, i) ==
    Emit(RepeatsAny(q, i), "ProfileRepeatNotPermitted", i - 1, q.segments[i].id)

DuplicateTold(q, i) ==
    Emit(RepeatsLast(q, i), "SegmentDuplicateConsecutive", i - 1, q.segments[i].id)
    \cup Emit(RepeatsOther(q, i), "SegmentDuplicateNonConsecutive", i - 1, q.segments[i].id)

(* What is known of a scenario. *)
LEMMA ScenarioIs ==
    ASSUME NEW q, Scenario(q)
    PROVE  /\ q.profile # None /\ q.profile.gen \in Nat /\ q.profile.payload_width \in Nat
           /\ q.profile.max_depth \in Nat /\ q.profile.kinds \subseteq SegmentKind
           /\ q.profile.empty \in BOOLEAN /\ q.profile.consecutive \in BOOLEAN
           /\ q.profile.nonconsecutive \in BOOLEAN
           /\ q.reqcaps \in Nat /\ q.segments \in Seq(SegmentType) /\ Len(q.segments) \in Nat
           /\ DOMAIN q.segments = 1 .. Len(q.segments)
           /\ \A i \in 1 .. Len(q.segments) : q.segments[i] \in SegmentType
<1>1. PICK p : p = q.profile  OBVIOUS
<1>2. [p EXCEPT !.gen = 1] \in ProfileType  BY <1>1 DEF Scenario
<1>3. PICK r \in ProfileType : r = [p EXCEPT !.gen = 1]  BY <1>2
<1>4. DOMAIN r = DOMAIN p  BY <1>3
<1>5. DOMAIN r = {"id", "gen", "kinds", "max_depth", "payload_width", "empty", "consecutive",
                  "nonconsecutive", "loose", "capabilities"}
  BY DEF ProfileType
<1>6. /\ r.payload_width = p.payload_width /\ r.max_depth = p.max_depth /\ r.kinds = p.kinds
      /\ r.empty = p.empty /\ r.consecutive = p.consecutive
      /\ r.nonconsecutive = p.nonconsecutive
  BY <1>3, <1>4, <1>5
<1>7. /\ r.payload_width \in Nat /\ r.max_depth \in Nat /\ r.kinds \subseteq SegmentKind
      /\ r.empty \in BOOLEAN /\ r.consecutive \in BOOLEAN /\ r.nonconsecutive \in BOOLEAN
  BY DEF ProfileType
<1>8. q.segments \in Seq(SegmentType)  BY DEF Scenario
<1>9. /\ Len(q.segments) \in Nat /\ DOMAIN q.segments = 1 .. Len(q.segments)
      /\ \A i \in 1 .. Len(q.segments) : q.segments[i] \in SegmentType
  BY <1>8
<1>10. q.profile # None /\ q.profile.gen \in Nat /\ q.reqcaps \in Nat  BY DEF Scenario
<1>. QED  BY <1>1, <1>6, <1>7, <1>8, <1>9, <1>10, Zenon

(* The two scan the same segments. *)
LEMMA ScannedIs ==
    ASSUME NEW q, Scenario(q)
    PROVE  \E n \in Nat :
              /\ n = scannedCount(q) /\ n <= Len(q.segments) /\ n <= MaxSegments + 1
              /\ n < Len(q.segments) => Len(q.segments) > MaxSegments
              /\ n < Len(q.segments) => n = MaxSegments + 1
              /\ DOMAIN Scan(SequenceRequest(q)) = 1 .. n
              /\ \A i \in 1 .. n : /\ Scan(SequenceRequest(q))[i] = q.segments[i]
                                   /\ q.segments[i] \in SegmentType
<1>1. PICK d : d = SequenceRequest(q)  OBVIOUS
<1>2. d.segments = q.segments  BY <1>1 DEF SequenceRequest
<1>3. q.segments \in Seq(SegmentType) /\ Len(q.segments) \in Nat /\ MaxSegments \in Nat
  BY ScenarioIs, ValidationAssumption
<1>4. PICK n \in Nat :
         /\ n = IF Len(q.segments) <= MaxSegments THEN Len(q.segments) ELSE MaxSegments + 1
         /\ n <= Len(q.segments) /\ DOMAIN Scan(d) = 1 .. n
         /\ \A i \in 1 .. n : Scan(d)[i] = q.segments[i] /\ q.segments[i] \in SegmentType
  BY <1>2, <1>3, ScanOf
<1>5. scannedCount(q) = n
  <2>1. PICK S : S = {Len(q.segments), MaxSegments + 1}  OBVIOUS
  <2>2. S \in SUBSET Nat /\ S # {}  BY <1>3, <2>1
  <2>3. Min(S) \in S /\ \A x \in S : Min(S) <= x  BY <2>2, MinIs
  <2>. QED  BY <1>3, <1>4, <2>1, <2>3 DEF scannedCount
<1>. QED  BY <1>1, <1>3, <1>4, <1>5

(* The repeats that are found in a scenario, and the reasons for them. *)
Reporting(q, n, d, s, rs, g, h) ==
    /\ Scenario(q) /\ d = SequenceRequest(q) /\ s = Scan(d) /\ DOMAIN s = 1 .. n
    /\ \A i \in 1 .. n : s[i] = q.segments[i] /\ q.segments[i] \in SegmentType
    /\ rs = ForbiddenRepeats(d, q.profile)
    /\ g = [k \in DOMAIN rs |->
               Reason("ProfileRepeatNotPermitted", rs[k].at - 1, s[rs[k].at].id)]
    /\ h = [k \in DOMAIN rs |->
               Reason(IF rs[k].consecutive THEN "SegmentDuplicateConsecutive"
                                           ELSE "SegmentDuplicateNonConsecutive",
                      rs[k].at - 1, s[rs[k].at].id)]

(* The reasons for the repeats, in the two phases. *)
LEMMA RepeatsTell ==
    ASSUME NEW q, NEW n \in Nat, NEW d, NEW s, NEW rs, NEW g, NEW h,
           Reporting(q, n, d, s, rs, g, h)
    PROVE  /\ Tells(g, UNION {RepeatTold(q, i) : i \in 1 .. n})
           /\ Tells(h, UNION {DuplicateTold(q, i) : i \in 1 .. n})
<1>0. d.segments = q.segments /\ Scenario(q)  BY DEF Reporting, SequenceRequest
<1>1. /\ rs \in Seq(RepeatType(n))
      /\ \A r : r \in ToSet(rs) <=>
           \E i \in 1 .. n : \E j \in 1 .. i - 1 :
               Forbidden(s, q.profile, j, i) /\ r = [at |-> i, consecutive |-> j + 1 = i]
  <2>1. d.segments \in Seq(SegmentType)  BY <1>0, ScenarioIs
  <2>2. rs = ForbiddenRepeats(d, q.profile) /\ s = Scan(d) /\ DOMAIN s = 1 .. n  BY DEF Reporting
  <2>. QED  BY <2>1, <2>2, RepeatsReported
<1>2. \A i \in 1 .. n : \A j \in 1 .. i - 1 : Forbidden(s, q.profile, j, i) <=> Forbids(q, j, i)
  <2>1. \A i \in 1 .. n : \A j \in 1 .. i - 1 : j \in 1 .. n  OBVIOUS
  <2>2. \A i \in 1 .. n : s[i] = q.segments[i]  BY DEF Reporting
  <2>. QED  BY <2>1, <2>2 DEF Forbidden, Forbids
<1>3. \A r : r \in ToSet(rs) <=>
        \E i \in 1 .. n : \E j \in 1 .. i - 1 :
            Forbids(q, j, i) /\ r = [at |-> i, consecutive |-> j + 1 = i]
  BY <1>1, <1>2
<1>4. \A k \in DOMAIN rs : rs[k] \in RepeatType(n)  BY <1>1
<1>5. \A k \in DOMAIN rs : rs[k].at \in 1 .. n /\ rs[k].consecutive \in BOOLEAN
  BY <1>4 DEF RepeatType
<1>. DEFINE x(i) == Reason("ProfileRepeatNotPermitted", i - 1, q.segments[i].id)
            y(i) == Reason("SegmentDuplicateConsecutive", i - 1, q.segments[i].id)
            z(i) == Reason("SegmentDuplicateNonConsecutive", i - 1, q.segments[i].id)
<1>6. \A i \in 1 .. n : x(i) \in Sources /\ y(i) \in Sources /\ z(i) \in Sources
  <2>. SUFFICES ASSUME NEW i \in 1 .. n PROVE x(i) \in Sources /\ y(i) \in Sources /\ z(i) \in Sources
    OBVIOUS
  <2>0. q.segments[i] \in SegmentType  BY DEF Reporting
  <2>1. i - 1 \in Nat /\ q.segments[i].id \in Nat  BY <2>0, SegmentIs
  <2>2. /\ "ProfileRepeatNotPermitted" \in ReasonNames /\ "SegmentDuplicateConsecutive" \in ReasonNames
        /\ "SegmentDuplicateNonConsecutive" \in ReasonNames
    BY SequenceNames
  <2>. QED  BY <2>1, <2>2, NamedReason
<1>7. \A k \in DOMAIN rs : g[k] = x(rs[k].at)  BY <1>5 DEF Reporting
<1>8. \A k \in DOMAIN rs : h[k] = IF rs[k].consecutive THEN y(rs[k].at) ELSE z(rs[k].at)
  BY <1>5 DEF Reporting
<1>9. g = [k \in DOMAIN rs |-> g[k]] /\ h = [k \in DOMAIN rs |-> h[k]]  BY DEF Reporting
<1>10. ToSet(rs) = {rs[k] : k \in DOMAIN rs}  BY DEF ToSet
<1>11. /\ \A r : r \in UNION {RepeatTold(q, i) : i \in 1 .. n} <=>
                    \E i \in 1 .. n : RepeatsAny(q, i) /\ r = x(i)
       /\ \A r : r \in UNION {DuplicateTold(q, i) : i \in 1 .. n} <=>
                    \E i \in 1 .. n : \/ RepeatsLast(q, i) /\ r = y(i)
                                      \/ RepeatsOther(q, i) /\ r = z(i)
  <2>0. \A i : /\ RepeatsAny(q, i) \in BOOLEAN /\ RepeatsLast(q, i) \in BOOLEAN
               /\ RepeatsOther(q, i) \in BOOLEAN
    BY DEF RepeatsAny, RepeatsLast, RepeatsOther
  <2>1. \A i : \A r : r \in RepeatTold(q, i) <=> RepeatsAny(q, i) /\ r = x(i)
    BY <2>0, EmitIs, Zenon DEF RepeatTold
  <2>2. \A i : \A r : r \in Emit(RepeatsLast(q, i), "SegmentDuplicateConsecutive", i - 1,
                                 q.segments[i].id) <=> RepeatsLast(q, i) /\ r = y(i)
    BY <2>0, EmitIs, Zenon
  <2>3. \A i : \A r : r \in Emit(RepeatsOther(q, i), "SegmentDuplicateNonConsecutive", i - 1,
                                 q.segments[i].id) <=> RepeatsOther(q, i) /\ r = z(i)
    BY <2>0, EmitIs, Zenon
  <2>4. \A i : \A r : r \in DuplicateTold(q, i) <=>
                         \/ RepeatsLast(q, i) /\ r = y(i)
                         \/ RepeatsOther(q, i) /\ r = z(i)
    BY <2>2, <2>3, Zenon DEF DuplicateTold
  <2>. HIDE DEF x, y, z
  <2>. QED  BY <2>1, <2>4
<1>. HIDE DEF x, y, z
<1>12. \A k \in DOMAIN rs : g[k] \in Sources /\ h[k] \in Sources  BY <1>5, <1>6, <1>7, <1>8
<1>13. Tells(g, {g[k] : k \in DOMAIN rs}) /\ Tells(h, {h[k] : k \in DOMAIN rs})
  <2>1. rs \in Seq(RepeatType(n))  BY <1>1
  <2>2. Tells(g, {g[k] : k \in DOMAIN rs})  BY <1>9, <1>12, <2>1, TellsEach
  <2>3. Tells(h, {h[k] : k \in DOMAIN rs})  BY <1>9, <1>12, <2>1, TellsEach
  <2>. QED  BY <2>2, <2>3
<1>14. \A r : (\E k \in DOMAIN rs : rs[k] = r) <=>
         \E i \in 1 .. n : \E j \in 1 .. i - 1 :
            Forbids(q, j, i) /\ r = [at |-> i, consecutive |-> j + 1 = i]
  BY <1>3, <1>10
<1>15. {g[k] : k \in DOMAIN rs} = UNION {RepeatTold(q, i) : i \in 1 .. n}
  <2>1. ASSUME NEW k \in DOMAIN rs PROVE \E i \in 1 .. n : RepeatsAny(q, i) /\ g[k] = x(i)
    <3>1. PICK i \in 1 .. n, j \in 1 .. n :
             j \in 1 .. i - 1 /\ Forbids(q, j, i) /\ rs[k] = [at |-> i, consecutive |-> j + 1 = i]
      BY <1>14
    <3>. QED  BY <1>7, <3>1 DEF RepeatsAny
  <2>2. ASSUME NEW i \in 1 .. n, RepeatsAny(q, i) PROVE \E k \in DOMAIN rs : g[k] = x(i)
    <3>1. PICK j \in 1 .. i - 1 : Forbids(q, j, i)  BY <2>2 DEF RepeatsAny
    <3>2. PICK k \in DOMAIN rs : rs[k] = [at |-> i, consecutive |-> j + 1 = i]  BY <1>14, <3>1
    <3>. QED  BY <1>7, <3>2
  <2>. QED  BY <1>11, <2>1, <2>2
<1>16. {h[k] : k \in DOMAIN rs} = UNION {DuplicateTold(q, i) : i \in 1 .. n}
  <2>1. ASSUME NEW k \in DOMAIN rs
        PROVE  \E i \in 1 .. n : \/ RepeatsLast(q, i) /\ h[k] = y(i)
                                 \/ RepeatsOther(q, i) /\ h[k] = z(i)
    <3>1. PICK i \in 1 .. n, j \in 1 .. n :
             j \in 1 .. i - 1 /\ Forbids(q, j, i) /\ rs[k] = [at |-> i, consecutive |-> j + 1 = i]
      BY <1>14
    <3>2. rs[k].at = i /\ rs[k].consecutive = (j + 1 = i)  BY <3>1
    <3>3. CASE j + 1 = i
      <4>1. rs[k].consecutive  BY <3>2, <3>3
      <4>. QED  BY <1>8, <3>1, <3>2, <3>3, <4>1 DEF RepeatsLast
    <3>4. CASE j + 1 # i
      <4>1. ~ rs[k].consecutive  BY <3>2, <3>4
      <4>. QED  BY <1>8, <3>1, <3>2, <3>4, <4>1 DEF RepeatsOther
    <3>. QED  BY <3>3, <3>4
  <2>2. ASSUME NEW i \in 1 .. n, RepeatsLast(q, i) PROVE \E k \in DOMAIN rs : h[k] = y(i)
    <3>1. PICK j \in 1 .. i - 1 : j + 1 = i /\ Forbids(q, j, i)  BY <2>2 DEF RepeatsLast
    <3>2. PICK k \in DOMAIN rs : rs[k] = [at |-> i, consecutive |-> j + 1 = i]  BY <1>14, <3>1
    <3>3. rs[k].at = i /\ rs[k].consecutive = (j + 1 = i)  BY <3>2
    <3>4. rs[k].consecutive <=> j + 1 = i  BY <3>3
    <3>. QED  BY <1>8, <3>1, <3>3, <3>4
  <2>3. ASSUME NEW i \in 1 .. n, RepeatsOther(q, i) PROVE \E k \in DOMAIN rs : h[k] = z(i)
    <3>1. PICK j \in 1 .. i - 1 : j + 1 # i /\ Forbids(q, j, i)  BY <2>3 DEF RepeatsOther
    <3>2. PICK k \in DOMAIN rs : rs[k] = [at |-> i, consecutive |-> j + 1 = i]  BY <1>14, <3>1
    <3>3. rs[k].at = i /\ rs[k].consecutive = (j + 1 = i)  BY <3>2
    <3>4. rs[k].consecutive <=> j + 1 = i  BY <3>3
    <3>. QED  BY <1>8, <3>1, <3>3, <3>4
  <2>. QED  BY <1>11, <2>1, <2>2, <2>3
<1>. QED  BY <1>13, <1>15, <1>16

(* What the library tells of a scenario, check by check. *)
PayloadTold(q, i) ==
    Emit(Len(q.segments[i].payload) > MaxPayload, "LimitMaxSegmentPayloadBytes", i - 1, MaxPayload)

ProfilesTold(q) == UNION {ProfileTold(q.profile, q.segments[i], i - 1) : i \in 1 .. scannedCount(q)}
RepeatsTold(q) == UNION {RepeatTold(q, i) : i \in 1 .. scannedCount(q)}
ShapesTold(q) == UNION {ShapeTold(q.segments[i], i - 1) : i \in 1 .. scannedCount(q)}
DuplicatesTold(q) == UNION {DuplicateTold(q, i) : i \in 1 .. scannedCount(q)}
PayloadsTold(q) == UNION {PayloadTold(q, i) : i \in 1 .. Len(q.segments)}
ListEmptyTold(q) == Emit(q.segments = <<>> /\ ~ q.profile.empty, "ListEmptyNotPermitted", 0, 0)
GenerationTold(q) == Emit(q.profile.gen = 0, "ProfileGenerationInvalid", 0, 0)
ProfileEmptyTold(q) ==
    Emit(~ q.profile.empty /\ q.segments = <<>>, "ProfileEmptyNotPermitted", 0, 0)
DepthTold(q) ==
    Emit(Len(q.segments) > q.profile.max_depth, "ProfileMaxDepthExceeded", 0, q.profile.max_depth)
CapabilityTold(q) == Emit(q.reqcaps > 0, "CapabilityEvidenceUnavailable", 0, 0)
TopologyTold(q) ==
    Emit(\E s \in ToSet(q.segments) : s.kind = "Adjacency", "TopologyEvidenceUnavailable", 0, 0)
LimitTold(q) == Emit(Len(q.segments) > MaxSegments, "LimitMaxSegmentsPerList", 0, MaxSegments)

(* All that the library tells of a scenario: once, of each segment it      *)
(* scans, and of each payload.                                             *)
LibraryOnce(q) ==
    ListEmptyTold(q) \cup GenerationTold(q) \cup ProfileEmptyTold(q) \cup DepthTold(q)
    \cup CapabilityTold(q) \cup TopologyTold(q) \cup LimitTold(q)

LibraryAt(q, i) ==
    ProfileTold(q.profile, q.segments[i], i - 1) \cup RepeatTold(q, i)
    \cup ShapeTold(q.segments[i], i - 1) \cup DuplicateTold(q, i)

LibraryTold(q) ==
    LibraryOnce(q)
    \cup (UNION {LibraryAt(q, i) : i \in 1 .. scannedCount(q)})
    \cup UNION {PayloadTold(q, i) : i \in 1 .. Len(q.segments)}

(* The checks that look at the scanned segments. *)
LEMMA ScanTells ==
    ASSUME NEW q, Scenario(q), NEW d, d = SequenceRequest(q), NEW p, p = q.profile
    PROVE  /\ Tells(check_profile(d, p),
                    GenerationTold(q) \cup ProfileEmptyTold(q) \cup DepthTold(q)
                    \cup ProfilesTold(q) \cup RepeatsTold(q))
           /\ Tells(structural(d, p, structural_shape), ShapesTold(q) \cup DuplicatesTold(q))
<1>. DEFINE s == Scan(d)
            rs == ForbiddenRepeats(d, p)
            name(r) == IF r.consecutive THEN "SegmentDuplicateConsecutive"
                                        ELSE "SegmentDuplicateNonConsecutive"
            a == If(p.gen = 0, "ProfileGenerationInvalid", 0, 0)
            b == If(d.profile_generation \notin {0, p.gen}, "ProfileGenerationMismatch", 0, p.gen)
            c == If(~ p.empty /\ d.segments = <<>>, "ProfileEmptyNotPermitted", 0, 0)
            e == If(d.strictness = "Loose" /\ ~ p.loose, "ProfileStrictnessUnsupported", 0, 0)
            f == If(Len(d.segments) > p.max_depth, "ProfileMaxDepthExceeded", 0, p.max_depth)
            ps == [i \in DOMAIN s |-> profile_segment(p, s[i], i - 1)]
            ss == [i \in DOMAIN s |-> structural_shape(s[i], i - 1)]
            g == [k \in DOMAIN rs |->
                     Reason("ProfileRepeatNotPermitted", rs[k].at - 1, s[rs[k].at].id)]
            h == [k \in DOMAIN rs |-> Reason(name(rs[k]), rs[k].at - 1, s[rs[k].at].id)]
<1>1. PICK n \in Nat :
         /\ n = scannedCount(q) /\ DOMAIN s = 1 .. n
         /\ \A i \in 1 .. n : s[i] = q.segments[i] /\ q.segments[i] \in SegmentType
  BY ScannedIs
<1>2. p # None /\ p.gen \in Nat /\ p.max_depth \in Nat /\ p.payload_width \in Nat  BY ScenarioIs
<1>3. check_profile(d, p) = a \o b \o c \o e \o f \o FlattenSeq(ps) \o g
  BY <1>2 DEF check_profile
<1>4. structural(d, p, structural_shape) = FlattenSeq(ss) \o h  BY DEF structural
<1>5. d.segments = q.segments /\ d.profile_generation = 0 /\ d.strictness = "Strict"
  BY DEF SequenceRequest
<1>6. /\ "ProfileGenerationInvalid" \in ReasonNames /\ "ProfileEmptyNotPermitted" \in ReasonNames
      /\ "ProfileMaxDepthExceeded" \in ReasonNames /\ 0 \in Nat
  BY SequenceNames
<1>. DEFINE A == Emit(p.gen = 0, "ProfileGenerationInvalid", 0, 0)
            C == Emit(~ p.empty /\ q.segments = <<>>, "ProfileEmptyNotPermitted", 0, 0)
            F == Emit(Len(q.segments) > p.max_depth, "ProfileMaxDepthExceeded", 0, p.max_depth)
            P == [i \in 1 .. n |-> ProfileTold(p, q.segments[i], i - 1)]
            S == [i \in 1 .. n |-> ShapeTold(q.segments[i], i - 1)]
            G == UNION {RepeatTold(q, i) : i \in 1 .. n}
            H == UNION {DuplicateTold(q, i) : i \in 1 .. n}
<1>7. Tells(a, A)  BY <1>6, TellsIf, Zenon
<1>8. b = <<>>  BY <1>5 DEF If
<1>9. Tells(c, C)
  <2>1. c = If(~ p.empty /\ q.segments = <<>>, "ProfileEmptyNotPermitted", 0, 0)  BY <1>5
  <2>2. Tells(If(~ p.empty /\ q.segments = <<>>, "ProfileEmptyNotPermitted", 0, 0), C)
    BY <1>6, TellsIf, Zenon
  <2>. QED  BY <2>1, <2>2, Zenon
<1>10. e = <<>>  BY <1>5 DEF If
<1>11. Tells(f, F)
  <2>1. f = If(Len(q.segments) > p.max_depth, "ProfileMaxDepthExceeded", 0, p.max_depth)  BY <1>5
  <2>2. Tells(If(Len(q.segments) > p.max_depth, "ProfileMaxDepthExceeded", 0, p.max_depth), F)
    BY <1>2, <1>6, TellsIf, Zenon
  <2>. QED  BY <2>1, <2>2, Zenon
<1>12. /\ Tells(FlattenSeq(ps), UNION {P[i] : i \in 1 .. n})
       /\ Tells(FlattenSeq(ss), UNION {S[i] : i \in 1 .. n})
  <2>1. ASSUME NEW i \in 1 .. n PROVE Tells(ps[i], P[i]) /\ Tells(ss[i], S[i])
    <3>1. PICK x : x = q.segments[i]  OBVIOUS
    <3>2. x \in SegmentType /\ s[i] = x /\ i - 1 \in Nat  BY <1>1, <3>1
    <3>3. /\ Tells(profile_segment(p, x, i - 1), ProfileTold(p, x, i - 1))
          /\ Tells(structural_shape(x, i - 1), ShapeTold(x, i - 1))
      BY <1>2, <3>2, SegmentTells
    <3>4. ps[i] = profile_segment(p, x, i - 1) /\ ss[i] = structural_shape(x, i - 1)
      BY <1>1, <3>2
    <3>5. P[i] = ProfileTold(p, x, i - 1) /\ S[i] = ShapeTold(x, i - 1)  BY <3>1
    <3>. QED  BY <3>3, <3>4, <3>5, Zenon
  <2>2. ps = [i \in 1 .. n |-> ps[i]] /\ ss = [i \in 1 .. n |-> ss[i]]  BY <1>1
  <2>. HIDE DEF ps, ss, P, S
  <2>3. Tells(FlattenSeq(ps), UNION {P[i] : i \in 1 .. n})  BY <2>1, <2>2, TellsEverywhere
  <2>4. Tells(FlattenSeq(ss), UNION {S[i] : i \in 1 .. n})  BY <2>1, <2>2, TellsEverywhere
  <2>. QED  BY <2>3, <2>4
<1>13. Tells(g, G) /\ Tells(h, H)
  <2>1. Reporting(q, n, d, s, rs, g, h)  BY <1>1 DEF Reporting
  <2>. HIDE DEF s, rs, g, h
  <2>. QED  BY <2>1, RepeatsTell
<1>14. {P[i] : i \in 1 .. n} = {ProfileTold(p, q.segments[i], i - 1) : i \in 1 .. n}  OBVIOUS
<1>15. {S[i] : i \in 1 .. n} = {ShapeTold(q.segments[i], i - 1) : i \in 1 .. n}  OBVIOUS
<1>. DEFINE PP == UNION {P[i] : i \in 1 .. n}
            SS == UNION {S[i] : i \in 1 .. n}
            pp == FlattenSeq(ps)
            sp == FlattenSeq(ss)
<1>16. Tells(<<>>, {})  BY DEF Tells, ToSet
<1>17. Tells(pp, PP) /\ Tells(sp, SS)  BY <1>12
<1>18. check_profile(d, p) = a \o <<>> \o c \o <<>> \o f \o pp \o g
  BY <1>3, <1>8, <1>10, Zenon
<1>19. structural(d, p, structural_shape) = sp \o h  BY <1>4, Zenon
<1>. HIDE DEF A, C, F, PP, SS, pp, sp, G, H, a, b, c, e, f, g, h, ps, ss, P, S
<1>20. Tells(a \o <<>>, A \cup {})  BY <1>7, <1>16, TellsBoth
<1>21. Tells(a \o <<>> \o c, A \cup {} \cup C)  BY <1>9, <1>20, TellsBoth
<1>22. Tells(a \o <<>> \o c \o <<>>, A \cup {} \cup C \cup {})  BY <1>16, <1>21, TellsBoth
<1>23. Tells(a \o <<>> \o c \o <<>> \o f, A \cup {} \cup C \cup {} \cup F)  BY <1>11, <1>22, TellsBoth
<1>24. Tells(a \o <<>> \o c \o <<>> \o f \o pp, A \cup {} \cup C \cup {} \cup F \cup PP)
  BY <1>17, <1>23, TellsBoth
<1>25. Tells(a \o <<>> \o c \o <<>> \o f \o pp \o g, A \cup {} \cup C \cup {} \cup F \cup PP \cup G)
  BY <1>13, <1>24, TellsBoth
<1>26. A \cup {} \cup C \cup {} \cup F \cup PP \cup G = A \cup C \cup F \cup PP \cup G  OBVIOUS
<1>27. Tells(check_profile(d, p), A \cup C \cup F \cup PP \cup G)
  BY <1>18, <1>25, <1>26, Zenon
<1>28. Tells(structural(d, p, structural_shape), SS \cup H)
  BY <1>13, <1>17, <1>19, TellsBoth
<1>29. n = scannedCount(q)  BY <1>1
<1>30. PP = ProfilesTold(q)  BY <1>14, <1>29, Zenon DEF PP, ProfilesTold
<1>31. SS = ShapesTold(q)  BY <1>15, <1>29, Zenon DEF SS, ShapesTold
<1>32. G = RepeatsTold(q) /\ H = DuplicatesTold(q)
  BY <1>29, Zenon DEF G, H, RepeatsTold, DuplicatesTold
<1>33. A = GenerationTold(q) /\ C = ProfileEmptyTold(q) /\ F = DepthTold(q)
  BY Zenon DEF A, C, F, GenerationTold, ProfileEmptyTold, DepthTold
<1>. QED  BY <1>27, <1>28, <1>30, <1>31, <1>32, <1>33, Zenon

(* All of the library's checks. *)
LEMMA LibraryTells ==
    ASSUME NEW q, Scenario(q)
    PROVE  \E rs : Tells(rs, LibraryTold(q)) /\ validate_segment_sequence(q) = AddAll(Success, rs)
<1>. DEFINE d == SequenceRequest(q)
            p == q.profile
            n == scannedCount(q)
            a == check_list_content_lifecycle(d, p)
            b == check_profile(d, p)
            c == structural(d, p, structural_shape)
            e == capability_without_evidence(q)
            f == topology_without_evidence(q)
            g == If(Len(d.segments) > MaxSegments, "LimitMaxSegmentsPerList", 0, MaxSegments)
            ss == [i \in DOMAIN d.segments |->
                      If(Len(d.segments[i].payload) > MaxPayload,
                         "LimitMaxSegmentPayloadBytes", i - 1, MaxPayload)]
            h == FlattenSeq(ss)
            A == ListEmptyTold(q)
            B == GenerationTold(q) \cup ProfileEmptyTold(q) \cup DepthTold(q)
                 \cup ProfilesTold(q) \cup RepeatsTold(q)
            C == ShapesTold(q) \cup DuplicatesTold(q)
            E == CapabilityTold(q)
            F == TopologyTold(q)
            G == LimitTold(q)
            H == PayloadsTold(q)
            S == [i \in 1 .. Len(q.segments) |-> PayloadTold(q, i)]
<1>1. /\ "ListEmptyNotPermitted" \in ReasonNames /\ "CapabilityEvidenceUnavailable" \in ReasonNames
      /\ "TopologyEvidenceUnavailable" \in ReasonNames /\ "LimitMaxSegmentsPerList" \in ReasonNames
      /\ "LimitMaxSegmentPayloadBytes" \in ReasonNames /\ 0 \in Nat
  BY SequenceNames
<1>2. MaxSegments \in Nat /\ MaxPayload \in Nat  BY ValidationAssumption
<1>3. d.segments = q.segments  BY DEF SequenceRequest
<1>4. p # None /\ Len(q.segments) \in Nat /\ DOMAIN q.segments = 1 .. Len(q.segments)  BY ScenarioIs
<1>5. Tells(a, A)
  <2>1. a = If(q.segments = <<>> /\ ~ p.empty, "ListEmptyNotPermitted", 0, 0)
    BY <1>3, <1>4 DEF check_list_content_lifecycle, If
  <2>2. Tells(If(q.segments = <<>> /\ ~ p.empty, "ListEmptyNotPermitted", 0, 0), A)
    BY <1>1, TellsIf, Zenon DEF ListEmptyTold
  <2>. QED  BY <2>1, <2>2, Zenon
<1>6. Tells(b, B) /\ Tells(c, C)
  <2>1. PICK dd, pp : dd = d /\ pp = p  OBVIOUS
  <2>2. dd = SequenceRequest(q) /\ pp = q.profile  BY <2>1
  <2>3. Tells(check_profile(dd, pp), B) /\ Tells(structural(dd, pp, structural_shape), C)
    BY <2>2, ScanTells
  <2>. QED  BY <2>1, <2>3, Zenon
<1>7. Tells(e, E)  BY <1>1, TellsIf, Zenon DEF capability_without_evidence, CapabilityTold
<1>8. Tells(f, F)  BY <1>1, TellsIf, Zenon DEF topology_without_evidence, TopologyTold
<1>9. Tells(g, G)
  <2>1. g = If(Len(q.segments) > MaxSegments, "LimitMaxSegmentsPerList", 0, MaxSegments)  BY <1>3
  <2>2. Tells(If(Len(q.segments) > MaxSegments, "LimitMaxSegmentsPerList", 0, MaxSegments), G)
    BY <1>1, <1>2, TellsIf, Zenon DEF LimitTold
  <2>. QED  BY <2>1, <2>2, Zenon
<1>10. Tells(h, H)
  <2>0. PICK m \in Nat : m = Len(q.segments)  BY <1>4
  <2>1. ASSUME NEW i \in 1 .. m PROVE Tells(ss[i], S[i])
    <3>1. i - 1 \in Nat /\ i \in 1 .. Len(q.segments)  BY <2>0
    <3>2. ss[i] = If(Len(q.segments[i].payload) > MaxPayload,
                     "LimitMaxSegmentPayloadBytes", i - 1, MaxPayload)
      BY <1>3, <1>4, <3>1
    <3>3. Tells(If(Len(q.segments[i].payload) > MaxPayload,
                   "LimitMaxSegmentPayloadBytes", i - 1, MaxPayload), PayloadTold(q, i))
      BY <1>1, <1>2, <3>1, TellsIf, Zenon DEF PayloadTold
    <3>4. S[i] = PayloadTold(q, i)  BY <3>1
    <3>. QED  BY <3>2, <3>3, <3>4, Zenon
  <2>2. ss = [i \in 1 .. m |-> ss[i]]  BY <1>3, <1>4, <2>0
  <2>3. UNION {S[i] : i \in 1 .. Len(q.segments)} = H  BY DEF PayloadsTold
  <2>. HIDE DEF ss, S, H
  <2>5. Tells(FlattenSeq(ss), UNION {S[i] : i \in 1 .. m})  BY <2>1, <2>2, TellsEverywhere
  <2>. QED  BY <2>0, <2>3, <2>5, Zenon
<1>11. validate_segment_sequence(q) = AddAll(Success, a \o b \o c \o e \o f \o (g \o h))
  <2>1. check_resource_limits(d) = g \o h  BY DEF check_resource_limits
  <2>. QED  BY <2>1, Zenon DEF validate_segment_sequence
<1>12. UNION {LibraryAt(q, i) : i \in 1 .. n}
         = ProfilesTold(q) \cup RepeatsTold(q) \cup ShapesTold(q) \cup DuplicatesTold(q)
  <2>. DEFINE P(i) == ProfileTold(p, q.segments[i], i - 1)
              Q(i) == ShapeTold(q.segments[i], i - 1)
  <2>1. \A i : LibraryAt(q, i) = P(i) \cup RepeatTold(q, i) \cup Q(i) \cup DuplicateTold(q, i)
    BY Zenon DEF LibraryAt
  <2>2. ProfilesTold(q) = UNION {P(i) : i \in 1 .. n} /\ ShapesTold(q) = UNION {Q(i) : i \in 1 .. n}
    BY Zenon DEF ProfilesTold, ShapesTold
  <2>3. /\ RepeatsTold(q) = UNION {RepeatTold(q, i) : i \in 1 .. n}
        /\ DuplicatesTold(q) = UNION {DuplicateTold(q, i) : i \in 1 .. n}
    BY Zenon DEF RepeatsTold, DuplicatesTold
  <2>. HIDE DEF P, Q, n
  <2>. QED  BY <2>1, <2>2, <2>3
<1>13. LibraryTold(q) = A \cup B \cup C \cup E \cup F \cup (G \cup H)
  <2>. DEFINE L == UNION {LibraryAt(q, i) : i \in 1 .. n}
  <2>1. LibraryTold(q) = LibraryOnce(q) \cup L \cup PayloadsTold(q)
    BY Zenon DEF LibraryTold, PayloadsTold
  <2>2. L = ProfilesTold(q) \cup RepeatsTold(q) \cup ShapesTold(q) \cup DuplicatesTold(q)  BY <1>12
  <2>. HIDE DEF L
  <2>. QED  BY <2>1, <2>2 DEF LibraryOnce
<1>14. Tells(b, B) /\ Tells(c, C)  BY <1>6
<1>. HIDE DEF a, b, c, e, f, g, h, A, B, C, E, F, G, H
<1>15. Tells(a \o b, A \cup B)  BY <1>5, <1>14, TellsBoth
<1>16. Tells(a \o b \o c, A \cup B \cup C)  BY <1>14, <1>15, TellsBoth
<1>17. Tells(a \o b \o c \o e, A \cup B \cup C \cup E)  BY <1>7, <1>16, TellsBoth
<1>18. Tells(a \o b \o c \o e \o f, A \cup B \cup C \cup E \cup F)  BY <1>8, <1>17, TellsBoth
<1>19. Tells(g \o h, G \cup H)  BY <1>9, <1>10, TellsBoth
<1>20. Tells(a \o b \o c \o e \o f \o (g \o h), A \cup B \cup C \cup E \cup F \cup (G \cup H))
  BY <1>18, <1>19, TellsBoth
<1>. QED  BY <1>11, <1>13, <1>20, Zenon
--------------------------------------------------------------------------------
(* The canonical forms of the two. *)

(* What is left of a payload that is cut and loses its trailing zeros. *)
Kept(payload, width, m) ==
    /\ m <= Len(payload) /\ m <= width
    /\ m # 0 => payload[m] # 0
    /\ \A i \in m + 1 .. Len(payload) : i <= width => payload[i] = 0

(* It is the payload up to its last byte that is not zero. *)
LEMMA StrippedIs ==
    ASSUME NEW payload \in Seq(Nat), NEW width \in Nat
    PROVE  \E m \in Nat : /\ Kept(payload, width, m)
                          /\ Stripped(payload, width) \in Seq(Nat)
                          /\ Len(Stripped(payload, width)) = m
                          /\ \A i \in 1 .. m : Stripped(payload, width)[i] = payload[i]
<1>1. PICK n \in Nat : n = Len(payload)  OBVIOUS
<1>2. PICK S : S = {n, width}  OBVIOUS
<1>3. S \in SUBSET Nat /\ S # {}  BY <1>2
<1>4. Min(S) \in S /\ \A x \in S : Min(S) <= x  BY <1>3, MinIs
<1>5. PICK k \in Nat : k = Min(S)  BY <1>3, <1>4
<1>6. k <= n /\ k <= width /\ (k = n \/ k = width)  BY <1>2, <1>4, <1>5
<1>7. PICK kept : kept = SubSeq(payload, 1, k)  OBVIOUS
<1>8. /\ kept \in Seq(Nat) /\ Len(kept) = k /\ DOMAIN kept = 1 .. k
      /\ \A i \in 1 .. k : kept[i] = payload[i]
  BY <1>1, <1>6, <1>7
<1>9. PICK Z : Z = {0} \cup {i \in DOMAIN kept : kept[i] # 0}  OBVIOUS
<1>10. Z \in SUBSET (0 .. k) /\ Z # {}
  <2>1. \A i \in Z : i \in 0 .. k
    <3>1. \A i \in Z : i = 0 \/ i \in 1 .. k  BY <1>8, <1>9
    <3>. QED  BY <3>1
  <2>2. 0 \in Z  BY <1>9
  <2>. QED  BY <2>1, <2>2
<1>11. Max(Z) \in Z /\ \A x \in Z : x <= Max(Z)  BY <1>10, MaxIs
<1>12. PICK m \in Nat : m = Max(Z)
  <2>1. \A x \in Z : x \in Nat  BY <1>10
  <2>. QED  BY <1>11, <2>1
<1>13. m <= k /\ (m # 0 => payload[m] # 0)  BY <1>8, <1>9, <1>10, <1>11, <1>12
<1>14. \A i \in m + 1 .. k : payload[i] = 0
  <2>. SUFFICES ASSUME NEW i \in m + 1 .. k PROVE payload[i] = 0  OBVIOUS
  <2>1. i \notin Z
    <3>1. i \in 0 .. k /\ i > m  OBVIOUS
    <3>. QED  BY <1>11, <1>12, <3>1
  <2>2. i \in 1 .. k  OBVIOUS
  <2>. QED  BY <1>8, <1>9, <2>1, <2>2
<1>15. Stripped(payload, width) = SubSeq(kept, 1, m)
  BY <1>1, <1>2, <1>5, <1>7, <1>9, <1>12 DEF Stripped
<1>16. /\ SubSeq(kept, 1, m) \in Seq(Nat) /\ Len(SubSeq(kept, 1, m)) = m
       /\ \A i \in 1 .. m : SubSeq(kept, 1, m)[i] = kept[i]
  BY <1>8, <1>13
<1>17. Kept(payload, width, m)
  <2>1. \A i \in m + 1 .. n : i <= width => i \in m + 1 .. k  BY <1>6
  <2>2. m <= n /\ m <= width  BY <1>6, <1>13
  <2>. QED  BY <1>1, <1>13, <1>14, <2>1, <2>2 DEF Kept
<1>18. \A i \in 1 .. m : SubSeq(kept, 1, m)[i] = payload[i]  BY <1>8, <1>13, <1>16
<1>. QED  BY <1>15, <1>16, <1>17, <1>18

(* Padding restores what was stripped. *)
LEMMA PaddedStripped ==
    ASSUME NEW payload \in Seq(Nat), NEW width \in Nat
    PROVE  Padded(Stripped(payload, width), width) = Padded(payload, width)
<1>1. PICK t : t = Stripped(payload, width)  OBVIOUS
<1>2. PICK m \in Nat : /\ Kept(payload, width, m) /\ t \in Seq(Nat) /\ Len(t) = m
                       /\ \A i \in 1 .. m : t[i] = payload[i]
  BY <1>1, StrippedIs
<1>3. PICK n \in Nat : n = Len(payload)  OBVIOUS
<1>4. ASSUME NEW i \in 1 .. width
      PROVE  (IF i <= m THEN t[i] ELSE 0) = (IF i <= n THEN payload[i] ELSE 0)
  <2>1. m <= n  BY <1>2, <1>3 DEF Kept
  <2>2. CASE i <= m
    <3>1. i \in 1 .. m /\ i <= n  BY <2>1, <2>2
    <3>. QED  BY <1>2, <2>2, <3>1
  <2>3. CASE i > m /\ i <= n
    <3>1. i \in m + 1 .. n /\ i <= width /\ ~ i <= m  BY <2>3
    <3>2. payload[i] = 0  BY <1>2, <1>3, <3>1 DEF Kept
    <3>. QED  BY <2>3, <3>1, <3>2
  <2>4. CASE i > n
    <3>1. ~ i <= m /\ ~ i <= n  BY <2>1, <2>4
    <3>. QED  BY <3>1
  <2>. QED  BY <2>2, <2>3, <2>4
<1>5. Padded(t, width) = [i \in 1 .. width |-> IF i <= m THEN t[i] ELSE 0]  BY <1>2 DEF Padded
<1>6. Padded(payload, width) = [i \in 1 .. width |-> IF i <= n THEN payload[i] ELSE 0]
  BY <1>3 DEF Padded
<1>7. [i \in 1 .. width |-> IF i <= m THEN t[i] ELSE 0]
        = [i \in 1 .. width |-> IF i <= n THEN payload[i] ELSE 0]
  BY <1>4
<1>. QED  BY <1>1, <1>5, <1>6, <1>7, Zenon

(* One of two payloads does not keep more than the other if they are       *)
(* padded to the same.                                                     *)
LEMMA KeptNotLonger ==
    ASSUME NEW a \in Seq(Nat), NEW b \in Seq(Nat), NEW width \in Nat,
           Padded(a, width) = Padded(b, width),
           NEW k \in Nat, Kept(a, width, k), NEW m \in Nat, Kept(b, width, m)
    PROVE  m <= k
<1>. SUFFICES ASSUME m > k PROVE FALSE  OBVIOUS
<1>1. m # 0 /\ b[m] # 0 /\ m <= Len(b) /\ m <= width /\ m \in 1 .. width  BY DEF Kept
<1>2. Padded(b, width)[m] = b[m]  BY <1>1 DEF Padded
<1>3. Padded(a, width)[m] = IF m <= Len(a) THEN a[m] ELSE 0  BY <1>1 DEF Padded
<1>4. m <= Len(a) => a[m] = 0
  <2>1. Len(a) \in Nat  OBVIOUS
  <2>2. m <= Len(a) => m \in k + 1 .. Len(a)  BY <2>1
  <2>. QED  BY <1>1, <2>2 DEF Kept
<1>. QED  BY <1>1, <1>2, <1>3, <1>4

(* Two payloads are stripped to the same if they are padded to the same. *)
LEMMA StrippedAlike ==
    ASSUME NEW a \in Seq(Nat), NEW b \in Seq(Nat), NEW width \in Nat
    PROVE  Stripped(a, width) = Stripped(b, width) <=> Padded(a, width) = Padded(b, width)
<1>1. ASSUME Stripped(a, width) = Stripped(b, width) PROVE Padded(a, width) = Padded(b, width)
  <2>1. Padded(Stripped(a, width), width) = Padded(a, width)  BY PaddedStripped
  <2>2. Padded(Stripped(b, width), width) = Padded(b, width)  BY PaddedStripped
  <2>. QED  BY <1>1, <2>1, <2>2
<1>2. ASSUME Padded(a, width) = Padded(b, width) PROVE Stripped(a, width) = Stripped(b, width)
  <2>1. PICK s, t : s = Stripped(a, width) /\ t = Stripped(b, width)  OBVIOUS
  <2>2. PICK k \in Nat : /\ Kept(a, width, k) /\ s \in Seq(Nat) /\ Len(s) = k
                         /\ \A i \in 1 .. k : s[i] = a[i]
    BY <2>1, StrippedIs
  <2>3. PICK m \in Nat : /\ Kept(b, width, m) /\ t \in Seq(Nat) /\ Len(t) = m
                         /\ \A i \in 1 .. m : t[i] = b[i]
    BY <2>1, StrippedIs
  <2>4. m <= k  BY <1>2, <2>2, <2>3, KeptNotLonger
  <2>5. k <= m  BY <1>2, <2>2, <2>3, KeptNotLonger
  <2>6. k = m  BY <2>4, <2>5
  <2>7. \A i \in 1 .. k : a[i] = b[i]
    <3>. SUFFICES ASSUME NEW i \in 1 .. k PROVE a[i] = b[i]  OBVIOUS
    <3>1. k <= width /\ k <= Len(a) /\ k <= Len(b) /\ Len(a) \in Nat /\ Len(b) \in Nat
      BY <2>2, <2>3, <2>6 DEF Kept
    <3>2. i \in 1 .. width /\ i <= Len(a) /\ i <= Len(b)  BY <3>1
    <3>3. Padded(a, width)[i] = a[i] /\ Padded(b, width)[i] = b[i]  BY <3>2 DEF Padded
    <3>. QED  BY <1>2, <3>3
  <2>8. \A i \in 1 .. k : s[i] = t[i]  BY <2>2, <2>3, <2>6, <2>7
  <2>9. s = t  BY <2>2, <2>3, <2>6, <2>8
  <2>. QED  BY <2>1, <2>9
<1>. QED  BY <1>1, <1>2

(* The oracle digests what the library does, and tells the same segments   *)
(* apart.                                                                  *)
LEMMA CanonicalForms ==
    ASSUME NEW q, Scenario(q)
    PROVE  /\ canonical_sequence(q) = encodeSequence(q)
           /\ \A i, j \in 1 .. Len(q.segments) :
                 canonicalize(q)[i] = canonicalize(q)[j] <=>
                    Canonical(q.segments[i], q.profile.payload_width)
                       = Canonical(q.segments[j], q.profile.payload_width)
           /\ \A i \in 1 .. Len(q.segments) :
                 canonicalize(q)[i].encoding = EffectiveEncoding(q.segments[i])
<1>1. PICK w : w = q.profile.payload_width  OBVIOUS
<1>2. PICK N : N = Len(q.segments)  OBVIOUS
<1>3. /\ w \in Nat /\ N \in Nat /\ DOMAIN q.segments = 1 .. N
      /\ \A i \in 1 .. N : q.segments[i] \in SegmentType
  BY <1>1, <1>2, ScenarioIs
<1>. DEFINE s(i) == q.segments[i]
            e(i) == EffectiveEncoding(s(i))
            x(i) == Stripped(s(i).payload, w)
            y(i) == Padded(s(i).payload, w)
<1>4. \A i \in 1 .. N : canonicalize(q)[i] = Respelled(s(i), e(i), x(i))
  <2>. SUFFICES ASSUME NEW i \in 1 .. N PROVE canonicalize(q)[i] = Respelled(s(i), e(i), x(i))
    OBVIOUS
  <2>1. PICK t \in SegmentType : t = q.segments[i]  BY <1>3
  <2>2. canonicalize(q)[i] =
          [t EXCEPT !.encoding = IF @ = "Invalid" THEN kRequiredEncoding(t.kind) ELSE @,
                    !.payload = Stripped(@, w)]
    BY <1>1, <1>3, <2>1 DEF canonicalize
  <2>3. DOMAIN t = {"kind", "encoding", "id", "gen", "fields", "ref", "payload"}  BY DEF SegmentType
  <2>4. PICK f, z : f = EffectiveEncoding(t) /\ z = Stripped(t.payload, w)  OBVIOUS
  <2>5. [t EXCEPT !.encoding = IF @ = "Invalid" THEN kRequiredEncoding(t.kind) ELSE @,
                  !.payload = Stripped(@, w)]
          = [t EXCEPT !.encoding = f, !.payload = z]
    BY <2>3, <2>4 DEF EffectiveEncoding, kRequiredEncoding
  <2>6. [t EXCEPT !.encoding = f, !.payload = z] = Respelled(t, f, z)  BY RespelledIs
  <2>. QED  BY <2>1, <2>2, <2>4, <2>5, <2>6, Zenon
<1>5. \A i \in 1 .. N : Canonical(s(i), w) = Respelled(s(i), e(i), y(i))
  BY <1>3, RespelledIs, Zenon DEF Canonical
<1>6. \A i \in 1 .. N : Padded(x(i), w) = y(i)
  <2>. SUFFICES ASSUME NEW i \in 1 .. N PROVE Padded(x(i), w) = y(i)  OBVIOUS
  <2>1. s(i).payload \in Seq(Nat)  BY <1>3, SegmentIs
  <2>. QED  BY <1>3, <2>1, PaddedStripped, Zenon
<1>7. \A i, j \in 1 .. N : x(i) = x(j) <=> y(i) = y(j)
  <2>. SUFFICES ASSUME NEW i \in 1 .. N, NEW j \in 1 .. N PROVE x(i) = x(j) <=> y(i) = y(j)
    OBVIOUS
  <2>1. s(i).payload \in Seq(Nat) /\ s(j).payload \in Seq(Nat)  BY <1>3, SegmentIs
  <2>. QED  BY <1>3, <2>1, StrippedAlike, Zenon
<1>8. canonical_sequence(q) = [i \in 1 .. N |-> Respelled(s(i), e(i), y(i))]
  <2>1. canonical_sequence(q) = [i \in 1 .. N |-> Canonical(s(i), w)]
    BY <1>1, <1>3 DEF canonical_sequence
  <2>. HIDE DEF s, e, y
  <2>. QED  BY <1>5, <2>1
<1>9. encodeSequence(q) = [i \in 1 .. N |-> Respelled(s(i), e(i), y(i))]
  <2>1. PICK c : c = canonicalize(q)  OBVIOUS
  <2>2. DOMAIN c = 1 .. N  BY <1>3, <2>1 DEF canonicalize
  <2>3. encodeSequence(q) = [i \in 1 .. N |-> [c[i] EXCEPT !.payload = Padded(@, w)]]
    BY <1>1, <2>1, <2>2 DEF encodeSequence
  <2>4. \A i \in 1 .. N : [c[i] EXCEPT !.payload = Padded(@, w)] = Respelled(s(i), e(i), y(i))
    <3>. SUFFICES ASSUME NEW i \in 1 .. N
                  PROVE  [c[i] EXCEPT !.payload = Padded(@, w)] = Respelled(s(i), e(i), y(i))
      OBVIOUS
    <3>1. c[i] = Respelled(s(i), e(i), x(i)) /\ Padded(x(i), w) = y(i)  BY <1>4, <1>6, <2>1
    <3>. HIDE DEF s, e, x, y
    <3>2. [Respelled(s(i), e(i), x(i)) EXCEPT !.payload = Padded(@, w)]
            = Respelled(s(i), e(i), Padded(x(i), w))
      BY DEF Respelled
    <3>. QED  BY <3>1, <3>2
  <2>. HIDE DEF s, e, x, y
  <2>. QED  BY <2>3, <2>4
<1>10. \A i, j \in 1 .. N : canonicalize(q)[i] = canonicalize(q)[j] <=>
                              Canonical(s(i), w) = Canonical(s(j), w)
  <2>. SUFFICES ASSUME NEW i \in 1 .. N, NEW j \in 1 .. N
                PROVE  canonicalize(q)[i] = canonicalize(q)[j] <=>
                              Canonical(s(i), w) = Canonical(s(j), w)
    OBVIOUS
  <2>. HIDE DEF s, e, x, y
  <2>1. \A a, b : Respelled(s(i), e(i), a) = Respelled(s(j), e(j), b) <=>
                     Respelled(s(i), e(i), 0) = Respelled(s(j), e(j), 0) /\ a = b
    BY DEF Respelled
  <2>. QED  BY <1>4, <1>5, <1>7, <2>1
<1>11. \A i \in 1 .. N : canonicalize(q)[i].encoding = e(i)
  <2>. SUFFICES ASSUME NEW i \in 1 .. N PROVE canonicalize(q)[i].encoding = e(i)  OBVIOUS
  <2>1. PICK c, b, f, z : c = canonicalize(q)[i] /\ b = s(i) /\ f = e(i) /\ z = x(i)  OBVIOUS
  <2>2. c = Respelled(b, f, z)  BY <1>4, <2>1
  <2>3. Respelled(b, f, z).encoding = f  BY DEF Respelled
  <2>. QED  BY <2>1, <2>2, <2>3, Zenon
<1>. QED  BY <1>1, <1>2, <1>8, <1>9, <1>10, <1>11, Zenon
--------------------------------------------------------------------------------
(* What the oracle finds. *)

(* Whether a segment is the same as an earlier one when it is digested:    *)
(* the one right before, or another.                                       *)
Digested(q, i) == Canonical(q.segments[i], q.profile.payload_width)
SameAsLast(q, i) == \E j \in 1 .. i - 1 : j + 1 = i /\ Digested(q, j) = Digested(q, i)
SameAsOther(q, i) == \E j \in 1 .. i - 1 : j + 1 # i /\ Digested(q, j) = Digested(q, i)

(* The facts of a set of earlier places. *)
LEMMA FactsOfPrior ==
    ASSUME NEW i \in Nat \ {0}, NEW prior \in SUBSET (1 .. i - 1)
    PROVE  /\ duplicateFacts(prior, i).consecutive \in BOOLEAN
           /\ duplicateFacts(prior, i).nonConsecutive \in BOOLEAN
           /\ duplicateFacts(prior, i).consecutive <=> \E j \in prior : j + 1 = i
           /\ duplicateFacts(prior, i).nonConsecutive <=> \E j \in prior : j + 1 # i
<1>1. CASE prior = {}
  <2>1. duplicateFacts({}, i) = [consecutive |-> FALSE, nonConsecutive |-> FALSE]
    BY DEF duplicateFacts
  <2>2. /\ duplicateFacts({}, i).consecutive = FALSE
        /\ duplicateFacts({}, i).nonConsecutive = FALSE
    BY <2>1
  <2>. QED  BY <1>1, <2>2
<1>2. CASE prior # {}
  <2>1. \A j \in prior : j \in 1 .. i - 1 /\ j \in Nat /\ j <= i - 1  OBVIOUS
  <2>2. PICK a : a = Max(prior)  OBVIOUS
  <2>3. PICK b : b = Min(prior)  OBVIOUS
  <2>4. prior \in SUBSET (0 .. i - 1) /\ prior \in SUBSET Nat /\ i - 1 \in Nat  BY <2>1
  <2>5. a \in prior /\ \A j \in prior : j <= a  BY <1>2, <2>2, <2>4, MaxIs
  <2>6. b \in prior /\ \A j \in prior : b <= j  BY <1>2, <2>3, <2>4, MinIs
  <2>7. duplicateFacts(prior, i) =
           [consecutive |-> a = i - 1, nonConsecutive |-> Cardinality(prior) >= 2 \/ b # i - 1]
    BY <1>2, <2>2, <2>3 DEF duplicateFacts
  <2>8. a = i - 1 <=> \E j \in prior : j + 1 = i  BY <2>1, <2>5
  <2>9. Cardinality(prior) >= 2 \/ b # i - 1 <=> \E j \in prior : j + 1 # i
    <3>1. CASE b # i - 1
      <4>1. b + 1 # i  BY <2>1, <2>6, <3>1
      <4>. QED  BY <2>6, <3>1, <4>1
    <3>2. CASE b = i - 1
      <4>1. prior = {b}
        <5>1. \A j \in prior : j = b  BY <2>1, <2>6, <3>2
        <5>. QED  BY <2>6, <5>1
      <4>2. Cardinality(prior) = 1  BY <4>1, FS_Singleton
      <4>3. b + 1 = i  BY <3>2
      <4>. QED  BY <3>2, <4>1, <4>2, <4>3
    <3>. QED  BY <3>1, <3>2
  <2>10. /\ duplicateFacts(prior, i).consecutive = (a = i - 1)
         /\ duplicateFacts(prior, i).nonConsecutive = (Cardinality(prior) >= 2 \/ b # i - 1)
    BY <2>7
  <2>. QED  BY <2>8, <2>9, <2>10
<1>. QED  BY <1>1, <1>2

(* The facts of a scanned segment. *)
LEMMA FactsIs ==
    ASSUME NEW q, Scenario(q), NEW n \in Nat, n = scannedCount(q)
    PROVE  /\ DOMAIN Facts(q) = 1 .. n
           /\ \A i \in 1 .. n : /\ Facts(q)[i].consecutive \in BOOLEAN
                                /\ Facts(q)[i].nonConsecutive \in BOOLEAN
                                /\ Facts(q)[i].consecutive <=> SameAsLast(q, i)
                                /\ Facts(q)[i].nonConsecutive <=> SameAsOther(q, i)
<1>1. PICK m \in Nat : m = scannedCount(q) /\ m <= Len(q.segments)  BY ScannedIs
<1>2. PICK c : c = canonicalize(q)  OBVIOUS
<1>3. Facts(q) = [i \in 1 .. n |-> duplicateFacts(Prior(c, i), i)]  BY <1>2 DEF Facts
<1>4. ASSUME NEW i \in 1 .. n
      PROVE  /\ duplicateFacts(Prior(c, i), i).consecutive \in BOOLEAN
             /\ duplicateFacts(Prior(c, i), i).nonConsecutive \in BOOLEAN
             /\ duplicateFacts(Prior(c, i), i).consecutive <=> SameAsLast(q, i)
             /\ duplicateFacts(Prior(c, i), i).nonConsecutive <=> SameAsOther(q, i)
  <2>1. PICK prior : prior = Prior(c, i)  OBVIOUS
  <2>2. prior \in SUBSET (1 .. i - 1) /\ \A j \in 1 .. i - 1 : j \in prior <=> c[j] = c[i]
    BY <2>1 DEF Prior
  <2>3. \A j \in 1 .. i - 1 : c[j] = c[i] <=> Digested(q, j) = Digested(q, i)
    <3>. SUFFICES ASSUME NEW j \in 1 .. i - 1 PROVE c[j] = c[i] <=> Digested(q, j) = Digested(q, i)
      OBVIOUS
    <3>1. Len(q.segments) \in Nat  BY ScenarioIs
    <3>2. i \in 1 .. Len(q.segments) /\ j \in 1 .. Len(q.segments)  BY <1>1, <3>1
    <3>. QED  BY <1>2, <3>2, CanonicalForms DEF Digested
  <2>4. i \in Nat \ {0}  OBVIOUS
  <2>5. (\E j \in prior : j + 1 = i) <=> SameAsLast(q, i)  BY <2>2, <2>3 DEF SameAsLast
  <2>6. (\E j \in prior : j + 1 # i) <=> SameAsOther(q, i)  BY <2>2, <2>3 DEF SameAsOther
  <2>7. /\ duplicateFacts(prior, i).consecutive \in BOOLEAN
        /\ duplicateFacts(prior, i).nonConsecutive \in BOOLEAN
        /\ duplicateFacts(prior, i).consecutive <=> \E j \in prior : j + 1 = i
        /\ duplicateFacts(prior, i).nonConsecutive <=> \E j \in prior : j + 1 # i
    BY <2>2, <2>4, FactsOfPrior
  <2>. QED  BY <2>1, <2>5, <2>6, <2>7, Zenon
<1>. QED  BY <1>3, <1>4

(* What both find in a scenario as a whole, and in one of its segments. *)
BothFindOnce(q, name, detail) ==
    \/ /\ name = "ProfileEmptyNotPermitted" /\ detail = 0
       /\ q.segments = <<>> /\ ~ q.profile.empty
    \/ /\ name = "ProfileMaxDepthExceeded" /\ detail = q.profile.max_depth
       /\ Len(q.segments) > q.profile.max_depth
    \/ name = "CapabilityEvidenceUnavailable" /\ detail = 0 /\ q.reqcaps > 0
    \/ name = "LimitMaxSegmentsPerList" /\ detail = MaxSegments /\ Len(q.segments) > MaxSegments

BothFind(p, s, name, detail) ==
    \/ name = "ProfileKindNotAllowed" /\ detail = KindCode[s.kind] /\ s.kind \notin p.kinds
    \/ name = "ProfileKindMismatch" /\ detail = 0 /\ s.kind = "Invalid"
    \/ /\ name = "ProfilePayloadWidthExceeded" /\ detail = p.payload_width
       /\ Len(s.payload) > p.payload_width
    \/ name = "SegmentKindInvalid" /\ detail = 0 /\ s.kind = "Invalid"
    \/ name = "SegmentIdInvalid" /\ detail = 0 /\ s.kind # "Invalid" /\ s.id = 0
    \/ name = "SegmentGenerationInvalid" /\ detail = 0 /\ s.kind # "Invalid" /\ s.gen = 0
    \/ /\ name = "SegmentEncodingMismatch" /\ detail = KindCode[s.encoding]
       /\ s.kind # "Invalid" /\ s.encoding \notin {"Invalid", s.kind}
    \/ /\ name = "SegmentReservedFieldSet" /\ detail = 0
       /\ s.kind # "Invalid" /\ ~ s.fields \subseteq Required[s.kind]

PayloadFinds(q, name, index, detail) ==
    /\ name = "LimitMaxSegmentPayloadBytes" /\ detail = MaxPayload
    /\ \E i \in 1 .. Len(q.segments) : index = i - 1 /\ Len(q.segments[i].payload) > MaxPayload

(* What the library finds. *)
LibraryFindsOnce(q, name, detail) ==
    \/ BothFindOnce(q, name, detail)
    \/ /\ name = "ListEmptyNotPermitted" /\ detail = 0
       /\ q.segments = <<>> /\ ~ q.profile.empty
    \/ name = "ProfileGenerationInvalid" /\ detail = 0 /\ q.profile.gen = 0
    \/ /\ name = "TopologyEvidenceUnavailable" /\ detail = 0
       /\ \E s \in ToSet(q.segments) : s.kind = "Adjacency"

LibraryFinds(q, i, s, name, detail) ==
    \/ BothFind(q.profile, s, name, detail)
    \/ /\ name = "SegmentBindingIncomplete" /\ detail = 0
       /\ s.kind # "Invalid" /\ ~ Required[s.kind] \subseteq s.fields
    \/ /\ name = "SegmentMissingBinding" /\ detail = 0
       /\ s.kind # "Invalid" /\ s.fields \cap EntityFields = {}
    \/ name = "ProfileRepeatNotPermitted" /\ detail = s.id /\ RepeatsAny(q, i)
    \/ name = "SegmentDuplicateConsecutive" /\ detail = s.id /\ RepeatsLast(q, i)
    \/ name = "SegmentDuplicateNonConsecutive" /\ detail = s.id /\ RepeatsOther(q, i)

LibraryGives(q, name, index, detail) ==
    \/ index = 0 /\ LibraryFindsOnce(q, name, detail)
    \/ \E i \in 1 .. scannedCount(q) :
          index = i - 1 /\ LibraryFinds(q, i, q.segments[i], name, detail)
    \/ PayloadFinds(q, name, index, detail)

(* What the oracle finds. *)
OracleFindsOnce(q, name, detail) ==
    \/ BothFindOnce(q, name, detail)
    \/ /\ name = "TopologyEvidenceUnavailable" /\ detail = 0
       /\ \E i \in 1 .. scannedCount(q) : q.segments[i].kind = "Adjacency"

OracleFinds(q, i, s, name, detail) ==
    \/ BothFind(q.profile, s, name, detail)
    \/ /\ name = "SegmentBindingIncomplete" /\ detail = 0
       /\ s.kind # "Invalid" /\ s.fields # {} /\ kUses[s.kind] \ s.fields # {}
    \/ name = "SegmentMissingBinding" /\ detail = 0 /\ s.kind # "Invalid" /\ s.fields = {}
    \/ /\ name = "ProfileRepeatNotPermitted" /\ detail = 0
       /\ \/ SameAsLast(q, i) /\ ~ q.profile.consecutive
          \/ SameAsOther(q, i) /\ ~ q.profile.nonconsecutive
    \/ name = "SegmentDuplicateConsecutive" /\ detail = s.id /\ SameAsLast(q, i)
    \/ name = "SegmentDuplicateNonConsecutive" /\ detail = s.id /\ SameAsOther(q, i)

OracleGives(q, name, index, detail) ==
    \/ index = 0 /\ OracleFindsOnce(q, name, detail)
    \/ \E i \in 1 .. scannedCount(q) :
          index = i - 1 /\ OracleFinds(q, i, q.segments[i], name, detail)
    \/ PayloadFinds(q, name, index, detail)

(* The library's reasons for one segment. *)
LEMMA LibraryAtIs ==
    ASSUME NEW q, Scenario(q), NEW i \in 1 .. Len(q.segments)
    PROVE  \A r : r \in LibraryAt(q, i) <=>
              \E name, detail : /\ LibraryFinds(q, i, q.segments[i], name, detail)
                                /\ r = Reason(name, i - 1, detail)
<1>1. PICK s \in SegmentType : s = q.segments[i]  BY ScenarioIs
<1>2. PICK p : p = q.profile  OBVIOUS
<1>3. PICK x : x = i - 1  OBVIOUS
<1>4. TAKE r
<1>5. r \in ProfileTold(p, s, x) <=>
        \/ s.kind \notin p.kinds /\ r = Reason("ProfileKindNotAllowed", x, KindCode[s.kind])
        \/ s.kind = "Invalid" /\ r = Reason("ProfileKindMismatch", x, KindCode[s.kind])
        \/ /\ Len(s.payload) > p.payload_width
           /\ r = Reason("ProfilePayloadWidthExceeded", x, p.payload_width)
  <2>1. r \in Emit(s.kind \notin p.kinds,
                "ProfileKindNotAllowed", x, KindCode[s.kind]) <=>
          (s.kind \notin p.kinds) /\ r = Reason("ProfileKindNotAllowed", x, KindCode[s.kind])
    BY DEF Emit, If, ToSet
  <2>2. r \in Emit(s.kind = "Invalid",
                "ProfileKindMismatch", x, KindCode[s.kind]) <=>
          (s.kind = "Invalid") /\ r = Reason("ProfileKindMismatch", x, KindCode[s.kind])
    BY DEF Emit, If, ToSet
  <2>3. r \in Emit(Len(s.payload) > p.payload_width,
                "ProfilePayloadWidthExceeded", x, p.payload_width) <=>
          (Len(s.payload) > p.payload_width) /\ r = Reason("ProfilePayloadWidthExceeded", x, p.payload_width)
    BY DEF Emit, If, ToSet
  <2>. QED  BY <2>1, <2>2, <2>3 DEF ProfileTold
<1>6. s.kind = "Invalid" => KindCode[s.kind] = 0  BY DEF KindCode
<1>7. r \in ShapeTold(s, x) <=>
        \/ s.kind = "Invalid" /\ r = Reason("SegmentKindInvalid", x, 0)
        \/ s.kind # "Invalid" /\ s.id = 0 /\ r = Reason("SegmentIdInvalid", x, 0)
        \/ s.kind # "Invalid" /\ s.gen = 0 /\ r = Reason("SegmentGenerationInvalid", x, 0)
        \/ /\ s.kind # "Invalid" /\ s.encoding \notin {"Invalid", s.kind}
           /\ r = Reason("SegmentEncodingMismatch", x, KindCode[s.encoding])
        \/ /\ s.kind # "Invalid" /\ ~ Required[s.kind] \subseteq s.fields
           /\ r = Reason("SegmentBindingIncomplete", x, 0)
        \/ /\ s.kind # "Invalid" /\ ~ s.fields \subseteq Required[s.kind]
           /\ r = Reason("SegmentReservedFieldSet", x, 0)
        \/ /\ s.kind # "Invalid" /\ s.fields \cap EntityFields = {}
           /\ r = Reason("SegmentMissingBinding", x, 0)
  <2>1. CASE s.kind = "Invalid"  BY <2>1 DEF ShapeTold
  <2>2. r \in Emit(s.id = 0,
                "SegmentIdInvalid", x, 0) <=>
          (s.id = 0) /\ r = Reason("SegmentIdInvalid", x, 0)
    BY DEF Emit, If, ToSet
  <2>3. r \in Emit(s.gen = 0,
                "SegmentGenerationInvalid", x, 0) <=>
          (s.gen = 0) /\ r = Reason("SegmentGenerationInvalid", x, 0)
    BY DEF Emit, If, ToSet
  <2>4. r \in Emit(s.encoding \notin {"Invalid", s.kind},
                "SegmentEncodingMismatch", x, KindCode[s.encoding]) <=>
          (s.encoding \notin {"Invalid", s.kind}) /\ r = Reason("SegmentEncodingMismatch", x, KindCode[s.encoding])
    BY DEF Emit, If, ToSet
  <2>5. r \in Emit(~ Required[s.kind] \subseteq s.fields,
                "SegmentBindingIncomplete", x, 0) <=>
          (~ Required[s.kind] \subseteq s.fields) /\ r = Reason("SegmentBindingIncomplete", x, 0)
    BY DEF Emit, If, ToSet
  <2>6. r \in Emit(~ s.fields \subseteq Required[s.kind],
                "SegmentReservedFieldSet", x, 0) <=>
          (~ s.fields \subseteq Required[s.kind]) /\ r = Reason("SegmentReservedFieldSet", x, 0)
    BY DEF Emit, If, ToSet
  <2>7. r \in Emit(s.fields \cap EntityFields = {},
                "SegmentMissingBinding", x, 0) <=>
          (s.fields \cap EntityFields = {}) /\ r = Reason("SegmentMissingBinding", x, 0)
    BY DEF Emit, If, ToSet
  <2>8. CASE s.kind # "Invalid"  BY <2>2, <2>3, <2>4, <2>5, <2>6, <2>7, <2>8 DEF ShapeTold
  <2>. QED  BY <2>1, <2>8
<1>8. r \in RepeatTold(q, i) <=>
        RepeatsAny(q, i) /\ r = Reason("ProfileRepeatNotPermitted", x, s.id)
  <2>1. r \in RepeatTold(q, i) <=>
          RepeatsAny(q, i) /\ r = Reason("ProfileRepeatNotPermitted", i - 1, q.segments[i].id)
    BY EmitIs, Zenon DEF RepeatTold, RepeatsAny
  <2>. QED  BY <1>1, <1>3, <2>1
<1>9. r \in DuplicateTold(q, i) <=>
        \/ RepeatsLast(q, i) /\ r = Reason("SegmentDuplicateConsecutive", x, s.id)
        \/ RepeatsOther(q, i) /\ r = Reason("SegmentDuplicateNonConsecutive", x, s.id)
  <2>1. r \in Emit(RepeatsLast(q, i),
                "SegmentDuplicateConsecutive", i - 1, q.segments[i].id) <=>
          (RepeatsLast(q, i)) /\ r = Reason("SegmentDuplicateConsecutive", i - 1, q.segments[i].id)
    BY EmitIs, Zenon DEF RepeatsLast, RepeatsOther
  <2>2. r \in Emit(RepeatsOther(q, i),
                "SegmentDuplicateNonConsecutive", i - 1, q.segments[i].id) <=>
          (RepeatsOther(q, i)) /\ r = Reason("SegmentDuplicateNonConsecutive", i - 1, q.segments[i].id)
    BY EmitIs, Zenon DEF RepeatsLast, RepeatsOther
  <2>. QED  BY <1>1, <1>3, <2>1, <2>2 DEF DuplicateTold
<1>10. r \in LibraryAt(q, i) <=>
         \/ r \in ProfileTold(p, s, x) \/ r \in RepeatTold(q, i)
         \/ r \in ShapeTold(s, x) \/ r \in DuplicateTold(q, i)
  BY <1>1, <1>2, <1>3 DEF LibraryAt
<1>11. r \in LibraryAt(q, i) <=>
         \E name, detail : LibraryFinds(q, i, s, name, detail) /\ r = Reason(name, x, detail)
  BY <1>2, <1>5, <1>6, <1>7, <1>8, <1>9, <1>10 DEF LibraryFinds, BothFind
<1>. QED  BY <1>1, <1>3, <1>11

(* The library's reasons for a scenario as a whole. *)
LEMMA LibraryOnceIs ==
    ASSUME NEW q
    PROVE  \A r : r \in LibraryOnce(q) <=>
              \E name, detail : LibraryFindsOnce(q, name, detail) /\ r = Reason(name, 0, detail)
<1>. TAKE r
<1>1. r \in Emit(q.segments = <<>> /\ ~ q.profile.empty,
              "ListEmptyNotPermitted", 0, 0) <=>
        (q.segments = <<>> /\ ~ q.profile.empty) /\ r = Reason("ListEmptyNotPermitted", 0, 0)
  BY DEF Emit, If, ToSet
<1>2. r \in Emit(q.profile.gen = 0,
              "ProfileGenerationInvalid", 0, 0) <=>
        (q.profile.gen = 0) /\ r = Reason("ProfileGenerationInvalid", 0, 0)
  BY DEF Emit, If, ToSet
<1>3. r \in Emit(~ q.profile.empty /\ q.segments = <<>>,
              "ProfileEmptyNotPermitted", 0, 0) <=>
        (~ q.profile.empty /\ q.segments = <<>>) /\ r = Reason("ProfileEmptyNotPermitted", 0, 0)
  BY DEF Emit, If, ToSet
<1>4. r \in Emit(Len(q.segments) > q.profile.max_depth,
              "ProfileMaxDepthExceeded", 0, q.profile.max_depth) <=>
        (Len(q.segments) > q.profile.max_depth) /\ r = Reason("ProfileMaxDepthExceeded", 0, q.profile.max_depth)
  BY DEF Emit, If, ToSet
<1>5. r \in Emit(q.reqcaps > 0,
              "CapabilityEvidenceUnavailable", 0, 0) <=>
        (q.reqcaps > 0) /\ r = Reason("CapabilityEvidenceUnavailable", 0, 0)
  BY DEF Emit, If, ToSet
<1>6. r \in Emit(\E s \in ToSet(q.segments) : s.kind = "Adjacency",
              "TopologyEvidenceUnavailable", 0, 0) <=>
        (\E s \in ToSet(q.segments) : s.kind = "Adjacency") /\ r = Reason("TopologyEvidenceUnavailable", 0, 0)
  BY DEF Emit, If, ToSet
<1>7. r \in Emit(Len(q.segments) > MaxSegments,
              "LimitMaxSegmentsPerList", 0, MaxSegments) <=>
        (Len(q.segments) > MaxSegments) /\ r = Reason("LimitMaxSegmentsPerList", 0, MaxSegments)
  BY DEF Emit, If, ToSet
<1>8. r \in LibraryOnce(q) <=>
        \/ r \in ListEmptyTold(q) \/ r \in GenerationTold(q) \/ r \in ProfileEmptyTold(q)
        \/ r \in DepthTold(q) \/ r \in CapabilityTold(q) \/ r \in TopologyTold(q)
        \/ r \in LimitTold(q)
  BY DEF LibraryOnce
<1>9. r \in LibraryOnce(q) <=>
        \/ q.segments = <<>> /\ ~ q.profile.empty /\ r = Reason("ListEmptyNotPermitted", 0, 0)
        \/ q.profile.gen = 0 /\ r = Reason("ProfileGenerationInvalid", 0, 0)
        \/ q.segments = <<>> /\ ~ q.profile.empty /\ r = Reason("ProfileEmptyNotPermitted", 0, 0)
        \/ /\ Len(q.segments) > q.profile.max_depth
           /\ r = Reason("ProfileMaxDepthExceeded", 0, q.profile.max_depth)
        \/ q.reqcaps > 0 /\ r = Reason("CapabilityEvidenceUnavailable", 0, 0)
        \/ /\ \E s \in ToSet(q.segments) : s.kind = "Adjacency"
           /\ r = Reason("TopologyEvidenceUnavailable", 0, 0)
        \/ Len(q.segments) > MaxSegments /\ r = Reason("LimitMaxSegmentsPerList", 0, MaxSegments)
  BY <1>1, <1>2, <1>3, <1>4, <1>5, <1>6, <1>7, <1>8
     DEF ListEmptyTold, GenerationTold, ProfileEmptyTold, DepthTold, CapabilityTold, TopologyTold,
         LimitTold
<1>. QED  BY <1>9 DEF LibraryFindsOnce, BothFindOnce

(* The reasons of both for the payloads. *)
LEMMA PayloadsAre ==
    ASSUME NEW q
    PROVE  \A r : r \in PayloadsTold(q) <=>
              \E name, index, detail : /\ PayloadFinds(q, name, index, detail)
                                       /\ r = Reason(name, index, detail)
<1>. TAKE r
<1>1. r \in PayloadsTold(q) <=> \E i \in 1 .. Len(q.segments) : r \in PayloadTold(q, i)
  BY DEF PayloadsTold
<1>2. \A i : r \in PayloadTold(q, i) <=>
               /\ Len(q.segments[i].payload) > MaxPayload
               /\ r = Reason("LimitMaxSegmentPayloadBytes", i - 1, MaxPayload)
  BY DEF PayloadTold, Emit, If, ToSet
<1>. QED  BY <1>1, <1>2 DEF PayloadFinds

(* All that the library tells of a scenario is what it finds. *)
LEMMA LibraryToldIs ==
    ASSUME NEW q, Scenario(q)
    PROVE  \A r : r \in LibraryTold(q) <=>
              \E name, index, detail : /\ LibraryGives(q, name, index, detail)
                                       /\ r = Reason(name, index, detail)
<1>. TAKE r
<1>1. PICK n \in Nat : n = scannedCount(q) /\ n <= Len(q.segments)  BY ScannedIs
<1>2. r \in LibraryTold(q) <=>
        \/ r \in LibraryOnce(q) \/ \E i \in 1 .. n : r \in LibraryAt(q, i)
        \/ r \in PayloadsTold(q)
  BY <1>1 DEF LibraryTold, PayloadsTold
<1>3. \A i \in 1 .. n : r \in LibraryAt(q, i) <=>
         \E name, detail : /\ LibraryFinds(q, i, q.segments[i], name, detail)
                           /\ r = Reason(name, i - 1, detail)
  <2>1. Len(q.segments) \in Nat  BY ScenarioIs
  <2>2. \A i \in 1 .. n : i \in 1 .. Len(q.segments)  BY <1>1, <2>1
  <2>. QED  BY <2>2, LibraryAtIs
<1>4. r \in LibraryOnce(q) <=>
         \E name, detail : LibraryFindsOnce(q, name, detail) /\ r = Reason(name, 0, detail)
  BY LibraryOnceIs
<1>5. r \in PayloadsTold(q) <=>
         \E name, index, detail : /\ PayloadFinds(q, name, index, detail)
                                  /\ r = Reason(name, index, detail)
  BY PayloadsAre
<1>6. ASSUME r \in LibraryTold(q)
      PROVE  \E name, index, detail : /\ LibraryGives(q, name, index, detail)
                                      /\ r = Reason(name, index, detail)
  BY <1>1, <1>2, <1>3, <1>4, <1>5, <1>6 DEF LibraryGives
<1>7. ASSUME NEW name, NEW index, NEW detail, LibraryGives(q, name, index, detail),
             r = Reason(name, index, detail)
      PROVE  r \in LibraryTold(q)
  BY <1>1, <1>2, <1>3, <1>4, <1>5, <1>7 DEF LibraryGives
<1>. QED  BY <1>6, <1>7

(* The oracle's reasons for a segment in its profile phase. *)
OracleProfile(p, s, f, x) ==
    Emit(\/ f.consecutive /\ ~ p.consecutive
         \/ f.nonConsecutive /\ ~ p.nonconsecutive, "ProfileRepeatNotPermitted", x, 0)
    \cup Emit(s.kind \notin p.kinds, "ProfileKindNotAllowed", x, KindCode[s.kind])
    \cup Emit(Len(s.payload) > p.payload_width, "ProfilePayloadWidthExceeded", x, p.payload_width)
    \cup Emit(kRequiredEncoding(s.kind) = "Invalid", "ProfileKindMismatch", x, 0)

(* They are these. *)
LEMMA OracleProfileIs ==
    ASSUME NEW p, NEW s, NEW f, NEW x
    PROVE  \A r : r \in OracleProfile(p, s, f, x) <=>
              \/ /\ \/ f.consecutive /\ ~ p.consecutive
                    \/ f.nonConsecutive /\ ~ p.nonconsecutive
                 /\ r = Reason("ProfileRepeatNotPermitted", x, 0)
              \/ s.kind \notin p.kinds /\ r = Reason("ProfileKindNotAllowed", x, KindCode[s.kind])
              \/ /\ Len(s.payload) > p.payload_width
                 /\ r = Reason("ProfilePayloadWidthExceeded", x, p.payload_width)
              \/ s.kind = "Invalid" /\ r = Reason("ProfileKindMismatch", x, 0)
<1>. TAKE r
<1>1. r \in Emit((f.consecutive /\ ~ p.consecutive) \/ (f.nonConsecutive /\ ~ p.nonconsecutive),
              "ProfileRepeatNotPermitted", x, 0) <=>
        ((f.consecutive /\ ~ p.consecutive) \/ (f.nonConsecutive /\ ~ p.nonconsecutive)) /\ r = Reason("ProfileRepeatNotPermitted", x, 0)
  BY DEF Emit, If, ToSet
<1>2. r \in Emit(s.kind \notin p.kinds,
              "ProfileKindNotAllowed", x, KindCode[s.kind]) <=>
        (s.kind \notin p.kinds) /\ r = Reason("ProfileKindNotAllowed", x, KindCode[s.kind])
  BY DEF Emit, If, ToSet
<1>3. r \in Emit(Len(s.payload) > p.payload_width,
              "ProfilePayloadWidthExceeded", x, p.payload_width) <=>
        (Len(s.payload) > p.payload_width) /\ r = Reason("ProfilePayloadWidthExceeded", x, p.payload_width)
  BY DEF Emit, If, ToSet
<1>4. r \in Emit(kRequiredEncoding(s.kind) = "Invalid",
              "ProfileKindMismatch", x, 0) <=>
        (kRequiredEncoding(s.kind) = "Invalid") /\ r = Reason("ProfileKindMismatch", x, 0)
  BY DEF Emit, If, ToSet
<1>5. kRequiredEncoding(s.kind) = "Invalid" <=> s.kind = "Invalid"  BY DEF kRequiredEncoding
<1>. QED  BY <1>1, <1>2, <1>3, <1>4, <1>5 DEF OracleProfile

(* Its reasons for a segment by itself. *)
LEMMA SegmentPhaseIs ==
    ASSUME NEW s \in SegmentType, NEW can, can.encoding = EffectiveEncoding(s), NEW x
    PROVE  \A r : r \in segmentPhase(s, can, x) <=>
              \/ s.kind = "Invalid" /\ r = Reason("SegmentKindInvalid", x, 0)
              \/ s.kind # "Invalid" /\ s.id = 0 /\ r = Reason("SegmentIdInvalid", x, 0)
              \/ s.kind # "Invalid" /\ s.gen = 0 /\ r = Reason("SegmentGenerationInvalid", x, 0)
              \/ /\ s.kind # "Invalid" /\ s.encoding \notin {"Invalid", s.kind}
                 /\ r = Reason("SegmentEncodingMismatch", x, KindCode[s.encoding])
              \/ s.kind # "Invalid" /\ s.fields = {} /\ r = Reason("SegmentMissingBinding", x, 0)
              \/ /\ s.kind # "Invalid" /\ s.fields # {} /\ kUses[s.kind] \ s.fields # {}
                 /\ r = Reason("SegmentBindingIncomplete", x, 0)
              \/ /\ s.kind # "Invalid" /\ ~ s.fields \subseteq Required[s.kind]
                 /\ r = Reason("SegmentReservedFieldSet", x, 0)
<1>. TAKE r
<1>1. r \in Emit(s.id = 0,
              "SegmentIdInvalid", x, 0) <=>
        (s.id = 0) /\ r = Reason("SegmentIdInvalid", x, 0)
  BY DEF Emit, If, ToSet
<1>2. r \in Emit(s.gen = 0,
              "SegmentGenerationInvalid", x, 0) <=>
        (s.gen = 0) /\ r = Reason("SegmentGenerationInvalid", x, 0)
  BY DEF Emit, If, ToSet
<1>3. r \in Emit(can.encoding # kRequiredEncoding(s.kind),
              "SegmentEncodingMismatch", x, KindCode[can.encoding]) <=>
        (can.encoding # kRequiredEncoding(s.kind)) /\ r = Reason("SegmentEncodingMismatch", x, KindCode[can.encoding])
  BY DEF Emit, If, ToSet
<1>4. r \in Emit(s.fields = {},
              "SegmentMissingBinding", x, 0) <=>
        (s.fields = {}) /\ r = Reason("SegmentMissingBinding", x, 0)
  BY DEF Emit, If, ToSet
<1>5. r \in Emit(s.fields # {} /\ kUses[s.kind] \ s.fields # {},
              "SegmentBindingIncomplete", x, 0) <=>
        (s.fields # {} /\ kUses[s.kind] \ s.fields # {}) /\ r = Reason("SegmentBindingIncomplete", x, 0)
  BY DEF Emit, If, ToSet
<1>6. r \in Emit(s.fields \ kUses[s.kind] # {},
              "SegmentReservedFieldSet", x, 0) <=>
        (s.fields \ kUses[s.kind] # {}) /\ r = Reason("SegmentReservedFieldSet", x, 0)
  BY DEF Emit, If, ToSet
<1>7. CASE s.kind = "Invalid"  BY <1>7 DEF segmentPhase
<1>8. CASE s.kind # "Invalid"
  <2>1. can.encoding # kRequiredEncoding(s.kind) <=> s.encoding \notin {"Invalid", s.kind}
    BY <1>8 DEF EffectiveEncoding, kRequiredEncoding
  <2>2. s.encoding \notin {"Invalid", s.kind} => can.encoding = s.encoding
    BY DEF EffectiveEncoding
  <2>3. s.fields \ kUses[s.kind] # {} <=> ~ s.fields \subseteq Required[s.kind]
    <3>1. kUses[s.kind] = Required[s.kind]  BY DEF kUses, Required, SegmentType, KindType, SegmentKind
    <3>. QED  BY <3>1
  <2>4. r \in segmentPhase(s, can, x) <=>
          \/ r \in Emit(s.id = 0, "SegmentIdInvalid", x, 0)
          \/ r \in Emit(s.gen = 0, "SegmentGenerationInvalid", x, 0)
          \/ r \in Emit(can.encoding # kRequiredEncoding(s.kind), "SegmentEncodingMismatch", x,
                        KindCode[can.encoding])
          \/ r \in Emit(s.fields = {}, "SegmentMissingBinding", x, 0)
          \/ r \in Emit(s.fields # {} /\ kUses[s.kind] \ s.fields # {},
                        "SegmentBindingIncomplete", x, 0)
          \/ r \in Emit(s.fields \ kUses[s.kind] # {}, "SegmentReservedFieldSet", x, 0)
    BY <1>8 DEF segmentPhase
  <2>. QED  BY <1>1, <1>2, <1>3, <1>4, <1>5, <1>6, <1>8, <2>1, <2>2, <2>3, <2>4
<1>. QED  BY <1>7, <1>8

(* Its reasons for a segment that repeats another. *)
OracleDuplicate(s, f, x) ==
    Emit(f.consecutive, "SegmentDuplicateConsecutive", x, s.id)
    \cup Emit(f.nonConsecutive, "SegmentDuplicateNonConsecutive", x, s.id)

(* All of its reasons for a segment. *)
OracleAt(q, i) ==
    OracleProfile(q.profile, q.segments[i], Facts(q)[i], i - 1)
    \cup segmentPhase(q.segments[i], canonicalize(q)[i], i - 1)
    \cup OracleDuplicate(q.segments[i], Facts(q)[i], i - 1)

(* They are what it finds in the segment. *)
LEMMA OracleAtIs ==
    ASSUME NEW q, Scenario(q), NEW i \in 1 .. scannedCount(q)
    PROVE  \A r : r \in OracleAt(q, i) <=>
              \E name, detail : /\ OracleFinds(q, i, q.segments[i], name, detail)
                                /\ r = Reason(name, i - 1, detail)
<1>. TAKE r
<1>1. PICK n \in Nat : n = scannedCount(q) /\ n <= Len(q.segments)  BY ScannedIs
<1>2. Len(q.segments) \in Nat  BY ScenarioIs
<1>3. i \in 1 .. Len(q.segments) /\ i \in 1 .. n  BY <1>1, <1>2
<1>4. PICK s \in SegmentType : s = q.segments[i]  BY <1>3, ScenarioIs
<1>5. PICK p : p = q.profile  OBVIOUS
<1>6. PICK x : x = i - 1  OBVIOUS
<1>7. PICK f : f = Facts(q)[i]  OBVIOUS
<1>8. PICK can : can = canonicalize(q)[i]  OBVIOUS
<1>9. can.encoding = EffectiveEncoding(s)  BY <1>3, <1>4, <1>8, CanonicalForms
<1>10. /\ f.consecutive \in BOOLEAN /\ f.nonConsecutive \in BOOLEAN
       /\ f.consecutive <=> SameAsLast(q, i)
       /\ f.nonConsecutive <=> SameAsOther(q, i)
  BY <1>1, <1>3, <1>7, FactsIs
<1>11. r \in OracleProfile(p, s, f, x) <=>
              \/ /\ \/ SameAsLast(q, i) /\ ~ p.consecutive
                    \/ SameAsOther(q, i) /\ ~ p.nonconsecutive
                 /\ r = Reason("ProfileRepeatNotPermitted", x, 0)
              \/ s.kind \notin p.kinds /\ r = Reason("ProfileKindNotAllowed", x, KindCode[s.kind])
              \/ /\ Len(s.payload) > p.payload_width
                 /\ r = Reason("ProfilePayloadWidthExceeded", x, p.payload_width)
              \/ s.kind = "Invalid" /\ r = Reason("ProfileKindMismatch", x, 0)
  BY <1>10, OracleProfileIs
<1>12. r \in segmentPhase(s, can, x) <=>
              \/ s.kind = "Invalid" /\ r = Reason("SegmentKindInvalid", x, 0)
              \/ s.kind # "Invalid" /\ s.id = 0 /\ r = Reason("SegmentIdInvalid", x, 0)
              \/ s.kind # "Invalid" /\ s.gen = 0 /\ r = Reason("SegmentGenerationInvalid", x, 0)
              \/ /\ s.kind # "Invalid" /\ s.encoding \notin {"Invalid", s.kind}
                 /\ r = Reason("SegmentEncodingMismatch", x, KindCode[s.encoding])
              \/ s.kind # "Invalid" /\ s.fields = {} /\ r = Reason("SegmentMissingBinding", x, 0)
              \/ /\ s.kind # "Invalid" /\ s.fields # {} /\ kUses[s.kind] \ s.fields # {}
                 /\ r = Reason("SegmentBindingIncomplete", x, 0)
              \/ /\ s.kind # "Invalid" /\ ~ s.fields \subseteq Required[s.kind]
                 /\ r = Reason("SegmentReservedFieldSet", x, 0)
  BY <1>9, SegmentPhaseIs
<1>13. r \in OracleDuplicate(s, f, x) <=>
              \/ SameAsLast(q, i) /\ r = Reason("SegmentDuplicateConsecutive", x, s.id)
              \/ SameAsOther(q, i) /\ r = Reason("SegmentDuplicateNonConsecutive", x, s.id)
  <2>1. r \in Emit(f.consecutive, "SegmentDuplicateConsecutive", x, s.id) <=>
          f.consecutive /\ r = Reason("SegmentDuplicateConsecutive", x, s.id)
    BY DEF Emit, If, ToSet
  <2>2. r \in Emit(f.nonConsecutive, "SegmentDuplicateNonConsecutive", x, s.id) <=>
          f.nonConsecutive /\ r = Reason("SegmentDuplicateNonConsecutive", x, s.id)
    BY DEF Emit, If, ToSet
  <2>. QED  BY <1>10, <2>1, <2>2 DEF OracleDuplicate
<1>14. r \in OracleAt(q, i) <=>
         \/ r \in OracleProfile(p, s, f, x) \/ r \in segmentPhase(s, can, x)
         \/ r \in OracleDuplicate(s, f, x)
  BY <1>4, <1>5, <1>6, <1>7, <1>8 DEF OracleAt
<1>15. r \in OracleAt(q, i) <=>
         \E name, detail : OracleFinds(q, i, s, name, detail) /\ r = Reason(name, x, detail)
  <2>1. ASSUME r \in OracleProfile(p, s, f, x)
        PROVE  \E name, detail : OracleFinds(q, i, s, name, detail) /\ r = Reason(name, x, detail)
    BY <1>5, <1>11, <2>1 DEF OracleFinds, BothFind
  <2>2. ASSUME r \in segmentPhase(s, can, x)
        PROVE  \E name, detail : OracleFinds(q, i, s, name, detail) /\ r = Reason(name, x, detail)
    BY <1>5, <1>12, <2>2 DEF OracleFinds, BothFind
  <2>3. ASSUME r \in OracleDuplicate(s, f, x)
        PROVE  \E name, detail : OracleFinds(q, i, s, name, detail) /\ r = Reason(name, x, detail)
    BY <1>13, <2>3 DEF OracleFinds
  <2>4. ASSUME NEW name, NEW detail, OracleFinds(q, i, s, name, detail), r = Reason(name, x, detail)
        PROVE  r \in OracleAt(q, i)
    BY <1>5, <1>11, <1>12, <1>13, <1>14, <2>4 DEF OracleFinds, BothFind
  <2>. QED  BY <1>14, <2>1, <2>2, <2>3, <2>4
<1>. QED  BY <1>4, <1>6, <1>15

(* The oracle's phases, segment by segment. *)
LEMMA OraclePhases ==
    ASSUME NEW q, Scenario(q), q.profile.payload_width # 0, NEW n \in Nat, n = scannedCount(q)
    PROVE  \A r : r \in check(q) <=>
              \/ \E name, detail : OracleFindsOnce(q, name, detail) /\ r = Reason(name, 0, detail)
              \/ \E i \in 1 .. n : r \in OracleAt(q, i)
              \/ r \in PayloadsTold(q)
<1>. TAKE r
<1>. DEFINE one(i) == OracleProfile(q.profile, q.segments[i], Facts(q)[i], i - 1)
            two(i) == segmentPhase(q.segments[i], canonicalize(q)[i], i - 1)
            three(i) == OracleDuplicate(q.segments[i], Facts(q)[i], i - 1)
<1>1. DOMAIN Facts(q) = 1 .. n  BY FactsIs
<1>2. r \in profilePhase(q) <=>
        \/ r \in DepthTold(q)
        \/ r \in Emit(q.segments = <<>> /\ ~ q.profile.empty, "ProfileEmptyNotPermitted", 0, 0)
        \/ \E i \in 1 .. n : r \in one(i)
  <2>1. profilePhase(q) =
           DepthTold(q)
           \cup Emit(q.segments = <<>> /\ ~ q.profile.empty, "ProfileEmptyNotPermitted", 0, 0)
           \cup UNION {one(i) : i \in 1 .. n}
    BY <1>1 DEF profilePhase, DepthTold, OracleProfile
  <2>2. r \in UNION {one(i) : i \in 1 .. n} <=> \E i \in 1 .. n : r \in one(i)
    <3>. HIDE DEF one
    <3>. QED  OBVIOUS
  <2>. HIDE DEF one
  <2>. QED  BY <2>1, <2>2
<1>3. r \in structuralPhase(q) <=> \E i \in 1 .. n : r \in two(i) \/ r \in three(i)
  <2>1. structuralPhase(q) = UNION {two(i) \cup three(i) : i \in 1 .. n}
    <3>1. structuralPhase(q) =
             UNION {two(i)
                    \cup Emit(Facts(q)[i].consecutive, "SegmentDuplicateConsecutive", i - 1,
                              q.segments[i].id)
                    \cup Emit(Facts(q)[i].nonConsecutive, "SegmentDuplicateNonConsecutive", i - 1,
                              q.segments[i].id) : i \in 1 .. n}
      BY <1>1 DEF structuralPhase
    <3>2. \A i : two(i)
                 \cup Emit(Facts(q)[i].consecutive, "SegmentDuplicateConsecutive", i - 1,
                           q.segments[i].id)
                 \cup Emit(Facts(q)[i].nonConsecutive, "SegmentDuplicateNonConsecutive", i - 1,
                           q.segments[i].id)
               = two(i) \cup three(i)
      <4>. HIDE DEF two
      <4>. QED  BY DEF OracleDuplicate
    <3>. HIDE DEF two, three
    <3>. QED  BY <3>1, <3>2
  <2>. HIDE DEF two, three
  <2>. QED  BY <2>1
<1>4. r \in evidencePhases(q) <=>
        \/ r \in CapabilityTold(q)
        \/ r \in Emit(\E i \in 1 .. n : q.segments[i].kind = "Adjacency",
                      "TopologyEvidenceUnavailable", 0, 0)
  BY DEF evidencePhases, CapabilityTold
<1>5. r \in limitsPhase(q) <=> r \in LimitTold(q) \/ r \in PayloadsTold(q)
  <2>1. DOMAIN q.segments = 1 .. Len(q.segments)  BY ScenarioIs
  <2>. QED  BY <2>1 DEF limitsPhase, LimitTold, PayloadsTold, PayloadTold
<1>6. r \in check(q) <=>
        \/ r \in profilePhase(q) \/ r \in structuralPhase(q)
        \/ r \in evidencePhases(q) \/ r \in limitsPhase(q)
  BY DEF check
<1>7. \A i : r \in OracleAt(q, i) <=> r \in one(i) \/ r \in two(i) \/ r \in three(i)
  BY DEF OracleAt
<1>8. r \in DepthTold(q) <=>
        /\ Len(q.segments) > q.profile.max_depth
        /\ r = Reason("ProfileMaxDepthExceeded", 0, q.profile.max_depth)
  BY DEF DepthTold, Emit, If, ToSet
<1>9. r \in Emit(q.segments = <<>> /\ ~ q.profile.empty, "ProfileEmptyNotPermitted", 0, 0) <=>
        q.segments = <<>> /\ ~ q.profile.empty /\ r = Reason("ProfileEmptyNotPermitted", 0, 0)
  BY DEF Emit, If, ToSet
<1>10. r \in CapabilityTold(q) <=>
         q.reqcaps > 0 /\ r = Reason("CapabilityEvidenceUnavailable", 0, 0)
  BY DEF CapabilityTold, Emit, If, ToSet
<1>11. r \in Emit(\E i \in 1 .. n : q.segments[i].kind = "Adjacency",
                  "TopologyEvidenceUnavailable", 0, 0) <=>
         /\ \E i \in 1 .. n : q.segments[i].kind = "Adjacency"
         /\ r = Reason("TopologyEvidenceUnavailable", 0, 0)
  BY DEF Emit, If, ToSet
<1>12. r \in LimitTold(q) <=>
         Len(q.segments) > MaxSegments /\ r = Reason("LimitMaxSegmentsPerList", 0, MaxSegments)
  BY DEF LimitTold, Emit, If, ToSet
<1>. DEFINE Once(name, detail) == OracleFindsOnce(q, name, detail) /\ r = Reason(name, 0, detail)
<1>13. (\E name, detail : Once(name, detail)) <=>
         \/ r \in DepthTold(q)
         \/ r \in Emit(q.segments = <<>> /\ ~ q.profile.empty, "ProfileEmptyNotPermitted", 0, 0)
         \/ r \in CapabilityTold(q)
         \/ r \in Emit(\E i \in 1 .. n : q.segments[i].kind = "Adjacency",
                       "TopologyEvidenceUnavailable", 0, 0)
         \/ r \in LimitTold(q)
  BY <1>8, <1>9, <1>10, <1>11, <1>12 DEF OracleFindsOnce, BothFindOnce
<1>. HIDE DEF one, two, three
<1>14. (\E i \in 1 .. n : r \in OracleAt(q, i)) <=>
         \/ \E i \in 1 .. n : r \in one(i)
         \/ \E i \in 1 .. n : r \in two(i) \/ r \in three(i)
  BY <1>7
<1>. QED  BY <1>2, <1>3, <1>4, <1>5, <1>6, <1>13, <1>14, Zenon

(* All that the oracle emits for a scenario is what it finds. *)
LEMMA OracleToldIs ==
    ASSUME NEW q, Scenario(q), q.profile.payload_width # 0
    PROVE  \A r : r \in check(q) <=>
              \E name, index, detail : /\ OracleGives(q, name, index, detail)
                                       /\ r = Reason(name, index, detail)
<1>. TAKE r
<1>1. PICK n \in Nat : n = scannedCount(q)  BY ScannedIs
<1>2. r \in check(q) <=>
        \/ \E name, detail : OracleFindsOnce(q, name, detail) /\ r = Reason(name, 0, detail)
        \/ \E i \in 1 .. n : r \in OracleAt(q, i)
        \/ r \in PayloadsTold(q)
  BY <1>1, OraclePhases
<1>3. \A i \in 1 .. n : r \in OracleAt(q, i) <=>
         \E name, detail : /\ OracleFinds(q, i, q.segments[i], name, detail)
                           /\ r = Reason(name, i - 1, detail)
  BY <1>1, OracleAtIs
<1>4. r \in PayloadsTold(q) <=>
         \E name, index, detail : /\ PayloadFinds(q, name, index, detail)
                                  /\ r = Reason(name, index, detail)
  BY PayloadsAre
<1>5. ASSUME r \in check(q)
      PROVE  \E name, index, detail : /\ OracleGives(q, name, index, detail)
                                      /\ r = Reason(name, index, detail)
  BY <1>1, <1>2, <1>3, <1>4, <1>5 DEF OracleGives
<1>6. ASSUME NEW name, NEW index, NEW detail, OracleGives(q, name, index, detail),
             r = Reason(name, index, detail)
      PROVE  r \in check(q)
  BY <1>1, <1>2, <1>3, <1>4, <1>6 DEF OracleGives
<1>. QED  BY <1>5, <1>6

--------------------------------------------------------------------------------
(* The comparison of the two. *)

(* The places of some reasons; a reason is told by its place. *)
PlacesOf(reasons) == {<<r.code, r.index>> : r \in reasons}
Determined(reasons) ==
    \A r, t \in reasons : r.code = t.code /\ r.index = t.index => r = t

(* As many reasons are at the same places. *)
LEMMA SamePlaces ==
    ASSUME NEW A, NEW B, PlacesOf(A) = PlacesOf(B), Determined(A), Determined(B), IsFiniteSet(A)
    PROVE  IsFiniteSet(B) /\ Cardinality(A) = Cardinality(B)
<1>. DEFINE at(r, t) == t.code = r.code /\ t.index = r.index
            f == [r \in A |-> CHOOSE t \in B : at(r, t)]
<1>1. \A r \in A : \E t \in B : at(r, t)
  <2>. SUFFICES ASSUME NEW r \in A PROVE \E t \in B : at(r, t)  OBVIOUS
  <2>1. <<r.code, r.index>> \in PlacesOf(A)  BY DEF PlacesOf
  <2>2. PICK t \in B : <<r.code, r.index>> = <<t.code, t.index>>  BY <2>1 DEF PlacesOf
  <2>. QED  BY <2>2
<1>2. \A t \in B : \E r \in A : at(r, t)
  <2>. SUFFICES ASSUME NEW t \in B PROVE \E r \in A : at(r, t)  OBVIOUS
  <2>1. <<t.code, t.index>> \in PlacesOf(B)  BY DEF PlacesOf
  <2>2. PICK r \in A : <<t.code, t.index>> = <<r.code, r.index>>  BY <2>1 DEF PlacesOf
  <2>. QED  BY <2>2
<1>3. \A r \in A : f[r] \in B /\ at(r, f[r])  BY <1>1
<1>4. f \in [A -> B]  BY <1>3
<1>5. \A r, u \in A : f[r] = f[u] => r = u
  <2>. SUFFICES ASSUME NEW r \in A, NEW u \in A, f[r] = f[u] PROVE r = u  OBVIOUS
  <2>1. at(r, f[r]) /\ at(u, f[u])  BY <1>3
  <2>. HIDE DEF f
  <2>. QED  BY <2>1 DEF Determined
<1>6. \A t \in B : \E r \in A : f[r] = t
  <2>. SUFFICES ASSUME NEW t \in B PROVE \E r \in A : f[r] = t  OBVIOUS
  <2>1. PICK r \in A : at(r, t)  BY <1>2
  <2>2. f[r] \in B /\ at(r, f[r])  BY <1>3
  <2>. HIDE DEF f
  <2>3. f[r] = t  BY <2>1, <2>2 DEF Determined
  <2>. QED  BY <2>3
<1>. HIDE DEF f
<1>7. f \in Bijection(A, B)
  <2>1. f \in Injection(A, B)  BY <1>4, <1>5 DEF Injection, IsInjective
  <2>2. f \in Surjection(A, B)  BY <1>4, <1>6 DEF Surjection
  <2>. QED  BY <2>1, <2>2 DEF Bijection
<1>. QED  BY <1>7, FS_Bijection DEF ExistsBijection

(* The detail of what is found at a place; the two give their own for a    *)
(* repeat.                                                                 *)
DetailOf(q, name, index, repeat) ==
    IF name = "ProfileMaxDepthExceeded" THEN q.profile.max_depth
    ELSE IF name = "LimitMaxSegmentsPerList" THEN MaxSegments
    ELSE IF name = "LimitMaxSegmentPayloadBytes" THEN MaxPayload
    ELSE IF name = "ProfileKindNotAllowed" THEN KindCode[q.segments[index + 1].kind]
    ELSE IF name = "ProfilePayloadWidthExceeded" THEN q.profile.payload_width
    ELSE IF name = "SegmentEncodingMismatch" THEN KindCode[q.segments[index + 1].encoding]
    ELSE IF name \in {"SegmentDuplicateConsecutive", "SegmentDuplicateNonConsecutive"}
         THEN q.segments[index + 1].id
    ELSE IF name = "ProfileRepeatNotPermitted" THEN repeat
    ELSE 0

(* What both find has it, and can be told by its name. *)
LEMMA BothFindOnceTyped ==
    ASSUME NEW q, Scenario(q), NEW name, NEW detail, BothFindOnce(q, name, detail), NEW repeat
    PROVE  name \in ReasonNames /\ detail \in Nat /\ detail = DetailOf(q, name, 0, repeat)
<1>1. name \in ReasonNames  BY SequenceNames DEF BothFindOnce
<1>2. detail = DetailOf(q, name, 0, repeat)  BY DEF BothFindOnce, DetailOf
<1>3. detail \in Nat  BY ScenarioIs, ValidationAssumption DEF BothFindOnce
<1>. QED  BY <1>1, <1>2, <1>3

(* What both find in a segment, *)
LEMMA BothFindTyped ==
    ASSUME NEW q, Scenario(q), NEW i \in 1 .. Len(q.segments), NEW name, NEW detail,
           BothFind(q.profile, q.segments[i], name, detail), NEW repeat
    PROVE  /\ name \in ReasonNames /\ i - 1 \in Nat /\ detail \in Nat
           /\ detail = DetailOf(q, name, i - 1, repeat)
<1>1. PICK s \in SegmentType : s = q.segments[i]  BY ScenarioIs
<1>2. i - 1 \in Nat /\ (i - 1) + 1 = i  OBVIOUS
<1>3. KindCode[s.kind] \in Nat /\ KindCode[s.encoding] \in Nat  BY SegmentIs
<1>4. q.profile.payload_width \in Nat  BY ScenarioIs
<1>5. name \in ReasonNames  BY SequenceNames DEF BothFind
<1>6. detail \in Nat  BY <1>1, <1>3, <1>4 DEF BothFind
<1>7. detail = DetailOf(q, name, i - 1, repeat)  BY <1>2 DEF BothFind, DetailOf
<1>. QED  BY <1>2, <1>5, <1>6, <1>7

(* and in its payload. *)
LEMMA PayloadFindsTyped ==
    ASSUME NEW q, Scenario(q), NEW name, NEW index, NEW detail,
           PayloadFinds(q, name, index, detail), NEW repeat
    PROVE  /\ name \in ReasonNames /\ index \in Nat /\ detail \in Nat
           /\ detail = DetailOf(q, name, index, repeat)
<1>1. name \in ReasonNames  BY SequenceNames DEF PayloadFinds
<1>2. index \in Nat
  <2>1. PICK i \in 1 .. Len(q.segments) : index = i - 1  BY DEF PayloadFinds
  <2>2. Len(q.segments) \in Nat  BY ScenarioIs
  <2>. QED  BY <2>1, <2>2
<1>3. detail \in Nat  BY ValidationAssumption DEF PayloadFinds
<1>4. detail = DetailOf(q, name, index, repeat)  BY DEF PayloadFinds, DetailOf
<1>. QED  BY <1>1, <1>2, <1>3, <1>4

(* So has what the library finds, *)
LEMMA LibraryGivesTyped ==
    ASSUME NEW q, Scenario(q), NEW name, NEW index, NEW detail,
           LibraryGives(q, name, index, detail)
    PROVE  /\ name \in ReasonNames /\ index \in Nat /\ detail \in Nat
           /\ detail = DetailOf(q, name, index, q.segments[index + 1].id)
<1>1. PICK n \in Nat : n = scannedCount(q) /\ n <= Len(q.segments)  BY ScannedIs
<1>2. Len(q.segments) \in Nat  BY ScenarioIs
<1>3. CASE index = 0 /\ LibraryFindsOnce(q, name, detail)
  <2>1. CASE BothFindOnce(q, name, detail)  BY <1>3, <2>1, BothFindOnceTyped
  <2>2. CASE ~ BothFindOnce(q, name, detail)
    <3>1. /\ detail = 0
          /\ name \in {"ListEmptyNotPermitted", "ProfileGenerationInvalid",
                       "TopologyEvidenceUnavailable"}
      BY <1>3, <2>2 DEF LibraryFindsOnce
    <3>2. detail = DetailOf(q, name, index, q.segments[index + 1].id)  BY <3>1 DEF DetailOf
    <3>. QED  BY <1>3, <3>1, <3>2, SequenceNames
  <2>. QED  BY <2>1, <2>2
<1>4. CASE \E i \in 1 .. n : index = i - 1 /\ LibraryFinds(q, i, q.segments[i], name, detail)
  <2>1. PICK i \in 1 .. n : index = i - 1 /\ LibraryFinds(q, i, q.segments[i], name, detail)
    BY <1>4
  <2>2. i \in 1 .. Len(q.segments) /\ index \in Nat /\ index + 1 = i  BY <1>1, <1>2, <2>1
  <2>3. CASE BothFind(q.profile, q.segments[i], name, detail)
    <3>1. PICK repeat : repeat = q.segments[index + 1].id  OBVIOUS
    <3>2. /\ name \in ReasonNames /\ i - 1 \in Nat /\ detail \in Nat
          /\ detail = DetailOf(q, name, i - 1, repeat)
      BY <2>2, <2>3, BothFindTyped
    <3>. QED  BY <2>1, <3>1, <3>2
  <2>4. CASE ~ BothFind(q.profile, q.segments[i], name, detail)
    <3>1. PICK s \in SegmentType : s = q.segments[i]  BY <2>2, ScenarioIs
    <3>2. \/ name \in {"SegmentBindingIncomplete", "SegmentMissingBinding"} /\ detail = 0
          \/ /\ name \in {"ProfileRepeatNotPermitted", "SegmentDuplicateConsecutive",
                          "SegmentDuplicateNonConsecutive"}
             /\ detail = s.id
      BY <2>1, <2>4, <3>1 DEF LibraryFinds
    <3>3. detail = DetailOf(q, name, index, q.segments[index + 1].id)
      BY <2>2, <3>1, <3>2 DEF DetailOf
    <3>4. detail \in Nat  BY <3>2, SegmentIs
    <3>5. name \in ReasonNames  BY <3>2, SequenceNames
    <3>. QED  BY <2>2, <3>3, <3>4, <3>5
  <2>. QED  BY <2>3, <2>4
<1>5. CASE PayloadFinds(q, name, index, detail)  BY <1>5, PayloadFindsTyped
<1>. QED  BY <1>1, <1>3, <1>4, <1>5 DEF LibraryGives

(* and what the oracle does. *)
LEMMA OracleGivesTyped ==
    ASSUME NEW q, Scenario(q), NEW name, NEW index, NEW detail,
           OracleGives(q, name, index, detail)
    PROVE  /\ name \in ReasonNames /\ index \in Nat /\ detail \in Nat
           /\ detail = DetailOf(q, name, index, 0)
<1>1. PICK n \in Nat : n = scannedCount(q) /\ n <= Len(q.segments)  BY ScannedIs
<1>2. Len(q.segments) \in Nat  BY ScenarioIs
<1>3. CASE index = 0 /\ OracleFindsOnce(q, name, detail)
  <2>1. CASE BothFindOnce(q, name, detail)  BY <1>3, <2>1, BothFindOnceTyped
  <2>2. CASE ~ BothFindOnce(q, name, detail)
    <3>1. detail = 0 /\ name = "TopologyEvidenceUnavailable"
      BY <1>3, <2>2 DEF OracleFindsOnce
    <3>2. detail = DetailOf(q, name, index, 0)  BY <3>1 DEF DetailOf
    <3>. QED  BY <1>3, <3>1, <3>2, SequenceNames
  <2>. QED  BY <2>1, <2>2
<1>4. CASE \E i \in 1 .. n : index = i - 1 /\ OracleFinds(q, i, q.segments[i], name, detail)
  <2>1. PICK i \in 1 .. n : index = i - 1 /\ OracleFinds(q, i, q.segments[i], name, detail)
    BY <1>4
  <2>2. i \in 1 .. Len(q.segments) /\ index \in Nat /\ index + 1 = i  BY <1>1, <1>2, <2>1
  <2>3. CASE BothFind(q.profile, q.segments[i], name, detail)
    <3>1. PICK repeat : repeat = 0  OBVIOUS
    <3>2. /\ name \in ReasonNames /\ i - 1 \in Nat /\ detail \in Nat
          /\ detail = DetailOf(q, name, i - 1, repeat)
      BY <2>2, <2>3, BothFindTyped
    <3>. QED  BY <2>1, <3>1, <3>2
  <2>4. CASE ~ BothFind(q.profile, q.segments[i], name, detail)
    <3>1. PICK s \in SegmentType : s = q.segments[i]  BY <2>2, ScenarioIs
    <3>2. \/ /\ name \in {"SegmentBindingIncomplete", "SegmentMissingBinding",
                          "ProfileRepeatNotPermitted"}
             /\ detail = 0
          \/ /\ name \in {"SegmentDuplicateConsecutive", "SegmentDuplicateNonConsecutive"}
             /\ detail = s.id
      BY <2>1, <2>4, <3>1 DEF OracleFinds
    <3>3. detail = DetailOf(q, name, index, 0)  BY <2>2, <3>1, <3>2 DEF DetailOf
    <3>4. detail \in Nat  BY <3>2, SegmentIs
    <3>5. name \in ReasonNames  BY <3>2, SequenceNames
    <3>. QED  BY <2>2, <3>3, <3>4, <3>5
  <2>. QED  BY <2>3, <2>4
<1>5. CASE PayloadFinds(q, name, index, detail)  BY <1>5, PayloadFindsTyped
<1>. QED  BY <1>1, <1>3, <1>4, <1>5 DEF OracleGives

(* A reason of either is told by its place. *)
LEMMA BothDetermined ==
    ASSUME NEW q, Scenario(q)
    PROVE  /\ Determined(LibraryTold(q))
           /\ q.profile.payload_width # 0 => Determined(check(q))
<1>1. ASSUME NEW r \in LibraryTold(q), NEW t \in LibraryTold(q), r.code = t.code, r.index = t.index
      PROVE  r = t
  <2>1. PICK a, x, d : LibraryGives(q, a, x, d) /\ r = Reason(a, x, d)  BY LibraryToldIs
  <2>2. PICK b, y, e : LibraryGives(q, b, y, e) /\ t = Reason(b, y, e)  BY LibraryToldIs
  <2>3. a \in ReasonNames /\ x \in Nat /\ d \in Nat /\ d = DetailOf(q, a, x, q.segments[x + 1].id)
    BY <2>1, LibraryGivesTyped
  <2>4. b \in ReasonNames /\ y \in Nat /\ e \in Nat /\ e = DetailOf(q, b, y, q.segments[y + 1].id)
    BY <2>2, LibraryGivesTyped
  <2>5. kCodes[r.code][1] = a /\ r.index = x  BY <2>1, <2>3, NamedReason
  <2>6. kCodes[t.code][1] = b /\ t.index = y  BY <2>2, <2>4, NamedReason
  <2>7. a = b /\ x = y  BY <1>1, <2>5, <2>6, Zenon
  <2>8. d = e  BY <2>3, <2>4, <2>7, Zenon
  <2>. QED  BY <2>1, <2>2, <2>7, <2>8, Zenon
<1>2. ASSUME q.profile.payload_width # 0,
             NEW r \in check(q), NEW t \in check(q), r.code = t.code, r.index = t.index
      PROVE  r = t
  <2>1. PICK a, x, d : OracleGives(q, a, x, d) /\ r = Reason(a, x, d)  BY <1>2, OracleToldIs
  <2>2. PICK b, y, e : OracleGives(q, b, y, e) /\ t = Reason(b, y, e)  BY <1>2, OracleToldIs
  <2>3. a \in ReasonNames /\ x \in Nat /\ d \in Nat /\ d = DetailOf(q, a, x, 0)
    BY <2>1, OracleGivesTyped
  <2>4. b \in ReasonNames /\ y \in Nat /\ e \in Nat /\ e = DetailOf(q, b, y, 0)
    BY <2>2, OracleGivesTyped
  <2>5. kCodes[r.code][1] = a /\ r.index = x  BY <2>1, <2>3, NamedReason
  <2>6. kCodes[t.code][1] = b /\ t.index = y  BY <2>2, <2>4, NamedReason
  <2>7. a = b /\ x = y  BY <1>2, <2>5, <2>6, Zenon
  <2>8. d = e  BY <2>3, <2>4, <2>7, Zenon
  <2>. QED  BY <2>1, <2>2, <2>7, <2>8, Zenon
<1>. QED  BY <1>1, <1>2 DEF Determined

(* The pairs of segments that are digested the same. *)
LEMMA RepeatPairs ==
    ASSUME NEW q, Scenario(q), NEW i \in 1 .. scannedCount(q), NEW j \in 1 .. i - 1
    PROVE  <<j, i>> \in Repeats(q) <=> Digested(q, j) = Digested(q, i)
<1>1. PICK n \in Nat : n = scannedCount(q) /\ n <= Len(q.segments)  BY ScannedIs
<1>2. Len(q.segments) \in Nat /\ DOMAIN q.segments = 1 .. Len(q.segments)  BY ScenarioIs
<1>3. PICK c : c = canonical_sequence(q)  OBVIOUS
<1>4. c = [k \in 1 .. Len(q.segments) |-> Digested(q, k)]
  BY <1>2, <1>3 DEF canonical_sequence, Digested
<1>5. Len(c) = Len(q.segments)  BY <1>2, <1>4
<1>6. Repeats(q) = {r \in (1 .. n) \X (1 .. n) : r[1] < r[2] /\ c[r[1]] = c[r[2]]}
  BY <1>1, <1>3, <1>5 DEF Repeats, scannedCount
<1>7. <<j, i>> \in (1 .. n) \X (1 .. n) /\ j < i  BY <1>1
<1>8. c[j] = Digested(q, j) /\ c[i] = Digested(q, i)
  <2>1. i \in 1 .. Len(q.segments) /\ j \in 1 .. Len(q.segments)  BY <1>1, <1>2
  <2>. QED  BY <1>4, <2>1
<1>. QED  BY <1>6, <1>7, <1>8

(* What the library forbids is digested the same, and the other way round  *)
(* in the joint scope, if the payloads are not too wide.                   *)
LEMMA JointRepeats ==
    ASSUME NEW q, Scenario(q), JointScope(q), NEW i \in 1 .. scannedCount(q), NEW j \in 1 .. i - 1
    PROVE  /\ Forbids(q, j, i) => Digested(q, j) = Digested(q, i)
           /\ Digested(q, j) = Digested(q, i) =>
                 ~ IF j + 1 = i THEN q.profile.consecutive ELSE q.profile.nonconsecutive
           /\ /\ Digested(q, j) = Digested(q, i)
              /\ Len(q.segments[i].payload) <= q.profile.payload_width
              /\ Len(q.segments[j].payload) <= q.profile.payload_width
              => Forbids(q, j, i)
<1>1. PICK n \in Nat : n = scannedCount(q) /\ n <= Len(q.segments)  BY ScannedIs
<1>2. Len(q.segments) \in Nat /\ q.profile.payload_width \in Nat /\ q.profile # None  BY ScenarioIs
<1>3. i \in 1 .. Len(q.segments) /\ j \in 1 .. Len(q.segments)  BY <1>1, <1>2
<1>4. PICK w \in Nat : w = q.profile.payload_width  BY <1>2
<1>5. PICK s \in SegmentType : s = q.segments[i]  BY <1>3, ScenarioIs
<1>6. PICK t \in SegmentType : t = q.segments[j]  BY <1>3, ScenarioIs
<1>7. Digested(q, i) = Canonical(s, w) /\ Digested(q, j) = Canonical(t, w)
  BY <1>4, <1>5, <1>6 DEF Digested
<1>8. PICK ok : ok = IF j + 1 = i THEN q.profile.consecutive ELSE q.profile.nonconsecutive
  OBVIOUS
<1>9. Forbids(q, j, i) <=> SegmentSemanticEqual(t, s, w) /\ ~ ok
  BY <1>2, <1>4, <1>5, <1>6, <1>8 DEF Forbids, Forbidden
<1>10. SegmentSemanticEqual(t, s, w) => Len(s.payload) <= w /\ Len(t.payload) <= w
  BY DEF SegmentSemanticEqual
<1>11. Len(s.payload) <= w /\ Len(t.payload) <= w =>
         (SegmentSemanticEqual(t, s, w) <=> Canonical(t, w) = Canonical(s, w))
  BY SameCanonicalForm
<1>12. Digested(q, j) = Digested(q, i) => ~ ok
  <2>1. ASSUME Digested(q, j) = Digested(q, i) PROVE ~ Permitted(q, <<j, i>>)
    <3>1. <<j, i>> \in Repeats(q)  BY <2>1, RepeatPairs
    <3>. QED  BY <3>1 DEF JointScope
  <2>2. Permitted(q, <<j, i>>) = ok  BY <1>8 DEF Permitted
  <2>. QED  BY <2>1, <2>2
<1>. QED  BY <1>4, <1>5, <1>6, <1>7, <1>8, <1>9, <1>10, <1>11, <1>12

(* Every kind requires an entity. *)
LEMMA EntityRequired ==
    ASSUME NEW s \in SegmentType, s.kind # "Invalid"
    PROVE  /\ kUses[s.kind] = Required[s.kind]
           /\ s.fields \cap EntityFields = {} => ~ Required[s.kind] \subseteq s.fields
<1>1. s.kind \in SegmentKind  BY DEF SegmentType, KindType
<1>2. kUses[s.kind] = Required[s.kind]  BY <1>1 DEF kUses, Required, SegmentKind
<1>3. \E e \in EntityFields : e \in Required[s.kind]
  <2>1. CASE s.kind = "Node"  BY <2>1 DEF Required, EntityFields
  <2>2. CASE s.kind = "Adjacency"  BY <2>2 DEF Required, EntityFields
  <2>3. CASE s.kind = "Endpoint"  BY <2>3 DEF Required, EntityFields
  <2>4. CASE s.kind = "Binding"  BY <2>4 DEF Required, EntityFields
  <2>5. CASE s.kind = "Policy"  BY <2>5 DEF Required, EntityFields
  <2>. QED  BY <1>1, <2>1, <2>2, <2>3, <2>4, <2>5 DEF SegmentKind
<1>4. s.fields \cap EntityFields = {} => ~ Required[s.kind] \subseteq s.fields  BY <1>3
<1>. QED  BY <1>2, <1>4

(* What the library finds in a segment, the oracle finds in it too, if     *)
(* perhaps something else.                                                 *)
LEMMA OracleFindsToo ==
    ASSUME NEW q, Scenario(q), JointScope(q), NEW i \in 1 .. scannedCount(q), NEW name, NEW detail,
           LibraryFinds(q, i, q.segments[i], name, detail)
    PROVE  \E a, d : OracleFinds(q, i, q.segments[i], a, d)
<1>1. PICK n \in Nat : n = scannedCount(q) /\ n <= Len(q.segments)  BY ScannedIs
<1>2. Len(q.segments) \in Nat  BY ScenarioIs
<1>3. i \in 1 .. Len(q.segments)  BY <1>1, <1>2
<1>4. PICK s \in SegmentType : s = q.segments[i]  BY <1>3, ScenarioIs
<1>5. CASE BothFind(q.profile, s, name, detail)  BY <1>4, <1>5 DEF OracleFinds
<1>6. CASE /\ s.kind # "Invalid"
           /\ ~ Required[s.kind] \subseteq s.fields \/ s.fields \cap EntityFields = {}
  <2>1. kUses[s.kind] \ s.fields # {}  BY <1>6, EntityRequired
  <2>2. CASE s.fields = {}
    <3>1. OracleFinds(q, i, s, "SegmentMissingBinding", 0)  BY <1>6, <2>2 DEF OracleFinds
    <3>. QED  BY <1>4, <3>1
  <2>3. CASE s.fields # {}
    <3>1. OracleFinds(q, i, s, "SegmentBindingIncomplete", 0)  BY <1>6, <2>1, <2>3 DEF OracleFinds
    <3>. QED  BY <1>4, <3>1
  <2>. QED  BY <2>2, <2>3
<1>7. CASE RepeatsAny(q, i) \/ RepeatsLast(q, i) \/ RepeatsOther(q, i)
  <2>1. PICK j \in 1 .. i - 1 : Forbids(q, j, i)
    BY <1>7 DEF RepeatsAny, RepeatsLast, RepeatsOther
  <2>2. Digested(q, j) = Digested(q, i)  BY <2>1, JointRepeats
  <2>3. SameAsLast(q, i) \/ SameAsOther(q, i)  BY <2>2 DEF SameAsLast, SameAsOther
  <2>4. \/ OracleFinds(q, i, s, "SegmentDuplicateConsecutive", s.id)
        \/ OracleFinds(q, i, s, "SegmentDuplicateNonConsecutive", s.id)
    BY <2>3 DEF OracleFinds
  <2>. QED  BY <1>4, <2>4
<1>. QED  BY <1>4, <1>5, <1>6, <1>7 DEF LibraryFinds

(* What the oracle finds in a segment, the library finds in it, if perhaps *)
(* something else or in an earlier one.                                    *)
LEMMA LibraryFindsToo ==
    ASSUME NEW q, Scenario(q), JointScope(q), NEW i \in 1 .. scannedCount(q), NEW name, NEW detail,
           OracleFinds(q, i, q.segments[i], name, detail)
    PROVE  \E k \in 1 .. scannedCount(q) : \E a, d : LibraryFinds(q, k, q.segments[k], a, d)
<1>1. PICK n \in Nat : n = scannedCount(q) /\ n <= Len(q.segments)  BY ScannedIs
<1>2. Len(q.segments) \in Nat /\ q.profile.payload_width \in Nat  BY ScenarioIs
<1>3. i \in 1 .. Len(q.segments)  BY <1>1, <1>2
<1>4. PICK s \in SegmentType : s = q.segments[i]  BY <1>3, ScenarioIs
<1>5. CASE BothFind(q.profile, s, name, detail)
  <2>1. LibraryFinds(q, i, s, name, detail)  BY <1>5 DEF LibraryFinds
  <2>. QED  BY <1>4, <2>1
<1>6. CASE s.kind # "Invalid" /\ s.fields # {} /\ kUses[s.kind] \ s.fields # {}
  <2>1. ~ Required[s.kind] \subseteq s.fields  BY <1>6, EntityRequired
  <2>2. LibraryFinds(q, i, s, "SegmentBindingIncomplete", 0)  BY <1>6, <2>1 DEF LibraryFinds
  <2>. QED  BY <1>4, <2>2
<1>7. CASE s.kind # "Invalid" /\ s.fields = {}
  <2>1. s.fields \cap EntityFields = {}  BY <1>7
  <2>2. LibraryFinds(q, i, s, "SegmentMissingBinding", 0)  BY <1>7, <2>1 DEF LibraryFinds
  <2>. QED  BY <1>4, <2>2
<1>8. CASE SameAsLast(q, i) \/ SameAsOther(q, i)
  <2>1. PICK j \in 1 .. i - 1 : Digested(q, j) = Digested(q, i)
    BY <1>8 DEF SameAsLast, SameAsOther
  <2>2. j \in 1 .. n /\ j \in 1 .. Len(q.segments)  BY <1>1, <1>2
  <2>3. PICK t \in SegmentType : t = q.segments[j]  BY <2>2, ScenarioIs
  <2>4. PICK w \in Nat : w = q.profile.payload_width  BY <1>2
  <2>5. Len(s.payload) \in Nat /\ Len(t.payload) \in Nat  BY SegmentIs
  <2>6. CASE Len(s.payload) > w
    <3>1. LibraryFinds(q, i, s, "ProfilePayloadWidthExceeded", w)
      BY <2>4, <2>6 DEF LibraryFinds, BothFind
    <3>. QED  BY <1>4, <3>1
  <2>7. CASE Len(t.payload) > w
    <3>1. LibraryFinds(q, j, t, "ProfilePayloadWidthExceeded", w)
      BY <2>4, <2>7 DEF LibraryFinds, BothFind
    <3>. QED  BY <1>1, <2>2, <2>3, <3>1
  <2>8. CASE Len(s.payload) <= w /\ Len(t.payload) <= w
    <3>1. Forbids(q, j, i)  BY <1>4, <2>1, <2>3, <2>4, <2>8, JointRepeats
    <3>2. RepeatsAny(q, i)  BY <3>1 DEF RepeatsAny
    <3>3. LibraryFinds(q, i, s, "ProfileRepeatNotPermitted", s.id)  BY <3>2 DEF LibraryFinds
    <3>. QED  BY <1>4, <3>3
  <2>. QED  BY <2>5, <2>6, <2>7, <2>8
<1>. QED  BY <1>4, <1>5, <1>6, <1>7, <1>8 DEF OracleFinds

(* They refuse the same scenarios of their joint scope. *)
LEMMA JointRefusals ==
    ASSUME NEW q, Scenario(q), JointScope(q)
    PROVE  (\E a, x, d : LibraryGives(q, a, x, d)) <=> (\E a, x, d : OracleGives(q, a, x, d))
<1>1. PICK n \in Nat : /\ n = scannedCount(q) /\ n <= Len(q.segments)
                       /\ n < Len(q.segments) => Len(q.segments) > MaxSegments
  BY ScannedIs
<1>2. Len(q.segments) \in Nat /\ DOMAIN q.segments = 1 .. Len(q.segments)  BY ScenarioIs
<1>3. q.profile.gen # 0  BY DEF JointScope
<1>4. ASSUME NEW a, NEW x, NEW d, LibraryGives(q, a, x, d)
      PROVE  \E b, y, e : OracleGives(q, b, y, e)
  <2>1. CASE LibraryFindsOnce(q, a, d)
    <3>1. CASE BothFindOnce(q, a, d)
      <4>1. OracleGives(q, a, 0, d)  BY <3>1 DEF OracleGives, OracleFindsOnce
      <4>. QED  BY <4>1
    <3>2. CASE q.segments = <<>> /\ ~ q.profile.empty
      <4>1. OracleGives(q, "ProfileEmptyNotPermitted", 0, 0)
        BY <3>2 DEF OracleGives, OracleFindsOnce, BothFindOnce
      <4>. QED  BY <4>1
    <3>3. CASE \E s \in ToSet(q.segments) : s.kind = "Adjacency"
      <4>1. PICK k \in 1 .. Len(q.segments) : q.segments[k].kind = "Adjacency"
        BY <1>2, <3>3 DEF ToSet
      <4>2. CASE k <= n
        <5>1. k \in 1 .. n  BY <1>1, <1>2, <4>2
        <5>2. OracleFindsOnce(q, "TopologyEvidenceUnavailable", 0)
          BY <1>1, <4>1, <5>1 DEF OracleFindsOnce
        <5>3. OracleGives(q, "TopologyEvidenceUnavailable", 0, 0)  BY <5>2 DEF OracleGives
        <5>. QED  BY <5>3
      <4>3. CASE k > n
        <5>1. Len(q.segments) > MaxSegments  BY <1>1, <1>2, <4>3
        <5>2. OracleGives(q, "LimitMaxSegmentsPerList", 0, MaxSegments)
          BY <5>1 DEF OracleGives, OracleFindsOnce, BothFindOnce
        <5>. QED  BY <5>2
      <4>. QED  BY <1>1, <1>2, <4>2, <4>3
    <3>. QED  BY <1>3, <2>1, <3>1, <3>2, <3>3 DEF LibraryFindsOnce
  <2>2. CASE \E i \in 1 .. scannedCount(q) : LibraryFinds(q, i, q.segments[i], a, d)
    <3>1. PICK i \in 1 .. scannedCount(q) : LibraryFinds(q, i, q.segments[i], a, d)  BY <2>2
    <3>2. PICK b, e : OracleFinds(q, i, q.segments[i], b, e)  BY <3>1, OracleFindsToo
    <3>3. OracleGives(q, b, i - 1, e)  BY <3>2 DEF OracleGives
    <3>. QED  BY <3>3
  <2>3. CASE PayloadFinds(q, a, x, d)  BY <2>3 DEF OracleGives
  <2>. QED  BY <1>4, <2>1, <2>2, <2>3 DEF LibraryGives
<1>5. ASSUME NEW a, NEW x, NEW d, OracleGives(q, a, x, d)
      PROVE  \E b, y, e : LibraryGives(q, b, y, e)
  <2>1. CASE OracleFindsOnce(q, a, d)
    <3>1. CASE BothFindOnce(q, a, d)
      <4>1. LibraryGives(q, a, 0, d)  BY <3>1 DEF LibraryGives, LibraryFindsOnce
      <4>. QED  BY <4>1
    <3>2. CASE \E i \in 1 .. scannedCount(q) : q.segments[i].kind = "Adjacency"
      <4>1. PICK i \in 1 .. n : q.segments[i].kind = "Adjacency"  BY <1>1, <3>2
      <4>2. i \in DOMAIN q.segments  BY <1>1, <1>2
      <4>3. q.segments[i] \in ToSet(q.segments)  BY <4>2 DEF ToSet
      <4>4. LibraryFindsOnce(q, "TopologyEvidenceUnavailable", 0)
        BY <4>1, <4>3 DEF LibraryFindsOnce
      <4>5. LibraryGives(q, "TopologyEvidenceUnavailable", 0, 0)  BY <4>4 DEF LibraryGives
      <4>. QED  BY <4>5
    <3>. QED  BY <2>1, <3>1, <3>2 DEF OracleFindsOnce
  <2>2. CASE \E i \in 1 .. scannedCount(q) : OracleFinds(q, i, q.segments[i], a, d)
    <3>1. PICK i \in 1 .. scannedCount(q) : OracleFinds(q, i, q.segments[i], a, d)  BY <2>2
    <3>2. PICK k \in 1 .. scannedCount(q) : \E b, e : LibraryFinds(q, k, q.segments[k], b, e)
      BY <3>1, LibraryFindsToo
    <3>3. PICK b, e : LibraryFinds(q, k, q.segments[k], b, e)  BY <3>2
    <3>4. LibraryGives(q, b, k - 1, e)  BY <3>3 DEF LibraryGives
    <3>. QED  BY <3>4
  <2>3. CASE PayloadFinds(q, a, x, d)  BY <2>3 DEF LibraryGives
  <2>. QED  BY <1>5, <2>1, <2>2, <2>3 DEF OracleGives
<1>. QED  BY <1>4, <1>5

(* Where their reasons are the same, they find the same in a segment, *)
LEMMA SameInSegment ==
    ASSUME NEW q, Scenario(q), JointScope(q), JointReasons(q), NEW i \in 1 .. scannedCount(q),
           NEW name
    PROVE  (\E d : LibraryFinds(q, i, q.segments[i], name, d)) <=>
              (\E d : OracleFinds(q, i, q.segments[i], name, d))
<1>1. PICK n \in Nat : n = scannedCount(q) /\ n <= Len(q.segments)  BY ScannedIs
<1>2. Len(q.segments) \in Nat /\ DOMAIN q.segments = 1 .. Len(q.segments)  BY ScenarioIs
<1>3. i \in 1 .. Len(q.segments)  BY <1>1, <1>2
<1>4. PICK s \in SegmentType : s = q.segments[i]  BY <1>3, ScenarioIs
<1>5. s.kind # "Invalid" => s.fields \cap EntityFields # {}
  <2>1. s \in ToSet(q.segments)  BY <1>2, <1>3, <1>4 DEF ToSet
  <2>. QED  BY <2>1 DEF JointReasons
<1>6. s.kind # "Invalid" => s.fields # {}  BY <1>5
<1>7. s.kind # "Invalid" => kUses[s.kind] = Required[s.kind]  BY EntityRequired
<1>8. \A j \in 1 .. i - 1 : Forbids(q, j, i) <=> Digested(q, j) = Digested(q, i)
  <2>. SUFFICES ASSUME NEW j \in 1 .. i - 1
                PROVE  Forbids(q, j, i) <=> Digested(q, j) = Digested(q, i)
    OBVIOUS
  <2>1. ASSUME Digested(q, j) = Digested(q, i)
        PROVE  /\ Len(q.segments[i].payload) <= q.profile.payload_width
               /\ Len(q.segments[j].payload) <= q.profile.payload_width
    <3>1. PICK r \in Repeats(q) : r[1] = j /\ r[2] = i
      <4>1. <<j, i>> \in Repeats(q)  BY <2>1, RepeatPairs
      <4>. QED  BY <4>1
    <3>2. \A k \in {j, i} : Len(q.segments[k].payload) <= q.profile.payload_width
      BY <3>1 DEF JointReasons
    <3>. QED  BY <3>2
  <2>. QED  BY <2>1, JointRepeats
<1>9. /\ RepeatsLast(q, i) <=> SameAsLast(q, i)
      /\ RepeatsOther(q, i) <=> SameAsOther(q, i)
      /\ RepeatsAny(q, i) <=> SameAsLast(q, i) \/ SameAsOther(q, i)
  BY <1>8 DEF RepeatsLast, RepeatsOther, RepeatsAny, SameAsLast, SameAsOther
<1>10. SameAsLast(q, i) => ~ q.profile.consecutive
  <2>. HAVE SameAsLast(q, i)
  <2>1. PICK j \in 1 .. i - 1 : j + 1 = i /\ Digested(q, j) = Digested(q, i)  BY DEF SameAsLast
  <2>2. ~ IF j + 1 = i THEN q.profile.consecutive ELSE q.profile.nonconsecutive
    BY <2>1, JointRepeats
  <2>. QED  BY <2>1, <2>2
<1>11. SameAsOther(q, i) => ~ q.profile.nonconsecutive
  <2>. HAVE SameAsOther(q, i)
  <2>1. PICK j \in 1 .. i - 1 : j + 1 # i /\ Digested(q, j) = Digested(q, i)  BY DEF SameAsOther
  <2>2. ~ IF j + 1 = i THEN q.profile.consecutive ELSE q.profile.nonconsecutive
    BY <2>1, JointRepeats
  <2>. QED  BY <2>1, <2>2
<1>12. ASSUME NEW d, LibraryFinds(q, i, s, name, d) PROVE \E e : OracleFinds(q, i, s, name, e)
  <2>1. CASE BothFind(q.profile, s, name, d)  BY <2>1 DEF OracleFinds
  <2>2. CASE ~ BothFind(q.profile, s, name, d)
    BY <1>5, <1>6, <1>7, <1>9, <1>10, <1>11, <1>12, <2>2 DEF LibraryFinds, OracleFinds
  <2>. QED  BY <2>1, <2>2
<1>13. ASSUME NEW d, OracleFinds(q, i, s, name, d) PROVE \E e : LibraryFinds(q, i, s, name, e)
  <2>1. CASE BothFind(q.profile, s, name, d)  BY <2>1 DEF LibraryFinds
  <2>2. CASE ~ BothFind(q.profile, s, name, d)
    BY <1>5, <1>6, <1>7, <1>9, <1>13, <2>2 DEF LibraryFinds, OracleFinds
  <2>. QED  BY <2>1, <2>2
<1>. QED  BY <1>4, <1>12, <1>13

(* in the scenario as a whole, *)
LEMMA SameInWhole ==
    ASSUME NEW q, Scenario(q), JointScope(q), JointReasons(q), NEW name, NEW d
    PROVE  LibraryFindsOnce(q, name, d) <=> OracleFindsOnce(q, name, d)
<1>1. PICK n \in Nat : /\ n = scannedCount(q) /\ n <= Len(q.segments) /\ n <= MaxSegments + 1
                       /\ n < Len(q.segments) => n = MaxSegments + 1
  BY ScannedIs
<1>2. Len(q.segments) \in Nat /\ DOMAIN q.segments = 1 .. Len(q.segments)  BY ScenarioIs
<1>3. q.profile.gen # 0 /\ (q.segments = <<>> => q.profile.empty)  BY DEF JointScope, JointReasons
<1>4. (\E s \in ToSet(q.segments) : s.kind = "Adjacency") <=>
        \E i \in 1 .. n : q.segments[i].kind = "Adjacency"
  <2>1. ASSUME NEW s \in ToSet(q.segments), s.kind = "Adjacency"
        PROVE  \E i \in 1 .. n : q.segments[i].kind = "Adjacency"
    <3>1. PICK k \in 1 .. Len(q.segments) : s = q.segments[k]  BY <1>2 DEF ToSet
    <3>2. CASE k <= n
      <4>1. k \in 1 .. n  BY <1>1, <1>2, <3>2
      <4>. QED  BY <2>1, <3>1, <4>1
    <3>3. CASE k > n
      <4>1. n = MaxSegments + 1 /\ k \in MaxSegments + 2 .. Len(q.segments)
        BY <1>1, <1>2, <3>3, ValidationAssumption
      <4>. QED  BY <2>1, <3>1, <4>1 DEF JointReasons
    <3>. QED  BY <1>1, <1>2, <3>2, <3>3
  <2>2. ASSUME NEW i \in 1 .. n, q.segments[i].kind = "Adjacency"
        PROVE  \E s \in ToSet(q.segments) : s.kind = "Adjacency"
    <3>1. i \in DOMAIN q.segments  BY <1>1, <1>2
    <3>2. q.segments[i] \in ToSet(q.segments)  BY <3>1 DEF ToSet
    <3>. QED  BY <2>2, <3>2
  <2>. QED  BY <2>1, <2>2
<1>. QED  BY <1>1, <1>3, <1>4 DEF LibraryFindsOnce, OracleFindsOnce

(* and so give their reasons at the same places. *)
LEMMA SameAtPlaces ==
    ASSUME NEW q, Scenario(q), JointScope(q), JointReasons(q)
    PROVE  PlacesOf(LibraryTold(q)) = PlacesOf(check(q))
<1>1. q.profile.payload_width # 0  BY DEF JointScope
<1>2. ASSUME NEW name, NEW x, NEW d, LibraryGives(q, name, x, d)
      PROVE  \E e : OracleGives(q, name, x, e)
  <2>1. CASE x = 0 /\ LibraryFindsOnce(q, name, d)
    <3>1. OracleFindsOnce(q, name, d)  BY <2>1, SameInWhole
    <3>. QED  BY <2>1, <3>1 DEF OracleGives
  <2>2. CASE \E i \in 1 .. scannedCount(q) :
                x = i - 1 /\ LibraryFinds(q, i, q.segments[i], name, d)
    <3>1. PICK i \in 1 .. scannedCount(q) :
             x = i - 1 /\ LibraryFinds(q, i, q.segments[i], name, d)
      BY <2>2
    <3>2. PICK e : OracleFinds(q, i, q.segments[i], name, e)  BY <3>1, SameInSegment
    <3>. QED  BY <3>1, <3>2 DEF OracleGives
  <2>3. CASE PayloadFinds(q, name, x, d)  BY <2>3 DEF OracleGives
  <2>. QED  BY <1>2, <2>1, <2>2, <2>3 DEF LibraryGives
<1>3. ASSUME NEW name, NEW x, NEW d, OracleGives(q, name, x, d)
      PROVE  \E e : LibraryGives(q, name, x, e)
  <2>1. CASE x = 0 /\ OracleFindsOnce(q, name, d)
    <3>1. LibraryFindsOnce(q, name, d)  BY <2>1, SameInWhole
    <3>. QED  BY <2>1, <3>1 DEF LibraryGives
  <2>2. CASE \E i \in 1 .. scannedCount(q) :
                x = i - 1 /\ OracleFinds(q, i, q.segments[i], name, d)
    <3>1. PICK i \in 1 .. scannedCount(q) :
             x = i - 1 /\ OracleFinds(q, i, q.segments[i], name, d)
      BY <2>2
    <3>2. PICK e : LibraryFinds(q, i, q.segments[i], name, e)  BY <3>1, SameInSegment
    <3>. QED  BY <3>1, <3>2 DEF LibraryGives
  <2>3. CASE PayloadFinds(q, name, x, d)  BY <2>3 DEF LibraryGives
  <2>. QED  BY <1>3, <2>1, <2>2, <2>3 DEF OracleGives
<1>4. \A name, x, d : Reason(name, x, d).code = Code(name) /\ Reason(name, x, d).index = x
  BY DEF Reason
<1>5. ASSUME NEW r \in LibraryTold(q) PROVE \E t \in check(q) : t.code = r.code /\ t.index = r.index
  <2>1. PICK name, x, d : LibraryGives(q, name, x, d) /\ r = Reason(name, x, d)  BY LibraryToldIs
  <2>2. PICK e : OracleGives(q, name, x, e)  BY <1>2, <2>1
  <2>3. Reason(name, x, e) \in check(q)  BY <1>1, <2>2, OracleToldIs
  <2>. QED  BY <1>4, <2>1, <2>3
<1>6. ASSUME NEW t \in check(q) PROVE \E r \in LibraryTold(q) : r.code = t.code /\ r.index = t.index
  <2>1. PICK name, x, d : OracleGives(q, name, x, d) /\ t = Reason(name, x, d)
    BY <1>1, OracleToldIs
  <2>2. PICK e : LibraryGives(q, name, x, e)  BY <1>3, <2>1
  <2>3. Reason(name, x, e) \in LibraryTold(q)  BY <2>2, LibraryToldIs
  <2>. QED  BY <1>4, <2>1, <2>3
<1>7. \A p \in PlacesOf(LibraryTold(q)) : p \in PlacesOf(check(q))  BY <1>5 DEF PlacesOf
<1>8. \A p \in PlacesOf(check(q)) : p \in PlacesOf(LibraryTold(q))  BY <1>6 DEF PlacesOf
<1>. QED  BY <1>7, <1>8

(* The result is cut only if there are as many reasons as it has place for. *)
LEMMA CutWhenFull ==
    ASSUME NEW rs \in Seq(ReasonType), AddAll(Success, rs).truncated
    PROVE  Cardinality(ToSet(rs)) >= MaxReasons
<1>0. PICK n \in Nat : Len(rs) = n  OBVIOUS
<1>1. DOMAIN rs = 1 .. n /\ \A k \in 1 .. n : rs[k] \in ReasonType  BY <1>0
<1>2. PICK f : f[0] = Success /\ AddSteps(f, rs, n) /\ AddAll(Success, rs) = f[n]
  BY <1>1, AddAllRun
<1>3. IsFiniteSet(ToSet(rs))  BY NothingIn
<1>4. MaxReasons \in Nat /\ Cardinality(ToSet(rs)) \in Nat
  BY <1>3, FS_CardinalityType, ValidationAssumption
<1>. DEFINE Good(k) ==
              /\ f[k] \in ResultType
              /\ f[k].truncated => Cardinality(ToSet(rs)) >= MaxReasons
              /\ ~ f[k].truncated => f[k].reasons \subseteq ToSet(rs)
            S == {k \in 0 .. n : ~ Good(k)}
<1>5. 0 \notin S
  <2>1. Success.truncated = FALSE /\ Success.reasons = {}  BY DEF Success
  <2>2. Good(0)  BY <1>2, <2>1, SuccessIs
  <2>. QED  BY <2>2
<1>6. ASSUME NEW k \in 1 .. n, k - 1 \notin S PROVE k \notin S
  <2>1. k - 1 \in 0 .. n  OBVIOUS
  <2>2. Good(k - 1)  BY <1>6, <2>1
  <2>. HIDE DEF S
  <2>3. PICK old : old = f[k - 1]  OBVIOUS
  <2>4. PICK new : new = f[k]  OBVIOUS
  <2>5. new = Add(old, rs[k])  BY <1>2, <2>3, <2>4 DEF AddSteps
  <2>6. /\ old \in ResultType
        /\ old.truncated => Cardinality(ToSet(rs)) >= MaxReasons
        /\ ~ old.truncated => old.reasons \subseteq ToSet(rs)
    BY <2>2, <2>3
  <2>7. rs[k] \in ReasonType /\ rs[k] \in ToSet(rs)  BY <1>1 DEF ToSet
  <2>8. new \in ResultType  BY <2>5, <2>6, <2>7, AddIs
  <2>9. /\ new.truncated => Cardinality(ToSet(rs)) >= MaxReasons
        /\ ~ new.truncated => new.reasons \subseteq ToSet(rs)
    <3>1. CASE Cardinality(old.reasons) < MaxReasons
      <4>1. new = [old EXCEPT !.reasons = @ \cup {rs[k]}]  BY <2>5, <3>1 DEF Add
      <4>2. old \in [reasons : SUBSET ReasonType, truncated : BOOLEAN]  BY <2>6 DEF ResultType
      <4>3. new.reasons = old.reasons \cup {rs[k]} /\ new.truncated = old.truncated
        BY <4>1, <4>2
      <4>. QED  BY <2>6, <2>7, <4>3
    <3>2. CASE ~ Cardinality(old.reasons) < MaxReasons /\ LimitMaxReasons \in old.reasons
      <4>1. new = old  BY <2>5, <3>2 DEF Add
      <4>. QED  BY <2>6, <4>1
    <3>3. CASE ~ Cardinality(old.reasons) < MaxReasons /\ LimitMaxReasons \notin old.reasons
      <4>1. new.truncated = TRUE  BY <2>5, <3>3 DEF Add
      <4>2. CASE old.truncated  BY <2>6, <4>1, <4>2
      <4>3. CASE ~ old.truncated
        <5>1. old.reasons \in SUBSET ToSet(rs)  BY <2>6, <4>3
        <5>2. IsFiniteSet(old.reasons) /\ Cardinality(old.reasons) <= Cardinality(ToSet(rs))
          BY <1>3, <5>1, FS_Subset
        <5>3. Cardinality(old.reasons) \in Nat  BY <5>2, FS_CardinalityType
        <5>4. Cardinality(ToSet(rs)) >= MaxReasons  BY <1>4, <3>3, <5>2, <5>3
        <5>. QED  BY <4>1, <5>4
      <4>. QED  BY <4>2, <4>3
    <3>. QED  BY <3>1, <3>2, <3>3
  <2>10. Good(k)  BY <2>4, <2>8, <2>9
  <2>. QED  BY <2>10 DEF S
<1>7. S = {}
  <2>1. S \in SUBSET (0 .. n)  OBVIOUS
  <2>. HIDE DEF S
  <2>. QED  BY <1>5, <1>6, <2>1, NoFailure
<1>8. Good(n)  BY <1>7
<1>. QED  BY <1>2, <1>8

(* The two implementations agree on a scenario. *)
LEMMA ScenarioAgreed ==
    ASSUME NEW q, Scenario(q), NEW lib, lib = validate_segment_sequence(q), JointScope(q)
    PROVE  /\ lib.reasons = {} <=> check(q) = {}
           /\ JointReasons(q) =>
                 /\ PlacesOf(lib.reasons \ {LimitMaxReasons}) \subseteq PlacesOf(check(q))
                 /\ Cardinality(check(q)) > MaxReasons => lib.truncated
                 /\ lib.truncated => Cardinality(check(q)) >= MaxReasons
                 /\ ~ lib.truncated =>
                       PlacesOf(lib.reasons \ {LimitMaxReasons}) = PlacesOf(check(q))
<1>1. PICK rs : Tells(rs, LibraryTold(q)) /\ lib = AddAll(Success, rs)  BY LibraryTells
<1>2. PICK A : A = LibraryTold(q)  OBVIOUS
<1>3. PICK B : B = check(q)  OBVIOUS
<1>4. rs \in Seq(Sources) /\ ToSet(rs) = A  BY <1>1, <1>2 DEF Tells
<1>5. q.profile.payload_width # 0  BY DEF JointScope
<1>6. A \in SUBSET Sources  BY <1>4, NothingIn
<1>7. LimitMaxReasons \notin A  BY <1>6, NoteIs DEF Sources
<1>8. Complete(lib, A)
  <2>1. Complete(Success, {})  BY SuccessIs DEF Complete, Success
  <2>2. Complete(AddAll(Success, rs), {} \cup ToSet(rs))  BY <1>4, <2>1, AddAllCompletes
  <2>3. {} \cup ToSet(rs) = A  BY <1>4
  <2>. QED  BY <1>1, <2>2, <2>3
<1>9. /\ lib \in ResultType
      /\ lib.truncated => /\ LimitMaxReasons \in lib.reasons
                          /\ lib.reasons \subseteq A \cup {LimitMaxReasons}
      /\ ~ lib.truncated => lib.reasons = A
  BY <1>8 DEF Complete
<1>10. IsFiniteSet(lib.reasons) /\ Cardinality(lib.reasons) <= MaxReasons
  BY <1>9 DEF ResultType
<1>11. IsFiniteSet(A)  BY <1>4, NothingIn
<1>12. A = {} <=> B = {}
  <2>1. A = {} <=> ~ \E a, x, d : LibraryGives(q, a, x, d)  BY <1>2, LibraryToldIs
  <2>2. B = {} <=> ~ \E a, x, d : OracleGives(q, a, x, d)  BY <1>3, <1>5, OracleToldIs
  <2>. QED  BY <2>1, <2>2, JointRefusals, Zenon
<1>13. lib.reasons = {} <=> A = {}
  <2>1. CASE lib.truncated
    <3>1. Cardinality(A) >= MaxReasons
      <4>1. rs \in Seq(ReasonType)  BY <1>4 DEF Sources
      <4>. QED  BY <1>1, <1>4, <2>1, <4>1, CutWhenFull
    <3>2. A # {}
      <4>1. MaxReasons \in Nat /\ MaxReasons >= 2  BY ValidationAssumption
      <4>. QED  BY <3>1, <4>1, FS_EmptySet
    <3>. QED  BY <1>9, <2>1, <3>2
  <2>2. CASE ~ lib.truncated  BY <1>9, <2>2
  <2>. QED  BY <2>1, <2>2
<1>14. ASSUME JointReasons(q)
       PROVE  /\ PlacesOf(lib.reasons \ {LimitMaxReasons}) \subseteq PlacesOf(B)
              /\ Cardinality(B) > MaxReasons => lib.truncated
              /\ lib.truncated => Cardinality(B) >= MaxReasons
              /\ ~ lib.truncated => PlacesOf(lib.reasons \ {LimitMaxReasons}) = PlacesOf(B)
  <2>1. PlacesOf(A) = PlacesOf(B)  BY <1>2, <1>3, <1>14, SameAtPlaces
  <2>2. Determined(A) /\ Determined(B)  BY <1>2, <1>3, <1>5, BothDetermined
  <2>3. IsFiniteSet(B) /\ Cardinality(A) = Cardinality(B)  BY <1>11, <2>1, <2>2, SamePlaces
  <2>4. lib.reasons \ {LimitMaxReasons} \subseteq A  BY <1>9
  <2>5. PlacesOf(lib.reasons \ {LimitMaxReasons}) \subseteq PlacesOf(A)  BY <2>4 DEF PlacesOf
  <2>6. ASSUME ~ lib.truncated
        PROVE  /\ ~ Cardinality(B) > MaxReasons
               /\ PlacesOf(lib.reasons \ {LimitMaxReasons}) = PlacesOf(B)
    <3>1. lib.reasons = A  BY <1>9, <2>6
    <3>2. lib.reasons \ {LimitMaxReasons} = A  BY <1>7, <3>1
    <3>3. Cardinality(B) <= MaxReasons  BY <1>10, <2>3, <3>1
    <3>4. Cardinality(B) \in Nat /\ MaxReasons \in Nat
      BY <2>3, FS_CardinalityType, ValidationAssumption
    <3>5. ~ Cardinality(B) > MaxReasons  BY <3>3, <3>4
    <3>. QED  BY <2>1, <3>2, <3>5
  <2>7. ASSUME lib.truncated PROVE Cardinality(B) >= MaxReasons
    <3>1. rs \in Seq(ReasonType)  BY <1>4 DEF Sources
    <3>2. Cardinality(A) >= MaxReasons  BY <1>1, <1>4, <2>7, <3>1, CutWhenFull
    <3>. QED  BY <2>3, <3>2
  <2>. QED  BY <2>1, <2>5, <2>6, <2>7
<1>. QED  BY <1>3, <1>12, <1>13, <1>14

(* What is answered for a scenario is what OracleAgrees says. *)
LEMMA OracleFollows == AnswerInv => OracleAgrees
<1>. SUFFICES ASSUME AnswerInv, Answered("sequence")
              PROVE  LET places(reasons) == {<<r.code, r.index>> : r \in reasons}
                         told == places(answer.library.reasons \ {LimitMaxReasons})
                     IN  /\ answer.librarySequence = answer.oracleSequence
                         /\ JointScope(question) =>
                               /\ answer.library.reasons = {} <=> answer.oracle = {}
                               /\ JointReasons(question) =>
                                     /\ told \subseteq places(answer.oracle)
                                     /\ Cardinality(answer.oracle) > MaxReasons =>
                                           answer.library.truncated
                                     /\ answer.library.truncated =>
                                           Cardinality(answer.oracle) >= MaxReasons
                                     /\ ~ answer.library.truncated => told = places(answer.oracle)
  BY DEF OracleAgrees
<1>1. PICK q : q = question  OBVIOUS
<1>2. q # None /\ answer # None /\ q.topic = "sequence"  BY <1>1 DEF Answered
<1>3. q \in Questions  BY <1>1, <1>2 DEF AnswerInv
<1>4. Scenario(q)  BY <1>2, <1>3, OracleAssumption
<1>5. answer = [library |-> validate_segment_sequence(q), librarySequence |-> canonical_sequence(q),
                oracle |-> check(q), oracleSequence |-> encodeSequence(q)]
  BY <1>1, <1>2 DEF AnswerInv
<1>6. PICK lib : lib = validate_segment_sequence(q)  OBVIOUS
<1>7. /\ answer.library = lib /\ answer.librarySequence = canonical_sequence(q)
      /\ answer.oracle = check(q) /\ answer.oracleSequence = encodeSequence(q)
  BY <1>5, <1>6
<1>8. canonical_sequence(q) = encodeSequence(q)  BY <1>4, CanonicalForms
<1>9. JointScope(q) =>
        /\ lib.reasons = {} <=> check(q) = {}
        /\ JointReasons(q) =>
              /\ PlacesOf(lib.reasons \ {LimitMaxReasons}) \subseteq PlacesOf(check(q))
              /\ Cardinality(check(q)) > MaxReasons => lib.truncated
              /\ lib.truncated => Cardinality(check(q)) >= MaxReasons
              /\ ~ lib.truncated => PlacesOf(lib.reasons \ {LimitMaxReasons}) = PlacesOf(check(q))
  BY <1>4, <1>6, ScenarioAgreed
<1>. QED  BY <1>1, <1>7, <1>8, <1>9 DEF PlacesOf

(* In every run, whatever scenarios there are, of any length and with any  *)
(* limits: the library and the oracle digest the same, refuse the same in  *)
(* their joint scope, and give the same reasons at the same places as far  *)
(* as the library has place for them (validate_segment_sequence and        *)
(* check of oracle_main.cpp).                                              *)
THEOREM OraclesAgree == MessageSpec => []OracleAgrees
<1>1. ExplainInit => AnswerInv  BY AnswersAre
<1>2. AnswerInv /\ [MessageNext]_explainVars => AnswerInv'  BY AnswersAre
<1>3. AnswerInv => OracleAgrees  BY OracleFollows
<1>. QED  BY <1>1, <1>2, <1>3, PTL DEF MessageSpec
================================================================================
