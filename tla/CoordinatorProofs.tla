--------------------------- MODULE CoordinatorProofs ---------------------------
(***************************************************************************)
(* The coordinator server composes threads, sessions, leases and restarts  *)
(* from calls of the store, so that what is proved of the store holds of   *)
(* the whole server; and whatever order its threads, the monitor and lost  *)
(* connections take, a session that may write has a lease.                 *)
(***************************************************************************)
EXTENDS Coordinator, SegmentStoreProofs

(* The calls of the store that the server makes whatever its workers ask   *)
(* for: create_list, revalidate and refresh_currentness.                   *)
ServedCalls == {"mutate", "revalidate", "refresh"} \subseteq Calls

(* A step of a thread inside a call is a step of the store. *)
LEMMA InCallIsCall == ASSUME NEW t \in Threads, InCall(t) PROVE Next
<1>1. Call(t)  BY DEF InCall, Call
<1>. QED  BY <1>1 DEF Next

(* A refresh that a handler or the lease monitor starts is a call of the   *)
(* store.                                                                  *)
LEMMA RefreshIsCall == ASSUME ServedCalls, NEW t \in Threads, RefreshReadEvidence(t) PROVE Next
<1>1. Call(t)  BY DEF ServedCalls, Call
<1>. QED  BY <1>1 DEF Next

(* Preparing a request under the caller of the session is preparing a call *)
(* of the store: create_list is the mutation of an absent list.            *)
LEMMA PrepareIsCall ==
    ASSUME ServedCalls, NEW c \in Conns, PrepareRequest(c),
           session[c].publisher \in Publishers, session[c].boot \in Boots
    PROVE  Next
<1>0. c \in Threads  BY CoordinatorAssumption
<1>1. PICK a \in Attempts :
        \/ /\ request[c] = None
           /\ \E id \in Lists, body \in Bodies, sup \in Lists \cup {None} :
                 PrepareCommit(c, "ValidateBegin", SubmittedDraft(id, body, sup), a,
                               session[c].publisher, session[c].boot)
        \/ /\ frame[c] = "Lifecycle" /\ request[c] = None
           /\ \E id \in Lists, event \in TransitionEvents \cap Calls :
                 PrepareTransition(c, event, id, a, session[c].publisher, session[c].boot)
        \/ /\ frame[c] = "Lifecycle" /\ request[c] # None
           /\ PrepareCommit(c, "RevalidateBegin", request[c], a,
                            session[c].publisher, session[c].boot)
  BY DEF PrepareRequest
<1>2. CASE /\ request[c] = None
           /\ \E id \in Lists, body \in Bodies, sup \in Lists \cup {None} :
                 PrepareCommit(c, "ValidateBegin", SubmittedDraft(id, body, sup), a,
                               session[c].publisher, session[c].boot)
  <2>1. PICK id \in Lists, body \in Bodies, sup \in Lists \cup {None} :
           PrepareCommit(c, "ValidateBegin", SubmittedDraft(id, body, sup), a,
                         session[c].publisher, session[c].boot)
    BY <1>2
  <2>2. SubmittedDraft(id, body, sup).id = id  BY DEF SubmittedDraft
  <2>3. IntentFor(id) = "ValidateBegin"
    BY <2>1, <2>2 DEF PrepareCommit, LifecycleOk, IntentFor
  <2>4. Mutate(c)  BY <1>2, <2>1, <2>3 DEF Mutate
  <2>. QED  BY <1>0, <2>4 DEF Next, Call, ServedCalls
<1>3. CASE \E id \in Lists, event \in TransitionEvents \cap Calls :
              PrepareTransition(c, event, id, a, session[c].publisher, session[c].boot)
  BY <1>0, <1>3 DEF Next, Call, ServedCalls, Transition
<1>4. CASE /\ request[c] # None
           /\ PrepareCommit(c, "RevalidateBegin", request[c], a,
                            session[c].publisher, session[c].boot)
  BY <1>0, <1>4 DEF Next, Call, ServedCalls, Revalidate
<1>. QED  BY <1>1, <1>2, <1>3, <1>4

(* A registered session names a publisher and a boot. *)
SessionInv ==
    /\ session \in [Conns -> [publisher : Publishers \cup {None}, boot : Boots \cup {None},
                              registered : BOOLEAN]]
    /\ \A c \in Conns : session[c].registered =>
           session[c].publisher \in Publishers /\ session[c].boot \in Boots

(* An absent session is typed like a session.                              *)
LEMMA NoSessionType ==
    /\ NoSession \in [publisher : Publishers \cup {None}, boot : Boots \cup {None},
                       registered : BOOLEAN]
    /\ ~ NoSession.registered
BY DEF NoSession

(* What a connection thread does is a step of the store or none. *)
LEMMA ConnectionStep ==
    ASSUME ServedCalls, SessionInv, NEW c \in Conns, Worker(c) \/ Progress(c)
    PROVE  SessionInv' /\ [Next]_vars
<1>0. c \in Threads  BY CoordinatorAssumption
<1>1. CASE \/ Accept(c) \/ Touch(c) \/ EraseLease(c)
           \/ \E p \in Publishers : Heartbeat(c, p)
  <2>1. UNCHANGED vars /\ session' \in {session, [session EXCEPT ![c] = NoSession]}
    BY <1>1 DEF Accept, Touch, EraseLease, Heartbeat
  <2>2. SessionInv'  BY <2>1, NoSessionType DEF SessionInv
  <2>. QED  BY <2>1, <2>2
<1>2. CASE \E p \in Publishers, b \in Boots : Hello(c, p, b)
  <2>1. PICK p \in Publishers, b \in Boots : Hello(c, p, b)  BY <1>2
  <2>2. Environment  BY <2>1 DEF Hello, Environment
  <2>. QED  BY <2>1, <2>2 DEF Hello, SessionInv, Next
<1>3. CASE \E f \in OfferedFrames : Request(c, f)
  <2>1. PICK f \in OfferedFrames : Request(c, f)  BY <1>3
  <2>2. Call(c)  BY <2>1 DEF Request, Call
  <2>. QED  BY <1>0, <2>1, <2>2 DEF Request, SessionInv, Next
<1>4. CASE RequestRefresh(c) \/ RefreshOnEnd(c)
  BY <1>0, <1>4, RefreshIsCall DEF RequestRefresh, RefreshOnEnd, coordinator, SessionInv
<1>5. CASE Goodbye(c) \/ End(c)
  <2>1. UNCHANGED vars \/ (session[c].registered /\ MarkDead(session[c].publisher))
    BY <1>5 DEF Goodbye, End
  <2>2. [Next]_vars  BY <2>1 DEF SessionInv, Next, Environment
  <2>3. SessionInv'  BY <1>5 DEF Goodbye, End, SessionInv
  <2>. QED  BY <2>2, <2>3
<1>6. CASE Serving(c)
  <2>1. Next
    <3>1. CASE InCall(c)  BY <1>0, <3>1, InCallIsCall
    <3>2. CASE PrepareRequest(c)
      <4>1. session[c].publisher \in Publishers /\ session[c].boot \in Boots
        BY <3>2 DEF PrepareRequest, SessionInv
      <4>. QED  BY <3>2, <4>1, PrepareIsCall
    <3>. QED  BY <1>6, <3>1, <3>2 DEF Serving
  <2>. QED  BY <1>6, <2>1 DEF Serving, SessionInv
<1>7. CASE Closing(c)
  BY <1>0, <1>7, InCallIsCall DEF Closing, SessionInv
<1>. QED  BY <1>1, <1>2, <1>3, <1>4, <1>5, <1>6, <1>7 DEF Worker, Progress

(* The whole server moves as the store allows. *)
LEMMA CoordinatorStep ==
    ASSUME ServedCalls
    PROVE  SessionInv /\ [CoordinatorNext]_allVars => SessionInv' /\ [Next]_vars
<1>. SUFFICES ASSUME SessionInv, [CoordinatorNext]_allVars PROVE SessionInv' /\ [Next]_vars
  OBVIOUS
<1>1. CASE \E c \in Conns : Worker(c) \/ Progress(c)  BY <1>1, ConnectionStep
<1>2. CASE \E p \in Publishers : Age(p)  BY <1>2 DEF Age, SessionInv
<1>3. CASE Expiry
  <2>0. Monitor \in Threads  BY CoordinatorAssumption
  <2>1. CASE ExpireLeases  BY <2>1 DEF ExpireLeases, SessionInv
  <2>2. CASE \E p \in Publishers : FenceExpired(p)
    BY <2>2 DEF FenceExpired, SessionInv, Next, Environment
  <2>3. CASE RefreshExpired
    BY <2>0, <2>3, InCallIsCall, RefreshIsCall DEF RefreshExpired, SessionInv
  <2>. QED  BY <1>3, <2>1, <2>2, <2>3 DEF Expiry
<1>4. CASE Lifetime
  <2>1. [Next]_vars  BY <1>4 DEF Lifetime, Next, Process
  <2>2. session' \in {session, [c \in Conns |-> NoSession]}
    BY <1>4 DEF Lifetime, coordinator, Fresh
  <2>3. SessionInv'  BY <2>2, NoSessionType DEF SessionInv
  <2>. QED  BY <2>1, <2>3
<1>5. CASE UNCHANGED allVars  BY <1>5 DEF allVars, coordinator, SessionInv
<1>. QED  BY <1>1, <1>2, <1>3, <1>4, <1>5 DEF CoordinatorNext

(* The server implements the specification of the store.                   *)
THEOREM Composition == ASSUME ServedCalls PROVE CoordinatorSpec => Spec
<1>1. CoordinatorInit => Init /\ SessionInv
  BY DEF CoordinatorInit, SessionInv, Fresh, NoSession
<1>2. SessionInv /\ [CoordinatorNext]_allVars => SessionInv' /\ [Next]_vars  BY CoordinatorStep
<1>. QED  BY <1>1, <1>2, PTL DEF CoordinatorSpec, Spec

(* So the server with its sessions, leases and restarts keeps the promises *)
(* of the store: exactly-once commits bound to what is in force, no lost   *)
(* update, closed lineages stay closed, what is visible or acknowledged is *)
(* saved, a restart reuses no epoch and leaves nothing available, and the  *)
(* tables stay closed under what they refer to and within their limits.    *)
THEOREM ServerKeepsPromises ==
    ASSUME ServedCalls
    PROVE  CoordinatorSpec => /\ ImplementsGovernedLists
                              /\ AttemptAppliedOnce
                              /\ CommittedIsFresh
                              /\ RevisionsAreImmutable
                              /\ ReplacedIsRecorded
                              /\ LineagesStayClosed
                              /\ EpochNeverReused
                              /\ []VisibleIsDurable
                              /\ []AckedIsDurable
                              /\ []RecoveryIsConservative
                              /\ []WritersFencedOnRecovery
                              /\ []BoundRegistryIsDurable
                              /\ []HistoryIsSuffix
                              /\ []ReplayTableIsBounded
<1>1. ~ EpochAdvances  BY CoordinatorAssumption
<1>2. Spec => EpochNeverReused  BY <1>1, EpochsAreFresh
<1>. QED
  BY <1>2, Composition, Refinement, ExactlyOnce, CommitsAreFresh, NoLostUpdate,
     ReplacementIsRecorded, ClosedForGood, DurableBeforeVisible, AcknowledgedStays,
     RecoveryStaysConservative, RecoveryFencesWriters, RegistryIsClosed, HistoryKeepsSuffix,
     ReplayTableStaysBounded, PTL
--------------------------------------------------------------------------------
(* Leases.  The inductive invariant speaks of one connection at a time:    *)
(* a session keeps the boot its publisher is registered under, so that     *)
(* fencing the publisher fences every session of it, and whatever takes a  *)
(* lease away either leaves another witness or fences the publisher.       *)

ServerTypes ==
    /\ conn \in [Conns -> {"none", "open", "touch", "erase", "refresh", "closing"}]
    /\ frame \in [Conns -> Frames \cup {None}]
    /\ touching \in [Conns -> Publishers \cup {None}]
    /\ lease \in [Publishers -> {"none", "fresh", "old"}]
    /\ monitor \in {"sleep", "fence", "refresh"}
    /\ expired \in SUBSET Publishers /\ late \in SUBSET Boots

(* Somebody will notice if the publisher falls silent. *)
Leased(p) ==
    lease[p] # "none" \/ p \in expired \/ \E d \in Conns : touching[d] = p

Sound(c) ==
    /\ IF conn[c] = "touch"
       THEN touching[c] \in Publishers /\ publishers[touching[c]].boot # None
       ELSE touching[c] = None
    /\ conn[c] # "none" /\ session[c].registered =>
           publishers[session[c].publisher].boot = session[c].boot
    /\ conn[c] = "erase" => session[c].registered /\ session[c].boot \in fencedBoots
    /\ conn[c] \in {"open", "touch"} /\ session[c].registered
           /\ session[c].boot \notin fencedBoots => Leased(session[c].publisher)

LeaseInv ==
    /\ ServerTypes
    /\ phase # "serving" => \A c \in Conns : conn[c] = "none"
    /\ monitor # "fence" => expired = {}
    /\ \A c \in Conns : Sound(c)

(* What every step but those of the process does to the authority table,   *)
(* and to the leases of the publishers it does not fence.                  *)
AuthorityMoves ==
    /\ phase' = phase
    /\ fencedBoots \subseteq fencedBoots'
    /\ \A p \in Publishers : publishers[p].boot \in {None, publishers'[p].boot}

LeasesKept ==
    \A p \in Publishers :
        Leased(p) => Leased(p)' \/ publishers'[p].boot \in fencedBoots'

KeepsConn(d) ==
    conn'[d] = conn[d] /\ session'[d] = session[d] /\ touching'[d] = touching[d]

(* A connection that does not move stays sound. *)
LEMMA OthersStay ==
    ASSUME SessionInv, NEW d \in Conns, Sound(d), KeepsConn(d), AuthorityMoves, LeasesKept
    PROVE  Sound(d)'
<1>1. session[d].registered =>
          /\ session[d].publisher \in Publishers /\ session[d].boot \in Boots
          /\ session[d].boot # None
  BY ConstantsAssumption DEF SessionInv
<1>2. conn[d] # "none" /\ session[d].registered =>
          publishers'[session[d].publisher].boot = session[d].boot
  BY <1>1 DEF Sound, AuthorityMoves
<1>3. conn[d] = "erase" => session[d].registered /\ session[d].boot \in fencedBoots'
  BY DEF Sound, AuthorityMoves
<1>4. ASSUME conn[d] \in {"open", "touch"}, session[d].registered,
             session[d].boot \notin fencedBoots'
      PROVE  Leased(session[d].publisher)'
  <2>1. Leased(session[d].publisher)  BY <1>4 DEF Sound, AuthorityMoves
  <2>2. publishers'[session[d].publisher].boot = session[d].boot  BY <1>2, <1>4
  <2>3. Leased(session[d].publisher)' \/ publishers'[session[d].publisher].boot \in fencedBoots'
    <3>. DEFINE p == session[d].publisher
    <3>1. p \in Publishers /\ Leased(p) /\ session'[d].publisher = p
      BY <1>1, <1>4, <2>1 DEF KeepsConn
    <3>. HIDE DEF p
    <3>2. (lease'[p] # "none" \/ p \in expired' \/ \E k \in Conns : touching'[k] = p)
          \/ publishers'[p].boot \in fencedBoots'
      BY <3>1 DEF LeasesKept, Leased
    <3>. QED  BY <3>1, <3>2 DEF Leased, p
  <2>. QED  BY <1>4, <2>2, <2>3
<1>5. conn[d] = "touch" =>
          touching[d] \in Publishers /\ publishers'[touching[d]].boot # None
  BY DEF Sound, AuthorityMoves
<1>. QED  BY <1>2, <1>3, <1>4, <1>5 DEF Sound, KeepsConn

(* mark_dead keeps every boot where it is and fences that of the publisher. *)
LEMMA MarkDeadMoves ==
    ASSUME TypeOK, NEW p \in Publishers, MarkDead(p)
    PROVE  /\ AuthorityMoves /\ publishers'[p].boot \in fencedBoots'
           /\ publishers[p].boot \in fencedBoots'
<1>1. publishers \in [Publishers -> Publisher]  BY DEF TypeOK
<1>2. \A q \in Publishers : publishers'[q].boot = publishers[q].boot
  BY <1>1 DEF MarkDead, Publisher
<1>. QED  BY <1>2 DEF MarkDead, AuthorityMoves

(* register_publisher fences nobody and moves no known publisher. *)
LEMMA RegisterMoves ==
    ASSUME TypeOK, NEW p \in Publishers, NEW b \in Boots, RegisterPublisher(p, b)
    PROVE  AuthorityMoves /\ publishers'[p].boot = b /\ fencedBoots' = fencedBoots
<1>1. publishers \in [Publishers -> Publisher]  BY DEF TypeOK
<1>2. \A q \in Publishers : publishers'[q].boot = publishers[q].boot \/ publishers[q].boot = None
  BY <1>1 DEF RegisterPublisher
<1>. QED  BY <1>1, <1>2 DEF RegisterPublisher, AuthorityMoves

(* No step inside a call touches the authority table. *)
LEMMA CallKeepsAuthority ==
    ASSUME NEW t, InCall(t) \/ PrepareRequest(t) \/ RefreshReadEvidence(t) \/ ReadWatermark(t)
                  \/ \E id \in Lists, e \in 0 .. MaxGeneration : RevalidateRead(t, id, e)
    PROVE  UNCHANGED <<phase, authority>>
<1>1. CASE InCall(t) \/ RefreshReadEvidence(t) \/ ReadWatermark(t)
           \/ \E id \in Lists, e \in 0 .. MaxGeneration : RevalidateRead(t, id, e)
  BY <1>1 DEF InCall, ReadWatermark, ReadSnapshot, Replay, Refuse, Commit, CommitTransition,
              RefuseCommit, RefreshReadEpoch, RefreshApply, Swap, RefreshReadEvidence,
              RevalidateRead
<1>2. CASE PrepareRequest(t)
  <2>1. ASSUME NEW q, Prepare(t, q) PROVE UNCHANGED <<phase, authority>>  BY <2>1 DEF Prepare
  <2>2. \E q : Prepare(t, q)
    BY <1>2, Zenon DEF PrepareRequest, PrepareCommit, PrepareTransition
  <2>. QED  BY <2>1, <2>2
<1>. QED  BY <1>1, <1>2

(* If no lease, no collected publisher and no pending touch goes away,     *)
(* nobody loses a lease.                                                   *)
LEMMA LeasesStay ==
    ASSUME \A p \in Publishers : lease[p] # "none" => lease'[p] # "none",
           expired' = expired,
           \A d \in Conns : touching[d] \in Publishers => touching'[d] = touching[d]
    PROVE  LeasesKept
BY DEF LeasesKept, Leased

(* What a connection thread does to the leases. *)
ConnMoves(c) ==
    /\ ServerTypes' /\ AuthorityMoves /\ LeasesKept
    /\ \A d \in Conns \ {c} : KeepsConn(d)
    /\ Sound(c)'
    /\ UNCHANGED <<monitor, expired>>
    /\ phase # "serving" => conn'[c] = "none"

(* A step of a connection thread keeps its own session sound and nobody    *)
(* else's lease away.                                                      *)
LEMMA ConnectionLease ==
    ASSUME TypeOK, SessionInv, LeaseInv, NEW c \in Conns, Worker(c) \/ Progress(c)
    PROVE  ConnMoves(c)
<1>0. /\ ServerTypes /\ Sound(c) /\ (phase # "serving" => conn[c] = "none")
      /\ \A d \in Conns : Sound(d)
  BY DEF LeaseInv
<1>1. /\ session \in [Conns -> [publisher : Publishers \cup {None}, boot : Boots \cup {None},
                                registered : BOOLEAN]]
      /\ session[c].registered => session[c].publisher \in Publishers /\ session[c].boot \in Boots
  BY DEF SessionInv
<1>2. fencedBoots \in SUBSET Boots  BY DEF TypeOK
<1>3. ASSUME UNCHANGED <<phase, authority>> PROVE AuthorityMoves /\ fencedBoots' = fencedBoots /\ publishers' = publishers
  BY <1>3 DEF AuthorityMoves, authority
<1>4. ASSUME UNCHANGED <<phase, authority, conn, session, touching, lease, monitor, expired>>,
             frame' \in [Conns -> Frames \cup {None}], late' \in SUBSET Boots
      PROVE  ConnMoves(c)
  <2>1. ServerTypes'  BY <1>0, <1>4 DEF ServerTypes
  <2>2. AuthorityMoves /\ LeasesKept  BY <1>3, <1>4 DEF LeasesKept, Leased
  <2>3. KeepsConn(c) /\ \A d \in Conns \ {c} : KeepsConn(d)  BY <1>4 DEF KeepsConn
  <2>4. Sound(c)'  BY <1>0, <2>2, <2>3, OthersStay
  <2>. QED  BY <1>0, <1>4, <2>1, <2>2, <2>3, <2>4 DEF ConnMoves
<1>5. CASE \E f \in OfferedFrames : Request(c, f)
  <2>1. PICK f \in OfferedFrames : Request(c, f)  BY <1>5
  <2>2. UNCHANGED <<phase, authority>>  BY <2>1, CallKeepsAuthority DEF Request
  <2>3. frame' \in [Conns -> Frames \cup {None}] /\ late' \in SUBSET Boots
    BY <1>0, <2>1 DEF Request, ServerTypes, OfferedFrames
  <2>. QED  BY <1>4, <2>1, <2>2, <2>3 DEF Request
<1>6. CASE RequestRefresh(c)
  <2>1. UNCHANGED <<phase, authority>>  BY <1>6, CallKeepsAuthority DEF RequestRefresh
  <2>. QED  BY <1>0, <1>4, <1>6, <2>1 DEF RequestRefresh, coordinator, ServerTypes
<1>7. CASE Serving(c)
  <2>1. UNCHANGED <<phase, authority>>  BY <1>7, CallKeepsAuthority DEF Serving
  <2>2. frame' \in [Conns -> Frames \cup {None}] /\ late' \in SUBSET Boots
    BY <1>0, <1>2, <1>7 DEF Serving, ServerTypes
  <2>. QED  BY <1>4, <1>7, <2>1, <2>2 DEF Serving
<1>8. CASE Accept(c)
  <2>1. UNCHANGED <<phase, authority>> /\ phase = "serving"  BY <1>8 DEF Accept, vars
  <2>2. ServerTypes'  BY <1>0, <1>8 DEF Accept, GoTo, ServerTypes
  <2>3. /\ conn'[c] = "open" /\ session'[c] = NoSession /\ touching' = touching
        /\ lease' = lease /\ UNCHANGED <<monitor, expired>>
    BY <1>0, <1>1, <1>8 DEF Accept, GoTo, ServerTypes
  <2>4. LeasesKept  BY <2>3, LeasesStay
  <2>5. \A d \in Conns \ {c} : KeepsConn(d)
    BY <1>0, <1>1, <1>8 DEF Accept, GoTo, KeepsConn, ServerTypes
  <2>6. touching'[c] = None  BY <1>0, <1>8, <2>3 DEF Accept, Sound
  <2>7. Sound(c)'  BY <2>3, <2>6, NoSessionType DEF Sound
  <2>. QED  BY <1>3, <2>1, <2>2, <2>3, <2>4, <2>5, <2>7 DEF ConnMoves
<1>9. CASE \E p \in Publishers, b \in Boots : Hello(c, p, b)
  <2>1. PICK p \in Publishers, b \in Boots : Hello(c, p, b)  BY <1>9
  <2>2. /\ AuthorityMoves /\ publishers'[p].boot = b /\ fencedBoots' = fencedBoots
        /\ phase = "serving"
    BY <2>1, RegisterMoves DEF Hello, Waiting, At
  <2>3. ServerTypes'  BY <1>0, <2>1 DEF Hello, GoTo, ServerTypes
  <2>4. /\ conn'[c] = "touch" /\ touching'[c] = p /\ session'[c].publisher = p
        /\ session'[c].boot = b /\ lease' = lease /\ UNCHANGED <<monitor, expired>>
    BY <1>0, <1>1, <2>1 DEF Hello, GoTo, ServerTypes
  <2>5. \A d \in Conns \ {c} : KeepsConn(d)
    BY <1>0, <1>1, <2>1 DEF Hello, GoTo, KeepsConn, ServerTypes
  <2>6. touching[c] = None  BY <1>0, <2>1 DEF Hello, Waiting, Sound
  <2>7. LeasesKept
    BY <2>4, <2>5, <2>6, CoordinatorAssumption, LeasesStay DEF KeepsConn
  <2>8. Sound(c)'
    <3>1. publishers'[p].boot # None  BY <2>2, ConstantsAssumption
    <3>. QED  BY <2>2, <2>4, <3>1 DEF Sound, Leased
  <2>. QED  BY <2>2, <2>3, <2>4, <2>5, <2>7, <2>8 DEF ConnMoves
<1>10. CASE \E p \in Publishers : Heartbeat(c, p)
  <2>1. PICK p \in Publishers : Heartbeat(c, p)  BY <1>10
  <2>2. UNCHANGED <<phase, authority>> /\ phase = "serving" /\ conn[c] = "open"
    BY <2>1 DEF Heartbeat, vars, Waiting, At
  <2>3. ServerTypes'  BY <1>0, <2>1 DEF Heartbeat, GoTo, ServerTypes
  <2>4. /\ conn'[c] = "touch" /\ touching'[c] = p /\ session' = session
        /\ lease' = lease /\ UNCHANGED <<monitor, expired>>
    BY <1>0, <2>1 DEF Heartbeat, GoTo, ServerTypes
  <2>5. \A d \in Conns \ {c} : KeepsConn(d)
    BY <1>0, <2>1 DEF Heartbeat, GoTo, KeepsConn, ServerTypes
  <2>6. touching[c] = None  BY <1>0, <2>2 DEF Sound
  <2>7. LeasesKept
    BY <2>4, <2>5, <2>6, CoordinatorAssumption, LeasesStay DEF KeepsConn
  <2>8. session[c].registered /\ session[c].boot \notin fencedBoots =>
            Leased(session[c].publisher)'
    <3>. DEFINE q == session[c].publisher
    <3>1. session[c].registered /\ session[c].boot \notin fencedBoots => q \in Publishers /\ Leased(q)
      BY <1>0, <1>1, <2>2 DEF Sound
    <3>2. q \in Publishers /\ Leased(q) => Leased(q)'
      BY <2>4, <2>5, <2>6, CoordinatorAssumption DEF Leased, KeepsConn
    <3>. QED  BY <3>1, <3>2
  <2>9. Sound(c)'
    <3>1. publishers'[p].boot # None  BY <1>3, <2>1, <2>2 DEF Heartbeat
    <3>. QED  BY <1>0, <1>3, <2>2, <2>4, <2>8, <3>1 DEF Sound
  <2>. QED  BY <1>3, <2>2, <2>3, <2>4, <2>5, <2>7, <2>9 DEF ConnMoves
<1>11. CASE Touch(c)
  <2>1. /\ UNCHANGED <<phase, authority>> /\ phase = "serving" /\ touching[c] \in Publishers
        /\ conn[c] = "touch"
    BY <1>0, <1>11 DEF Touch, vars, Sound
  <2>2. ServerTypes'  BY <1>0, <1>11 DEF Touch, GoTo, ServerTypes
  <2>3. /\ conn'[c] = "open" /\ touching'[c] = None /\ session' = session
        /\ lease' = [lease EXCEPT ![touching[c]] = "fresh"] /\ UNCHANGED <<monitor, expired>>
    BY <1>0, <1>11 DEF Touch, GoTo, ServerTypes
  <2>4. \A d \in Conns \ {c} : KeepsConn(d)
    BY <1>0, <1>11 DEF Touch, GoTo, KeepsConn, ServerTypes
  <2>5. ASSUME NEW p \in Publishers, Leased(p)
        PROVE  lease'[p] # "none" \/ p \in expired' \/ \E d \in Conns : touching'[d] = p
    BY <1>0, <2>1, <2>3, <2>4, <2>5 DEF Leased, ServerTypes, KeepsConn
  <2>6. LeasesKept  BY <2>5 DEF LeasesKept, Leased
  <2>7. session[c].registered /\ session[c].boot \notin fencedBoots =>
            Leased(session[c].publisher)'
    BY <1>0, <1>1, <2>1, <2>3, <2>5 DEF Sound, Leased
  <2>8. Sound(c)'  BY <1>0, <1>3, <2>1, <2>3, <2>7 DEF Sound
  <2>. QED  BY <1>3, <2>1, <2>2, <2>3, <2>4, <2>6, <2>8 DEF ConnMoves
<1>12. CASE Goodbye(c) \/ End(c)
  <2>1. /\ phase = "serving" /\ conn[c] = "open" /\ touching[c] = None
    BY <1>0, <1>12 DEF Goodbye, End, Waiting, At, Sound
  <2>2. /\ AuthorityMoves
        /\ session[c].registered => session[c].boot \in fencedBoots'
    <3>1. CASE session[c].registered
      <4>1. MarkDead(session[c].publisher) /\ session[c].publisher \in Publishers
        BY <1>1, <1>12, <3>1 DEF Goodbye, End
      <4>2. publishers[session[c].publisher].boot = session[c].boot
        BY <1>0, <2>1, <3>1 DEF Sound
      <4>. QED  BY <4>1, <4>2, MarkDeadMoves
    <3>2. CASE ~ session[c].registered
      <4>1. UNCHANGED <<phase, authority>>  BY <1>12, <3>2 DEF Goodbye, End, vars
      <4>. QED  BY <1>3, <3>2, <4>1
    <3>. QED  BY <3>1, <3>2
  <2>3. ServerTypes'  BY <1>0, <1>12 DEF Goodbye, End, GoTo, ServerTypes
  <2>4. /\ conn'[c] = "none" \/ (conn'[c] = "erase" /\ session[c].registered /\ session' = session)
        /\ UNCHANGED <<touching, lease, monitor, expired>>
    BY <1>0, <1>12 DEF Goodbye, End, GoTo, ServerTypes
  <2>5. \A d \in Conns \ {c} : KeepsConn(d)
    BY <1>0, <1>1, <1>12 DEF Goodbye, End, GoTo, KeepsConn, ServerTypes
  <2>6. LeasesKept  BY <2>4, LeasesStay
  <2>7. Sound(c)'
    <3>1. CASE conn'[c] = "none"  BY <2>1, <2>4, <3>1 DEF Sound
    <3>2. CASE conn'[c] = "erase" /\ session[c].registered /\ session' = session
      <4>1. publishers[session[c].publisher].boot = session[c].boot /\ session[c].boot # None
        BY <1>0, <1>1, <2>1, <3>2, ConstantsAssumption DEF Sound
      <4>2. publishers'[session[c].publisher].boot = session[c].boot
        BY <1>1, <2>2, <3>2, <4>1 DEF AuthorityMoves
      <4>. QED  BY <2>1, <2>2, <2>4, <3>2, <4>2 DEF Sound
    <3>. QED  BY <2>4, <3>1, <3>2
  <2>. QED  BY <2>1, <2>2, <2>3, <2>4, <2>5, <2>6, <2>7 DEF ConnMoves
<1>13. CASE EraseLease(c)
  <2>1. /\ UNCHANGED <<phase, authority>> /\ phase = "serving" /\ conn[c] = "erase"
        /\ session[c].registered /\ session[c].boot \in fencedBoots /\ touching[c] = None
        /\ publishers[session[c].publisher].boot = session[c].boot
    BY <1>0, <1>13 DEF EraseLease, vars, Sound
  <2>2. ServerTypes'  BY <1>0, <1>13 DEF EraseLease, GoTo, ServerTypes
  <2>3. /\ conn'[c] = "refresh" /\ UNCHANGED <<session, touching, monitor, expired>>
        /\ lease' = [lease EXCEPT ![session[c].publisher] = "none"]
    BY <1>0, <1>13 DEF EraseLease, GoTo, ServerTypes
  <2>4. \A d \in Conns \ {c} : KeepsConn(d)
    BY <1>0, <1>13 DEF EraseLease, GoTo, KeepsConn, ServerTypes
  <2>5. fencedBoots' = fencedBoots /\ publishers' = publishers  BY <1>3, <2>1
  <2>6. LeasesKept
    <3>1. ASSUME NEW p \in Publishers, Leased(p)
          PROVE  \/ lease'[p] # "none" \/ p \in expired' \/ \E d \in Conns : touching'[d] = p
                 \/ publishers'[p].boot \in fencedBoots'
      BY <1>0, <2>1, <2>3, <2>5, <3>1 DEF Leased, ServerTypes
    <3>. QED  BY <3>1 DEF LeasesKept, Leased
  <2>7. Sound(c)'  BY <2>1, <2>3, <2>5 DEF Sound
  <2>. QED  BY <1>3, <2>1, <2>2, <2>3, <2>4, <2>6, <2>7 DEF ConnMoves
<1>14. CASE RefreshOnEnd(c) \/ Closing(c)
  <2>1. UNCHANGED <<phase, authority>>
    BY <1>14, CallKeepsAuthority DEF RefreshOnEnd, Closing, vars
  <2>2. ServerTypes'  BY <1>0, <1>14 DEF RefreshOnEnd, Closing, GoTo, ServerTypes
  <2>3. /\ conn[c] \in {"refresh", "closing"} /\ conn'[c] \in {"closing", "none"}
        /\ UNCHANGED <<session, touching, lease, monitor, expired>>
    BY <1>0, <1>14 DEF RefreshOnEnd, Closing, GoTo, ServerTypes
  <2>4. \A d \in Conns \ {c} : KeepsConn(d)
    BY <1>0, <1>14 DEF RefreshOnEnd, Closing, GoTo, KeepsConn, ServerTypes
  <2>5. LeasesKept  BY <2>3, LeasesStay
  <2>6. Sound(c)'  BY <1>0, <1>3, <2>1, <2>3 DEF Sound
  <2>. QED  BY <1>0, <1>3, <2>1, <2>2, <2>3, <2>4, <2>5, <2>6 DEF ConnMoves
<1>. QED
  BY <1>5, <1>6, <1>7, <1>8, <1>9, <1>10, <1>11, <1>12, <1>13, <1>14 DEF Worker, Progress

(* The invariant of the leases is inductive. *)
LEMMA LeaseStep ==
    TypeOK /\ SessionInv /\ LeaseInv /\ [CoordinatorNext]_allVars => LeaseInv'
<1>. SUFFICES ASSUME TypeOK, SessionInv, LeaseInv, [CoordinatorNext]_allVars PROVE LeaseInv'
  OBVIOUS
<1>0. /\ ServerTypes /\ (phase # "serving" => \A c \in Conns : conn[c] = "none")
      /\ (monitor # "fence" => expired = {}) /\ \A c \in Conns : Sound(c)
  BY DEF LeaseInv
<1>1. ASSUME UNCHANGED <<phase, authority>> PROVE AuthorityMoves  BY <1>1 DEF AuthorityMoves, authority
<1>2. ASSUME AuthorityMoves, LeasesKept, ServerTypes', monitor' # "fence" => expired' = {},
             UNCHANGED <<conn, session, touching>>
      PROVE  LeaseInv'
  <2>1. \A d \in Conns : KeepsConn(d)  BY <1>2 DEF KeepsConn
  <2>2. \A d \in Conns : Sound(d)'  BY <1>0, <1>2, <2>1, OthersStay
  <2>. QED  BY <1>0, <1>2, <2>2 DEF LeaseInv, AuthorityMoves
<1>3. CASE \E c \in Conns : Worker(c) \/ Progress(c)
  <2>1. PICK c \in Conns : Worker(c) \/ Progress(c)  BY <1>3
  <2>2. ConnMoves(c)  BY <2>1, ConnectionLease
  <2>3. ASSUME NEW d \in Conns PROVE Sound(d)'
    <3>1. CASE d = c  BY <2>2, <3>1 DEF ConnMoves
    <3>2. CASE d # c  BY <1>0, <2>2, <3>2, OthersStay DEF ConnMoves
    <3>. QED  BY <3>1, <3>2
  <2>4. phase' # "serving" => \A d \in Conns : conn'[d] = "none"
    BY <1>0, <2>2 DEF ConnMoves, AuthorityMoves, KeepsConn
  <2>. QED  BY <1>0, <2>2, <2>3, <2>4 DEF ConnMoves, LeaseInv
<1>4. CASE \E p \in Publishers : Age(p)
  <2>1. PICK p \in Publishers : Age(p)  BY <1>4
  <2>2. UNCHANGED <<phase, authority, conn, session, touching, monitor, expired>>
    BY <2>1 DEF Age, vars
  <2>3. ServerTypes'  BY <1>0, <2>1 DEF Age, ServerTypes
  <2>4. LeasesKept
    <3>1. \A q \in Publishers : lease[q] # "none" => lease'[q] # "none"
      BY <1>0, <2>1 DEF Age, ServerTypes
    <3>. QED  BY <2>2, <3>1, LeasesStay
  <2>. QED  BY <1>0, <1>1, <1>2, <2>2, <2>3, <2>4
<1>5. CASE ExpireLeases
  <2>1. UNCHANGED <<phase, authority, conn, session, touching>>  BY <1>5 DEF ExpireLeases, vars
  <2>2. ServerTypes'  BY <1>0, <1>5 DEF ExpireLeases, ServerTypes
  <2>3. ASSUME NEW p \in Publishers, Leased(p) PROVE Leased(p)'
    BY <1>0, <1>5, <2>3 DEF ExpireLeases, Leased
  <2>. QED  BY <1>1, <1>2, <1>5, <2>1, <2>2, <2>3 DEF ExpireLeases, LeasesKept
<1>6. CASE \E p \in Publishers : FenceExpired(p)
  <2>1. PICK p \in Publishers : FenceExpired(p)  BY <1>6
  <2>2. AuthorityMoves /\ publishers'[p].boot \in fencedBoots'
    BY <2>1, MarkDeadMoves DEF FenceExpired
  <2>3. UNCHANGED <<conn, session, touching, lease, monitor>> /\ expired' = expired \ {p}
    BY <2>1 DEF FenceExpired
  <2>4. ServerTypes'  BY <1>0, <2>1 DEF FenceExpired, ServerTypes
  <2>5. LeasesKept  BY <2>2, <2>3 DEF LeasesKept, Leased
  <2>. QED  BY <1>0, <1>2, <2>2, <2>3, <2>4, <2>5
<1>7. CASE RefreshExpired
  <2>1. UNCHANGED <<phase, authority>>  BY <1>7, CallKeepsAuthority DEF RefreshExpired, vars
  <2>2. UNCHANGED <<conn, session, touching, lease, expired>>  BY <1>7 DEF RefreshExpired
  <2>3. ServerTypes' /\ (monitor' # "fence" => expired' = {})
    BY <1>0, <1>7 DEF RefreshExpired, ServerTypes
  <2>4. LeasesKept  BY <2>2, LeasesStay
  <2>. QED  BY <1>1, <1>2, <2>1, <2>2, <2>3, <2>4
<1>8. CASE Lifetime
  <2>1. CASE \A c \in Conns : conn'[c] = "none" /\ touching'[c] = None
    <3>1. ServerTypes' /\ (monitor' # "fence" => expired' = {})
      BY <1>0, <1>8 DEF Lifetime, Fresh, coordinator, ServerTypes
    <3>2. \A c \in Conns : Sound(c)'  BY <2>1 DEF Sound
    <3>. QED  BY <2>1, <3>1, <3>2 DEF LeaseInv
  <2>2. CASE Crash /\ conn' = Fresh.conn /\ touching' = Fresh.touching
    BY <2>1, <2>2 DEF Fresh
  <2>3. CASE /\ LoadNothing \/ Load \/ (\E x \in Builtins : DeclareBuiltin(x)) \/ Serve
             /\ UNCHANGED coordinator
    <3>1. phase # "serving" /\ conn' = conn /\ touching' = touching
      BY <2>3 DEF LoadNothing, Load, DeclareBuiltin, Serve, coordinator
    <3>2. \A c \in Conns : conn[c] = "none" /\ touching[c] = None  BY <1>0, <3>1 DEF Sound
    <3>. QED  BY <2>1, <3>1, <3>2
  <2>. QED  BY <1>8, <2>2, <2>3 DEF Lifetime
<1>9. CASE UNCHANGED allVars
  <2>1. UNCHANGED <<phase, authority, conn, session, touching, lease, monitor, expired, frame, late>>
    BY <1>9 DEF allVars, vars, coordinator
  <2>2. LeasesKept  BY <2>1, LeasesStay
  <2>3. ServerTypes'  BY <1>0, <2>1 DEF ServerTypes
  <2>. QED  BY <1>0, <1>1, <1>2, <2>1, <2>2, <2>3
<1>. QED
  BY <1>3, <1>4, <1>5, <1>6, <1>7, <1>8, <1>9 DEF CoordinatorNext, Expiry

(* A live writer cannot escape its lease, for any number of connections    *)
(* and publishers: not by a second Hello, not by heartbeats for somebody   *)
(* else, and not by a connection that ends while another one of the same   *)
(* publisher is open.                                                      *)
THEOREM WritersAreLeased ==
    ASSUME ServedCalls
    PROVE  CoordinatorSpec => [](CoordinatorTypeOK /\ LiveSessionsAreLeased)
<1>1. CoordinatorInit => SessionInv /\ LeaseInv
  <2>. SUFFICES ASSUME CoordinatorInit PROVE SessionInv /\ LeaseInv  OBVIOUS
  <2>1. SessionInv  BY DEF CoordinatorInit, SessionInv, Fresh, NoSession
  <2>2. /\ conn = [c \in Conns |-> "none"] /\ frame = [c \in Conns |-> None]
        /\ touching = [c \in Conns |-> None] /\ lease = [p \in Publishers |-> "none"]
        /\ monitor = "sleep" /\ expired = {} /\ late = {}
    BY DEF CoordinatorInit, Fresh
  <2>3. ServerTypes  BY <2>2 DEF ServerTypes
  <2>4. \A c \in Conns : Sound(c)  BY <2>2 DEF Sound
  <2>. QED  BY <2>1, <2>2, <2>3, <2>4 DEF LeaseInv
<1>2. SessionInv /\ [CoordinatorNext]_allVars => SessionInv' /\ [Next]_vars  BY CoordinatorStep
<1>3. TypeOK /\ SessionInv /\ LeaseInv => CoordinatorTypeOK /\ LiveSessionsAreLeased
  <2>. SUFFICES ASSUME TypeOK, SessionInv, LeaseInv PROVE CoordinatorTypeOK /\ LiveSessionsAreLeased
    OBVIOUS
  <2>1. CoordinatorTypeOK
    <3>1. None \notin Publishers  BY CoordinatorAssumption
    <3>. QED  BY <3>1 DEF LeaseInv, Sound, ServerTypes, SessionInv, CoordinatorTypeOK
  <2>2. LiveSessionsAreLeased  BY DEF LeaseInv, Sound, Leased, LiveSessionsAreLeased
  <2>. QED  BY <2>1, <2>2
<1>. QED
  BY <1>1, <1>2, <1>3, LeaseStep, Composition, TypeCorrect, PTL DEF CoordinatorSpec

(* The server's tables keep their types across handlers, expiries and      *)
(* restarts: a connection has a frame only of the kinds it decodes, a      *)
(* publisher's lease has one of its three values, the store's threads that *)
(* the connections are keep the types of SegmentStore, and the lease that  *)
(* is touched or erased is that of a publisher somebody registered.        *)
THEOREM CoordinatorTypes ==
    ASSUME ServedCalls
    PROVE  CoordinatorSpec => []CoordinatorTypeOK
BY WritersAreLeased, PTL
================================================================================
