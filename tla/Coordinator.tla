------------------------------ MODULE Coordinator ------------------------------
(***************************************************************************)
(* The coordinator server of src/coordinator.cpp on top of the store: the  *)
(* connections and their sessions, the publisher leases and the monitor    *)
(* that expires them.                                                      *)
(*                                                                         *)
(* Every connection has a thread of its own, which reads one frame after   *)
(* another and answers each before it reads the next; the monitor is one   *)
(* more thread.  They call the store through the actions of SegmentStore,  *)
(* so a connection that is in the middle of a call is where pc says it is. *)
(*                                                                         *)
(* Abstraction.  A frame is the request it decodes to; frames that do not  *)
(* decode and requests that are only answered change nothing and are left  *)
(* out.  Time is the age of a lease: "fresh" or "old" (longer than         *)
(* lease_milliseconds since the last touch).  stop() ends every connection *)
(* and then discards memory, which is End and then Crash.                  *)
(***************************************************************************)
EXTENDS SegmentStore

CONSTANTS
    Conns,      \* the connection threads
    Monitor     \* the monitor thread

ASSUME CoordinatorAssumption ==
    /\ Threads = Conns \cup {Monitor}
    /\ Monitor \notin Conns
    /\ None \notin Publishers
    /\ ~ EpochAdvances

VARIABLES
    conn,       \* where handle_connection is on each connection thread
    frame,      \* the mutating request that is being served, or None
    session,    \* the Session of each connection
    touching,   \* the publisher whose lease dispatch is about to touch
    lease,      \* last_seen_: the age of each publisher's lease, or "none"
    monitor,    \* where monitor_loop is
    expired     \* the publishers expire_leases has collected and not fenced yet

(* Auxiliary variable: the boots that had a commit after they were fenced. *)
VARIABLE late

coordinator == <<conn, frame, session, touching, lease, monitor, expired>>
allVars == <<vars, coordinator, late>>

Frames == {"CreateList", "ReplaceList", "Lifecycle"}
OfferedFrames ==
    {f \in Frames : f = "Lifecycle" => Calls \cap ({"revalidate"} \cup TransitionEvents) # {}}
NoSession == [publisher |-> None, boot |-> None, registered |-> FALSE]

(* The type invariant.  A connection names a publisher exactly while it is *)
(* about to touch that publisher's lease, and a session whose lease is     *)
(* about to be erased has one: last_seen_ never gets an entry under an     *)
(* identifier nobody registered, which the monitor would try to fence.     *)
CoordinatorTypeOK ==
    /\ TypeOK
    /\ conn \in [Conns -> {"none", "open", "touch", "erase", "refresh", "closing"}]
    /\ frame \in [Conns -> Frames \cup {None}]
    /\ session \in [Conns -> [publisher : Publishers \cup {None}, boot : Boots \cup {None},
                              registered : BOOLEAN]]
    /\ touching \in [Conns -> Publishers \cup {None}]
    /\ lease \in [Publishers -> {"none", "fresh", "old"}]
    /\ monitor \in {"sleep", "fence", "refresh"}
    /\ expired \in SUBSET Publishers /\ late \in SUBSET Boots
    /\ \A c \in Conns :
           /\ IF conn[c] = "touch"
              THEN touching[c] \in Publishers /\ publishers[touching[c]].boot # None
              ELSE touching[c] = None
           /\ conn[c] = "erase" => session[c].publisher # None

(* A coordinator that has just been started. *)
Fresh ==
    [conn |-> [c \in Conns |-> "none"], frame |-> [c \in Conns |-> None],
     session |-> [c \in Conns |-> NoSession], touching |-> [c \in Conns |-> None],
     lease |-> [p \in Publishers |-> "none"]]

CoordinatorInit ==
    /\ Init
    /\ conn = Fresh.conn /\ frame = Fresh.frame /\ session = Fresh.session
    /\ touching = Fresh.touching /\ lease = Fresh.lease
    /\ monitor = "sleep" /\ expired = {} /\ late = {}
--------------------------------------------------------------------------------
(* Connections. *)

(* The thread waits for the next frame. *)
Waiting(c) == conn[c] = "open" /\ At(c, "idle")

GoTo(c, label) == conn' = [conn EXCEPT ![c] = label]

(* serve *)
Accept(c) ==
    /\ phase = "serving"
    /\ conn[c] = "none"
    /\ GoTo(c, "open")
    /\ session' = [session EXCEPT ![c] = NoSession]
    /\ UNCHANGED <<vars, frame, touching, lease, monitor, expired, late>>

(* Mutant: a new session gets no lease. *)
Hello_NoLease(c, p, b) ==
    /\ Waiting(c)
    /\ RegisterPublisher(p, b)
    /\ session' = [session EXCEPT ![c] = [publisher |-> p, boot |-> b, registered |-> TRUE]]
    /\ UNCHANGED <<conn, frame, touching, lease, monitor, expired, late>>

(* dispatch: Hello.  The lease is touched under another lock, afterwards.  *)
(* A second Hello moves the connection to another publisher.               *)
Hello(c, p, b) ==
    /\ Waiting(c)
    /\ RegisterPublisher(p, b)
    /\ session' = [session EXCEPT ![c] = [publisher |-> p, boot |-> b, registered |-> TRUE]]
    /\ touching' = [touching EXCEPT ![c] = p]
    /\ GoTo(c, "touch")
    /\ UNCHANGED <<frame, lease, monitor, expired, late>>

(* Mutant: the lease of the session is touched, which there need not be.   *)
Heartbeat_OfSession(c, p) ==
    /\ Waiting(c)
    /\ publishers[p].boot # None
    /\ publishers[p].alive
    /\ publishers[p].boot \notin fencedBoots
    /\ touching' = [touching EXCEPT ![c] = session[c].publisher]
    /\ GoTo(c, "touch")
    /\ UNCHANGED <<vars, frame, session, lease, monitor, expired, late>>

(* dispatch: Heartbeat, accepted.  The frame names the publisher itself.   *)
Heartbeat(c, p) ==
    /\ Waiting(c)
    /\ publishers[p].boot # None
    /\ publishers[p].alive
    /\ publishers[p].boot \notin fencedBoots
    /\ touching' = [touching EXCEPT ![c] = p]
    /\ GoTo(c, "touch")
    /\ UNCHANGED <<vars, frame, session, lease, monitor, expired, late>>

(* touch *)
Touch(c) ==
    /\ conn[c] = "touch"
    /\ lease' = [lease EXCEPT ![touching[c]] = "fresh"]
    /\ touching' = [touching EXCEPT ![c] = None]
    /\ GoTo(c, "open")
    /\ UNCHANGED <<vars, frame, session, monitor, expired, late>>

(* dispatch: a request that mutates the store, from a registered session.  *)
(* (Without one it is refused.)                                            *)
Request(c, f) ==
    /\ Waiting(c)
    /\ session[c].registered
    /\ frame' = [frame EXCEPT ![c] = f]
    /\ \/ ReadWatermark(c)
       \/ /\ f = "Lifecycle"
          /\ "revalidate" \in Calls
          /\ \E id \in Lists, e \in 0 .. MaxGeneration : RevalidateRead(c, id, e)
    /\ UNCHANGED <<conn, session, touching, lease, monitor, expired, late>>

(* dispatch: RefreshCurrentness, which needs no session. *)
RequestRefresh(c) ==
    /\ Waiting(c)
    /\ RefreshReadEvidence(c)
    /\ UNCHANGED <<coordinator, late>>

(* The caller a mutation carries is that of the session.  CreateList and   *)
(* ReplaceList are both served by create_list.                             *)
PrepareRequest(c) ==
    LET p == session[c].publisher
        b == session[c].boot
    IN  /\ session[c].registered
        /\ \E a \in Attempts :
           \/ /\ frame[c] \in {"CreateList", "ReplaceList"}
              /\ request[c] = None
              /\ \E id \in Lists, body \in Bodies, sup \in Lists \cup {None} :
                    PrepareCommit(c, "ValidateBegin", SubmittedDraft(id, body, sup), a, p, b)
           \/ /\ frame[c] = "Lifecycle"
              /\ request[c] = None
              /\ \E id \in Lists, event \in TransitionEvents \cap Calls :
                    PrepareTransition(c, event, id, a, p, b)
           \/ /\ frame[c] = "Lifecycle"
              /\ request[c] # None
              /\ PrepareCommit(c, "RevalidateBegin", request[c], a, p, b)

(* A step of a thread inside a call to the store. *)
InCall(t) ==
    \/ At(t, "revalidate") /\ ReadWatermark(t)
    \/ ReadSnapshot(t)
    \/ \E a \in Attempts : Replay(t, a)
    \/ Refuse(t)
    \/ Commit(t)
    \/ CommitTransition(t)
    \/ RefuseCommit(t)
    \/ RefreshReadEpoch(t)
    \/ RefreshApply(t)
    \/ Swap(t)

Serving(c) ==
    /\ conn[c] = "open"
    /\ PrepareRequest(c) \/ InCall(c)
    /\ frame' = [frame EXCEPT ![c] = IF pc'[c] = "idle" THEN None ELSE @]
    /\ late' = IF pc[c] = "prepared" /\ pc'[c] = "saved"
               THEN late \cup ({session[c].boot} \cap fencedBoots) ELSE late
    /\ UNCHANGED <<conn, session, touching, lease, monitor, expired>>

(* Mutant: saying goodbye also drops the lease. *)
Goodbye_DropsLease(c) ==
    /\ Waiting(c)
    /\ IF session[c].registered THEN MarkDead(session[c].publisher) ELSE UNCHANGED vars
    /\ lease' = IF session[c].registered
                THEN [lease EXCEPT ![session[c].publisher] = "none"] ELSE lease
    /\ session' = [session EXCEPT ![c].registered = FALSE]
    /\ GoTo(c, "none")
    /\ UNCHANGED <<frame, touching, monitor, expired, late>>

(* dispatch: Goodbye.  The session is not registered any more when the     *)
(* connection ends right after it, so nothing is refreshed; the lease is   *)
(* left to expire.                                                         *)
Goodbye(c) ==
    /\ Waiting(c)
    /\ IF session[c].registered THEN MarkDead(session[c].publisher) ELSE UNCHANGED vars
    /\ session' = [session EXCEPT ![c].registered = FALSE]
    /\ GoTo(c, "none")
    /\ UNCHANGED <<frame, touching, lease, monitor, expired, late>>

(* The connection ends without one (the worker closes it, is killed, or    *)
(* sends what cannot be assembled): the writer is fenced ...               *)
End(c) ==
    /\ Waiting(c)
    /\ IF session[c].registered
       THEN MarkDead(session[c].publisher) /\ GoTo(c, "erase")
       ELSE UNCHANGED vars /\ GoTo(c, "none")
    /\ UNCHANGED <<frame, session, touching, lease, monitor, expired, late>>

(* ... its lease is erased ... *)
EraseLease(c) ==
    /\ conn[c] = "erase"
    /\ lease' = [lease EXCEPT ![session[c].publisher] = "none"]
    /\ GoTo(c, "refresh")
    /\ UNCHANGED <<vars, frame, session, touching, monitor, expired, late>>

(* ... the lists are re-evaluated ... *)
RefreshOnEnd(c) ==
    /\ conn[c] = "refresh"
    /\ RefreshReadEvidence(c)
    /\ GoTo(c, "closing")
    /\ UNCHANGED <<frame, session, touching, lease, monitor, expired, late>>

(* ... and the thread ends. *)
Closing(c) ==
    /\ conn[c] = "closing"
    /\ \/ InCall(c) /\ UNCHANGED conn
       \/ pc[c] = "idle" /\ GoTo(c, "none") /\ UNCHANGED vars
    /\ UNCHANGED <<frame, session, touching, lease, monitor, expired, late>>
--------------------------------------------------------------------------------
(* Leases. *)

(* Time passes without a touch. *)
Age(p) ==
    /\ lease[p] = "fresh"
    /\ lease' = [lease EXCEPT ![p] = "old"]
    /\ UNCHANGED <<vars, conn, frame, session, touching, monitor, expired, late>>

(* expire_leases: the old leases are collected and erased under the lease  *)
(* lock ...                                                                *)
ExpireLeases ==
    LET old == {p \in Publishers : lease[p] = "old"}
    IN  /\ phase = "serving"
        /\ monitor = "sleep"
        /\ old # {}
        /\ expired' = old
        /\ lease' = [p \in Publishers |-> IF p \in old THEN "none" ELSE lease[p]]
        /\ monitor' = "fence"
        /\ UNCHANGED <<vars, conn, frame, session, touching, late>>

(* ... and fenced after it is released ... *)
FenceExpired(p) ==
    /\ monitor = "fence"
    /\ p \in expired
    /\ MarkDead(p)
    /\ expired' = expired \ {p}
    /\ UNCHANGED <<conn, frame, session, touching, lease, monitor, late>>

(* ... and then the lists are re-evaluated. *)
RefreshExpired ==
    \/ /\ monitor = "fence" /\ expired = {}
       /\ RefreshReadEvidence(Monitor)
       /\ monitor' = "refresh"
       /\ UNCHANGED <<conn, frame, session, touching, lease, expired, late>>
    \/ /\ monitor = "refresh"
       /\ \/ InCall(Monitor) /\ UNCHANGED monitor
          \/ pc[Monitor] = "idle" /\ monitor' = "sleep" /\ UNCHANGED vars
       /\ UNCHANGED <<conn, frame, session, touching, lease, expired, late>>
--------------------------------------------------------------------------------
Lifetime ==
    /\ \/ /\ Crash
          /\ conn' = Fresh.conn /\ frame' = Fresh.frame /\ session' = Fresh.session
          /\ touching' = Fresh.touching /\ lease' = Fresh.lease
          /\ monitor' = "sleep" /\ expired' = {}
       \/ /\ LoadNothing \/ Load \/ (\E x \in Builtins : DeclareBuiltin(x)) \/ Serve
          /\ UNCHANGED coordinator
    /\ UNCHANGED late

(* What the code does by itself once a request is there. *)
Progress(c) == Touch(c) \/ Serving(c) \/ EraseLease(c) \/ RefreshOnEnd(c) \/ Closing(c)

Expiry == ExpireLeases \/ (\E p \in Publishers : FenceExpired(p)) \/ RefreshExpired

Worker(c) ==
    \/ Accept(c)
    \/ \E p \in Publishers, b \in Boots : Hello(c, p, b)
    \/ \E p \in Publishers : Heartbeat(c, p)
    \/ \E f \in OfferedFrames : Request(c, f)
    \/ "refresh" \in Calls /\ RequestRefresh(c)
    \/ Goodbye(c)
    \/ End(c)

CoordinatorNext ==
    \/ \E c \in Conns : Worker(c) \/ Progress(c)
    \/ \E p \in Publishers : Age(p)
    \/ Expiry
    \/ Lifetime

CoordinatorSpec == CoordinatorInit /\ [][CoordinatorNext]_allVars

(* The scheduler runs every thread that can run, the monitor wakes up      *)
(* every 20 ms, and time passes.  Workers owe nothing: they may fall       *)
(* silent at any point and never end their connection.                     *)
Fairness ==
    /\ \A c \in Conns : WF_allVars(Progress(c))
    /\ \A p \in Publishers : WF_allVars(Age(p))
    /\ WF_allVars(Expiry)

FairCoordinatorSpec == CoordinatorSpec /\ Fairness
--------------------------------------------------------------------------------
(* Properties. *)

(* A live writer cannot escape its lease: a registered session whose boot  *)
(* is not fenced has a lease, is about to touch one, or its publisher has  *)
(* been collected by the monitor, so that a writer that falls silent is    *)
(* always noticed.                                                         *)
LiveSessionsAreLeased ==
    \A c \in Conns :
        /\ conn[c] = "open"
        /\ session[c].registered
        /\ session[c].boot \notin fencedBoots
        => \/ lease[session[c].publisher] # "none"
           \/ session[c].publisher \in expired
           \/ \E d \in Conns : touching[d] = session[c].publisher

Degraded(b) == \A l \in Lists : store.lists[l].boot = b => ~ Available(store.lists[l])

(* The boot is fenced and no connection is left under it. *)
Ended(b) == b \in fencedBoots /\ \A c \in Conns : conn[c] # "none" => session[c].boot # b

(* Fencing takes effect: after a writer has ended, by a lost connection,   *)
(* an expired lease or a goodbye, and no commit of it overtook its fencing,*)
(* every list it wrote stops being available.                              *)
FencedWritersDegrade == \A b \in Boots : (Ended(b) /\ b \notin late) ~> Degraded(b)
================================================================================
