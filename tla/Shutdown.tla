-------------------------------- MODULE Shutdown --------------------------------
(***************************************************************************)
(* The threads of the coordinator process and how they end:                *)
(* CoordinatorServer::serve and stop, the lease monitor, the connection    *)
(* threads of src/coordinator.cpp, the sockets of src/transport.cpp they   *)
(* block on, and the main function of tools/srf_coordinator.cpp, in which  *)
(* a second thread calls stop() while the first is in serve() and the      *)
(* first calls it again afterwards.  Coordinator and FrameStream are about *)
(* what a connection does while the process serves; this module is about   *)
(* who may still be running, and what may still be used, when it stops.    *)
(*                                                                         *)
(* Abstraction.  A request is a token in the inbox of its connection; what *)
(* dispatch does with it is Coordinator.  What counts here is that         *)
(* dispatch, expire_leases and the end of a registered session use store_. *)
(* A critical section under workers_mutex_ is one step.  Every peer reads  *)
(* what it is sent, so a send does not block.                              *)
(***************************************************************************)
EXTENDS Naturals, FiniteSets

CONSTANTS
    Conns,          \* the connections peers may make
    Limits,         \* values of max_connections to consider, 0 for none
    None

ASSUME ShutdownAssumption == Limits \subseteq Nat /\ None \notin Conns

(* The thread that is in serve() and the one that ends it. *)
Callers == {"main", "stopper"}

VARIABLES
    wakes,      \* whether closing a socket wakes the thread that is blocked on it
    limit,      \* config_.max_connections
    stopping,   \* stopping_
    listening,  \* whether listener_ is open
    store,      \* whether there is a store_
    workers,    \* workers_: the connections whose thread is to be joined
    active,     \* active_peers_
    served,     \* connections_served_
    at,         \* where each caller is
    accepted,   \* the connection serve() has accepted and not yet started, or None
    pending,    \* the threads each caller has taken to join
    peers,      \* the sockets each caller has still to close
    monitor,    \* "sleep", "expire" or "done": monitor_loop
    thread,     \* where each connection thread is
    registered, \* the sessions that are registered
    open,       \* the connections whose socket is open at this end
    peer,       \* "away", "waiting", "connected" or "gone": the other end
    inbox       \* the connections on which a request has arrived

config == <<wakes, limit>>
server == <<stopping, listening, store>>
lists  == <<workers, active>>
calls  == <<at, accepted, pending, peers>>
conns  == <<thread, registered, open>>
remote == <<peer, inbox>>
vars == <<config, server, lists, served, calls, monitor, conns, remote>>

StopPCs == {"flag", "listener", "monitor", "take", "close", "join", "reset"}
MainPCs == {"serve", "accept", "accepting", "accepted", "wait", "report", "exited", "crashed"}
ThreadPCs == {"none", "check", "recv", "blocked", "dispatch", "cleanup", "closing", "done"}

TypeOK ==
    /\ wakes \in BOOLEAN /\ limit \in Limits
    /\ stopping \in BOOLEAN /\ listening \in BOOLEAN /\ store \in BOOLEAN
    /\ workers \subseteq Conns /\ active \subseteq Conns
    /\ served \in Nat
    /\ at \in [Callers -> StopPCs \cup MainPCs \cup {"hold", "ended"}]
    /\ accepted \in Conns \cup {None}
    /\ pending \in [Callers -> SUBSET Conns] /\ peers \in [Callers -> SUBSET Conns]
    /\ monitor \in {"sleep", "expire", "done"}
    /\ thread \in [Conns -> ThreadPCs]
    /\ registered \subseteq Conns /\ open \subseteq Conns
    /\ peer \in [Conns -> {"away", "waiting", "connected", "gone"}]
    /\ inbox \subseteq Conns

(* start() has returned: the monitor runs and the listener is open.  On    *)
(* Windows closing a socket ends a call that is blocked on it, on POSIX it *)
(* does not.  Without --hold-ms there is no stopper.                       *)
Init ==
    /\ wakes \in BOOLEAN /\ limit \in Limits
    /\ stopping = FALSE /\ listening = TRUE /\ store = TRUE
    /\ workers = {} /\ active = {} /\ served = 0
    /\ at \in {[main |-> "serve", stopper |-> s] : s \in {"hold", "ended"}}
    /\ accepted = None
    /\ pending = [k \in Callers |-> {}] /\ peers = [k \in Callers |-> {}]
    /\ monitor = "sleep"
    /\ thread = [c \in Conns |-> "none"]
    /\ registered = {} /\ open = {}
    /\ peer = [c \in Conns |-> "away"] /\ inbox = {}

Goto(k, from, to) ==
    /\ at[k] = from
    /\ at' = [at EXCEPT ![k] = to]

Step(c, from, to) ==
    /\ thread[c] = from
    /\ thread' = [thread EXCEPT ![c] = to]
--------------------------------------------------------------------------------
(* The peers. *)

(* A connection can be made while there is a listener; a thread blocked in *)
(* accept() keeps it alive where closing it does not wake that thread.     *)
Connect(c) ==
    /\ peer[c] = "away"
    /\ listening \/ (~ wakes /\ at["main"] = "accepting")
    /\ peer' = [peer EXCEPT ![c] = "waiting"]
    /\ UNCHANGED <<config, server, lists, served, calls, monitor, conns, inbox>>

Request(c) ==
    /\ peer[c] = "connected" /\ c \notin inbox
    /\ inbox' = inbox \cup {c}
    /\ UNCHANGED <<config, server, lists, served, calls, monitor, conns, peer>>

Leave(c) ==
    /\ peer[c] \in {"waiting", "connected"}
    /\ peer' = [peer EXCEPT ![c] = "gone"]
    /\ UNCHANGED <<config, server, lists, served, calls, monitor, conns, inbox>>
--------------------------------------------------------------------------------
(* serve(). *)

Loop ==
    /\ IF stopping THEN Goto("main", "serve", "wait") ELSE Goto("main", "serve", "accept")
    /\ UNCHANGED <<config, server, lists, served, accepted, pending, peers, monitor, conns, remote>>

(* Socket::accept: without a listener the loop goes on. *)
EnterAccept ==
    /\ IF listening THEN Goto("main", "accept", "accepting") ELSE Goto("main", "accept", "serve")
    /\ UNCHANGED <<config, server, lists, served, accepted, pending, peers, monitor, conns, remote>>

Accept(c) ==
    /\ Goto("main", "accepting", "accepted")
    /\ peer[c] = "waiting" /\ (listening \/ ~ wakes)
    /\ peer' = [peer EXCEPT ![c] = "connected"]
    /\ accepted' = c
    /\ open' = open \cup {c}
    /\ served' = served + 1
    /\ UNCHANGED <<config, server, lists, pending, peers, monitor, thread, registered, inbox>>

(* Mutant: the socket accept() returns is used without a look at it. *)
AcceptFails_Unchecked ==
    /\ wakes /\ ~ listening
    /\ Goto("main", "accepting", "accepted")
    /\ accepted' = "closed socket"
    /\ UNCHANGED <<config, server, lists, served, pending, peers, monitor, conns, remote>>

(* The listener was closed under a blocked accept(). *)
AcceptFails ==
    /\ wakes /\ ~ listening
    /\ Goto("main", "accepting", "serve")
    /\ UNCHANGED <<config, server, lists, served, accepted, pending, peers, monitor, conns, remote>>

(* The connection thread is started under workers_mutex_. *)
StartThread ==
    /\ IF limit # 0 /\ served >= limit
       THEN Goto("main", "accepted", "wait") ELSE Goto("main", "accepted", "serve")
    /\ active' = active \cup {accepted}
    /\ workers' = workers \cup {accepted}
    /\ thread' = [thread EXCEPT ![accepted] = "check"]
    /\ accepted' = None
    /\ UNCHANGED <<config, server, served, pending, peers, monitor, registered, open, remote>>
--------------------------------------------------------------------------------
(* handle_connection. *)

(* Mutant: the loop does not look at stopping_. *)
Check_Always(c) ==
    /\ Step(c, "check", "recv")
    /\ UNCHANGED <<config, server, lists, served, calls, monitor, registered, open, remote>>

Check(c) ==
    /\ IF stopping THEN Step(c, "check", "cleanup") ELSE Step(c, "check", "recv")
    /\ UNCHANGED <<config, server, lists, served, calls, monitor, registered, open, remote>>

(* recv_some: a closed socket fails at once. *)
EnterRecv(c) ==
    /\ IF c \in open THEN Step(c, "recv", "blocked") ELSE Step(c, "recv", "cleanup")
    /\ UNCHANGED <<config, server, lists, served, calls, monitor, registered, open, remote>>

(* A request arrived; also on a socket that was closed meanwhile, where    *)
(* that does not end the call.                                             *)
Receive(c) ==
    /\ Step(c, "blocked", "dispatch")
    /\ c \in inbox /\ (c \in open \/ ~ wakes)
    /\ inbox' = inbox \ {c}
    /\ UNCHANGED <<config, server, lists, served, calls, monitor, registered, open, peer>>

(* The peer is gone, or the socket was closed under the blocked call. *)
ReceiveFails(c) ==
    /\ Step(c, "blocked", "cleanup")
    /\ \/ peer[c] = "gone" /\ c \notin inbox
       \/ wakes /\ c \notin open
    /\ UNCHANGED <<config, server, lists, served, calls, monitor, registered, open, remote>>

(* The frames one receive has completed are dispatched in turn, without a  *)
(* look at the flag: dispatch uses the store, and may register the         *)
(* session.  The connection ends with a goodbye or when an answer cannot   *)
(* be sent.                                                                *)
Dispatch(c) ==
    /\ \/ c \in open /\ Step(c, "dispatch", "check")
       \/ Step(c, "dispatch", "cleanup")
    /\ \E r \in {registered, registered \cup {c}} : registered' = r
    /\ UNCHANGED <<config, server, lists, served, calls, monitor, open, remote>>

(* A registered session ends: its publisher is marked dead in the store    *)
(* and the lists are refreshed.                                            *)
Cleanup(c) ==
    /\ Step(c, "cleanup", "closing")
    /\ UNCHANGED <<config, server, lists, served, calls, monitor, registered, open, remote>>

(* Mutant: stop() holds workers_mutex_ until it has joined the threads. *)
Finish_Locked(c) ==
    /\ \A k \in Callers : at[k] \notin {"close", "join"}
    /\ Step(c, "closing", "done")
    /\ open' = open \ {c}
    /\ active' = active \ {c}
    /\ UNCHANGED <<config, server, workers, served, calls, monitor, registered, remote>>

Finish(c) ==
    /\ Step(c, "closing", "done")
    /\ open' = open \ {c}
    /\ active' = active \ {c}
    /\ UNCHANGED <<config, server, workers, served, calls, monitor, registered, remote>>
--------------------------------------------------------------------------------
(* monitor_loop. *)

MonitorWakes ==
    /\ monitor = "sleep"
    /\ monitor' = IF stopping THEN "done" ELSE "expire"
    /\ UNCHANGED <<config, server, lists, served, calls, conns, remote>>

(* expire_leases uses the store. *)
MonitorExpires ==
    /\ monitor = "expire"
    /\ monitor' = IF stopping THEN "done" ELSE "sleep"
    /\ UNCHANGED <<config, server, lists, served, calls, conns, remote>>
--------------------------------------------------------------------------------
(* stop(), called by the stopper when its time is up and by main after     *)
(* serve() has returned and the stopper has ended.                         *)

HoldEnds ==
    /\ Goto("stopper", "hold", "flag")
    /\ UNCHANGED <<config, server, lists, served, accepted, pending, peers, monitor, conns, remote>>

(* Mutant: stop() is not called again when the stopper has called it. *)
JoinStopper_Once ==
    /\ at["stopper"] = "ended"
    /\ IF stopping THEN Goto("main", "wait", "report") ELSE Goto("main", "wait", "flag")
    /\ UNCHANGED <<config, server, lists, served, accepted, pending, peers, monitor, conns, remote>>

JoinStopper ==
    /\ at["stopper"] = "ended"
    /\ Goto("main", "wait", "flag")
    /\ UNCHANGED <<config, server, lists, served, accepted, pending, peers, monitor, conns, remote>>

SetFlag(k) ==
    /\ Goto(k, "flag", "listener")
    /\ stopping' = TRUE
    /\ UNCHANGED <<config, listening, store, lists, served, accepted, pending, peers, monitor,
                   conns, remote>>

CloseListener(k) ==
    /\ Goto(k, "listener", "monitor")
    /\ listening' = FALSE
    /\ UNCHANGED <<config, stopping, store, lists, served, accepted, pending, peers, monitor,
                   conns, remote>>

JoinMonitor(k) ==
    /\ monitor = "done"
    /\ Goto(k, "monitor", "take")
    /\ UNCHANGED <<config, server, lists, served, accepted, pending, peers, monitor, conns, remote>>

(* Mutant: the sockets of the connections are not taken. *)
TakeWorkers_NoPeers(k) ==
    /\ Goto(k, "take", "close")
    /\ pending' = [pending EXCEPT ![k] = workers]
    /\ workers' = {}
    /\ UNCHANGED <<config, server, active, served, accepted, peers, monitor, conns, remote>>

TakeWorkers(k) ==
    /\ Goto(k, "take", "close")
    /\ pending' = [pending EXCEPT ![k] = workers]
    /\ peers' = [peers EXCEPT ![k] = active]
    /\ workers' = {}
    /\ UNCHANGED <<config, server, active, served, accepted, monitor, conns, remote>>

ClosePeer(k, c) ==
    /\ at[k] = "close" /\ c \in peers[k]
    /\ peers' = [peers EXCEPT ![k] = @ \ {c}]
    /\ open' = open \ {c}
    /\ UNCHANGED <<config, server, lists, served, at, accepted, pending, monitor, thread,
                   registered, remote>>

PeersClosed(k) ==
    /\ peers[k] = {}
    /\ Goto(k, "close", "join")
    /\ UNCHANGED <<config, server, lists, served, accepted, pending, peers, monitor, conns, remote>>

JoinWorkers(k) ==
    /\ \A c \in pending[k] : thread[c] = "done"
    /\ Goto(k, "join", "reset")
    /\ pending' = [pending EXCEPT ![k] = {}]
    /\ UNCHANGED <<config, server, lists, served, accepted, peers, monitor, conns, remote>>

ResetStore(k) ==
    /\ Goto(k, "reset", IF k = "main" THEN "report" ELSE "ended")
    /\ store' = FALSE
    /\ UNCHANGED <<config, stopping, listening, lists, served, accepted, pending, peers, monitor,
                   conns, remote>>

(* main prints the epoch of the server it has stopped, which epoch() reads *)
(* through store_: undefined without one.                                  *)
Report ==
    /\ \/ Goto("main", "report", "exited")
       \/ ~ store /\ Goto("main", "report", "crashed")
    /\ UNCHANGED <<config, server, lists, served, accepted, pending, peers, monitor, conns, remote>>
--------------------------------------------------------------------------------
Serve == Loop \/ EnterAccept \/ AcceptFails \/ StartThread \/ \E c \in Conns : Accept(c)

Stop(k) ==
    \/ SetFlag(k) \/ CloseListener(k) \/ JoinMonitor(k) \/ TakeWorkers(k)
    \/ PeersClosed(k) \/ JoinWorkers(k) \/ ResetStore(k)
    \/ \E c \in Conns : ClosePeer(k, c)

Main == Serve \/ JoinStopper \/ Stop("main") \/ Report
Stopper == HoldEnds \/ Stop("stopper")
Monitor == MonitorWakes \/ MonitorExpires

Connection(c) ==
    \/ Check(c) \/ EnterRecv(c) \/ Receive(c) \/ ReceiveFails(c)
    \/ Dispatch(c) \/ Cleanup(c) \/ Finish(c)

Peer(c) == Connect(c) \/ Request(c) \/ Leave(c)

Next == Main \/ Stopper \/ Monitor \/ \E c \in Conns : Connection(c) \/ Peer(c)

Spec == Init /\ [][Next]_vars

(* The threads of the process run whenever they can.  No peer owes         *)
(* anything: it may stay connected and silent for ever.                    *)
FairSpec ==
    /\ Spec
    /\ WF_vars(Main) /\ WF_vars(Stopper) /\ WF_vars(Monitor)
    /\ \A c \in Conns : WF_vars(Connection(c))
--------------------------------------------------------------------------------
(* Properties. *)

(* The service threads that use store_ in their next step. *)
UsesStore(c) == thread[c] = "dispatch" \/ (thread[c] = "cleanup" /\ c \in registered)

(* stop() resets store_ only when no connection thread and no monitor is   *)
(* in it or on the way to it, although serve() may start a thread after    *)
(* the threads to join have been taken and even after the reset.           *)
StoreOutlivesItsThreads ==
    ~ store => monitor = "done" /\ \A c \in Conns : ~ UsesStore(c)

(* When main has stopped the server, every thread that was ever started    *)
(* has ended and was joined: the server can be destroyed.  A thread that   *)
(* the first stop() missed is joined by the second.                        *)
NoThreadIsLeft ==
    at["main"] \in {"report", "exited", "crashed"} =>
        /\ workers = {} /\ accepted = None
        /\ \A c \in Conns : thread[c] \in {"none", "done"}

(* Where closing a socket wakes the thread that is blocked on it, stop()   *)
(* returns and so does serve(), whatever the peers do: no thread waits for *)
(* another one that waits for it, or for a peer.                           *)
StopReturns ==
    wakes /\ stopping ~> at["stopper"] = "ended" /\ at["main"] \in {"exited", "crashed"}

(* Where it does not, stop() waits for the peers: the stopper returns from *)
(* it once every peer is gone.  serve() returns when one more peer         *)
(* connects, which nothing guarantees.                                     *)
StopWaitsForPeers ==
    <>[](\A c \in Conns : peer[c] \in {"away", "gone"}) =>
        (at["stopper"] = "flag" ~> at["stopper"] = "ended")
================================================================================
