----------------------------- MODULE ShutdownProofs -----------------------------
(***************************************************************************)
(* The end of the coordinator process: for any number of connections and   *)
(* any limit on them, stop() resets store_ only when nobody uses it, and   *)
(* no thread is left when it has been called for the second time.          *)
(***************************************************************************)
EXTENDS Shutdown, TLAPS

(* The threads that may still use store_: those that were started before   *)
(* stopping_ was set, or have a session.  A thread started later finds the *)
(* flag set before it receives anything.                                   *)
Busy(c) ==
    \/ thread[c] \in {"recv", "blocked", "dispatch"}
    \/ c \in registered /\ thread[c] \in {"check", "cleanup"}

Running(c) == thread[c] \notin {"none", "done"}

Serving == {"serve", "accept", "accepting", "accepted", "wait"}

(* main stops the server only when the stopper has. *)
CallersInv ==
    /\ at["main"] \in StopPCs \cup MainPCs
    /\ at["stopper"] \in StopPCs \cup {"hold", "ended"}
    /\ at["stopper"] # "ended" => at["main"] \in Serving

(* What a caller of stop() has done so far. *)
StopInv ==
    \A k \in Callers :
        /\ at[k] \in StopPCs \ {"flag"} => stopping
        /\ at[k] \in {"take", "close", "join", "reset"} => monitor = "done"
        /\ pending[k] # {} => at[k] \in {"close", "join"}
        /\ at[k] \in {"close", "join", "reset"} =>
               \A c \in Conns : Busy(c) => \E j \in Callers : c \in pending[j]

(* A connection has its thread once, and no session before. *)
AcceptInv ==
    /\ at["main"] = "accepted" <=> accepted # None
    /\ accepted # None => thread[accepted] = "none" /\ accepted \notin registered
    /\ \A c \in Conns : peer[c] \in {"away", "waiting"} =>
           thread[c] = "none" /\ c \notin registered /\ accepted # c

(* Every running thread will be joined. *)
JoinInv ==
    /\ \A c \in Conns : Running(c) => c \in workers \/ \E j \in Callers : c \in pending[j]
    /\ at["main"] \in {"close", "join", "reset", "report", "exited", "crashed"} => workers = {}

StoreInv == ~ store => stopping /\ monitor = "done" /\ \A c \in Conns : ~ Busy(c)

ShutdownInv == TypeOK /\ CallersInv /\ StopInv /\ AcceptInv /\ JoinInv /\ StoreInv
--------------------------------------------------------------------------------
(* The initial states, in which no connection has been made. *)
LEMMA ShutdownInit == Init => ShutdownInv
  <1> SUFFICES ASSUME Init PROVE ShutdownInv
    OBVIOUS
  <1>1. PICK s \in {"hold", "ended"} : at = [main |-> "serve", stopper |-> s]
    BY DEF Init
  <1>2. at \in [Callers -> StopPCs \cup MainPCs \cup {"hold", "ended"}]
    BY <1>1 DEF Callers, MainPCs
  <1>3. at["main"] = "serve" /\ at["stopper"] \in {"hold", "ended"}
    BY <1>1
  <1>4. TypeOK
    BY <1>2 DEF Init, TypeOK, ThreadPCs
  <1> QED
    BY <1>3, <1>4, ShutdownAssumption
    DEF Init, ShutdownInv, CallersInv, StopInv, AcceptInv, JoinInv, StoreInv, Busy, Running,
        Serving, Callers, StopPCs, MainPCs

(* What the peers do touches no thread of the process. *)
LEMMA PeerStep ==
    ASSUME ShutdownInv, NEW c \in Conns, Peer(c)
    PROVE  ShutdownInv'
  <1>1. UNCHANGED <<config, server, lists, served, calls, monitor, conns>>
    BY DEF Peer, Connect, Request, Leave
  <1>2. TypeOK'
    BY <1>1 DEF ShutdownInv, TypeOK, Peer, Connect, Request, Leave, config, server, lists, calls,
               conns
  <1>3. AcceptInv'
    BY <1>1 DEF ShutdownInv, TypeOK, AcceptInv, Peer, Connect, Request, Leave, calls, conns
  <1> QED
    BY <1>1, <1>2, <1>3
    DEF ShutdownInv, CallersInv, StopInv, JoinInv, StoreInv, Busy, Running, config, server, lists,
        calls, conns

(* serve() goes from one connection to the next without touching a thread  *)
(* that runs.                                                              *)
LEMMA ServeMoves ==
    ASSUME ShutdownInv, Loop \/ EnterAccept \/ AcceptFails
    PROVE  ShutdownInv'
  <1>1. /\ UNCHANGED <<config, server, lists, served, accepted, pending, peers, monitor, conns,
                       remote>>
        /\ \E from, to \in Serving \ {"accepted"} : Goto("main", from, to)
    BY DEF Loop, EnterAccept, AcceptFails, Serving
  <1>2. /\ at["main"] \in Serving \ {"accepted"} /\ at'["main"] \in Serving \ {"accepted"}
        /\ at'["stopper"] = at["stopper"] /\ TypeOK'
    BY <1>1 DEF ShutdownInv, TypeOK, Goto, Serving, Callers, MainPCs, config, server, lists, conns,
                remote
  <1> QED
    BY <1>1, <1>2
    DEF ShutdownInv, CallersInv, StopInv, AcceptInv, JoinInv, StoreInv, Busy, Running, config,
        server, lists, conns, remote, Callers, Serving, MainPCs, StopPCs

(* A connection that is accepted was never one before. *)
LEMMA AcceptStep ==
    ASSUME ShutdownInv, NEW c \in Conns, Accept(c)
    PROVE  ShutdownInv'
  <1>1. /\ at["main"] = "accepting" /\ at'["main"] = "accepted"
        /\ at'["stopper"] = at["stopper"] /\ TypeOK'
    BY DEF ShutdownInv, TypeOK, Accept, Goto, Callers, MainPCs, config, server, lists
  <1>2. AcceptInv'
    BY <1>1, ShutdownAssumption DEF ShutdownInv, TypeOK, AcceptInv, Accept
  <1> QED
    BY <1>1, <1>2
    DEF ShutdownInv, CallersInv, StopInv, JoinInv, StoreInv, Busy, Running, Accept, config,
        server, lists, Callers, Serving, MainPCs, StopPCs

(* The thread of an accepted connection enters workers_ as it starts; it   *)
(* has no session, so it is none of those a stop() in progress waits for.  *)
LEMMA StartThreadStep ==
    ASSUME ShutdownInv, StartThread
    PROVE  ShutdownInv'
  <1>1. /\ at["main"] = "accepted" /\ at'["main"] \in {"wait", "serve"}
        /\ at'["stopper"] = at["stopper"]
        /\ at' \in [Callers -> StopPCs \cup MainPCs \cup {"hold", "ended"}]
    BY DEF ShutdownInv, TypeOK, StartThread, Goto, Callers, MainPCs
  <1>2. accepted \in Conns /\ thread[accepted] = "none" /\ accepted \notin registered
    BY <1>1 DEF ShutdownInv, TypeOK, AcceptInv
  <1>3. /\ thread'[accepted] = "check"
        /\ \A c \in Conns \ {accepted} : thread'[c] = thread[c]
        /\ thread' \in [Conns -> ThreadPCs]
    BY <1>2 DEF StartThread, ShutdownInv, TypeOK, ThreadPCs
  <1>4. TypeOK'
    BY <1>1, <1>2, <1>3 DEF ShutdownInv, TypeOK, StartThread, config, server, remote
  <1>5. AcceptInv'
    BY <1>1, <1>2, <1>3, ShutdownAssumption
    DEF ShutdownInv, TypeOK, AcceptInv, StartThread, remote
  <1>6. \A c \in Conns : Busy(c)' => Busy(c)
    BY <1>2, <1>3 DEF StartThread, Busy
  <1>7. JoinInv'
    BY <1>1, <1>2, <1>3 DEF ShutdownInv, JoinInv, StartThread, Running
  <1> QED
    BY <1>1, <1>4, <1>5, <1>6, <1>7
    DEF ShutdownInv, CallersInv, StopInv, StoreInv, StartThread, server, Callers, Serving,
        MainPCs, StopPCs

(* A connection thread comes no nearer to store_ than it was, once         *)
(* stopping_ is set; and while it runs, someone is to join it.             *)
LEMMA ConnectionStep ==
    ASSUME ShutdownInv, NEW c \in Conns, Connection(c)
    PROVE  ShutdownInv'
  <1>1. /\ UNCHANGED <<config, server, workers, served, calls, monitor, peer>>
        /\ active' \subseteq active /\ open' \subseteq open /\ inbox' \subseteq inbox
        /\ registered' \in {registered, registered \cup {c}}
    BY DEF Connection, Check, EnterRecv, Receive, ReceiveFails, Dispatch, Cleanup, Finish, lists,
           conns, remote
  <1>a. \E from, to \in ThreadPCs \ {"none"} : Step(c, from, to) /\ from # "done"
    BY Zenon DEF Connection, Check, EnterRecv, Receive, ReceiveFails, Dispatch, Cleanup, Finish,
                 ThreadPCs
  <1>2. /\ thread[c] \notin {"none", "done"} /\ thread'[c] # "none"
        /\ \A d \in Conns \ {c} : thread'[d] = thread[d]
        /\ thread' \in [Conns -> ThreadPCs]
    BY <1>a DEF ShutdownInv, TypeOK, Step
  <1>3. TypeOK'
    BY <1>1, <1>2 DEF ShutdownInv, TypeOK, config, server, calls
  <1>4. stopping /\ Busy(c)' => Busy(c)
    BY DEF ShutdownInv, TypeOK, Connection, Check, EnterRecv, Receive, ReceiveFails, Dispatch,
           Cleanup, Finish, Step, Busy, server
  <1>5. stopping => \A d \in Conns : Busy(d)' => Busy(d)
    BY <1>1, <1>2, <1>4 DEF Busy
  <1>6. AcceptInv'
    BY <1>1, <1>2, <1>3 DEF ShutdownInv, TypeOK, AcceptInv, calls
  <1>7. JoinInv'
    BY <1>1, <1>2 DEF ShutdownInv, JoinInv, Running, calls
  <1>8. StopInv'
    BY <1>1, <1>5 DEF ShutdownInv, StopInv, StopPCs, calls, server
  <1>9. StoreInv'
    BY <1>1, <1>5 DEF ShutdownInv, StoreInv, server
  <1> QED
    BY <1>1, <1>3, <1>6, <1>7, <1>8, <1>9 DEF ShutdownInv, CallersInv, calls

(* The monitor ends for good. *)
LEMMA MonitorStep ==
    ASSUME ShutdownInv, Monitor
    PROVE  ShutdownInv'
  <1>1. /\ UNCHANGED <<config, server, lists, served, calls, conns, remote>>
        /\ monitor # "done" /\ monitor' \in {"sleep", "expire", "done"}
    BY DEF Monitor, MonitorWakes, MonitorExpires
  <1>2. TypeOK'
    BY <1>1 DEF ShutdownInv, TypeOK, config, server, lists, calls, conns, remote
  <1> QED
    BY <1>1, <1>2
    DEF ShutdownInv, CallersInv, StopInv, AcceptInv, JoinInv, StoreInv, Busy, Running, config,
        server, lists, calls, conns, remote

(* The calls of stop() themselves.  No socket or thread is touched in the  *)
(* steps of this lemma: only the caller moves, and stop() has its effects  *)
(* on the flags.                                                           *)
LEMMA CallerMoves ==
    ASSUME ShutdownInv,
           \/ HoldEnds \/ JoinStopper \/ Report
           \/ \E k \in Callers : SetFlag(k) \/ CloseListener(k) \/ JoinMonitor(k) \/ PeersClosed(k)
    PROVE  ShutdownInv'
  <1>1. /\ UNCHANGED <<config, store, lists, served, accepted, pending, peers, monitor, conns,
                       remote>>
        /\ stopping => stopping'
        /\ stopping' \in BOOLEAN /\ listening' \in BOOLEAN
    BY DEF ShutdownInv, TypeOK, HoldEnds, JoinStopper, Report, SetFlag, CloseListener,
           JoinMonitor, PeersClosed, server
  <1>2. at' \in [Callers -> StopPCs \cup MainPCs \cup {"hold", "ended"}]
    BY DEF ShutdownInv, TypeOK, HoldEnds, JoinStopper, Report, SetFlag, CloseListener,
           JoinMonitor, PeersClosed, Goto, StopPCs, MainPCs, Callers
  <1>3. TypeOK'
    BY <1>1, <1>2 DEF ShutdownInv, TypeOK, config, lists, conns, remote
  <1>4. \A c \in Conns : Busy(c)' = Busy(c) /\ Running(c)' = Running(c)
    BY <1>1 DEF Busy, Running, conns
  <1>5. CASE HoldEnds
    BY <1>1, <1>3, <1>4, <1>5
    DEF ShutdownInv, TypeOK, CallersInv, StopInv, AcceptInv, JoinInv, StoreInv, HoldEnds, Goto,
        StopPCs, MainPCs, Serving, Callers, server, lists, conns, remote
  <1>6. CASE JoinStopper
    BY <1>1, <1>3, <1>4, <1>6
    DEF ShutdownInv, TypeOK, CallersInv, StopInv, AcceptInv, JoinInv, StoreInv, JoinStopper, Goto,
        StopPCs, MainPCs, Serving, Callers, server, lists, conns, remote
  <1>7. CASE Report
    BY <1>1, <1>3, <1>4, <1>7
    DEF ShutdownInv, TypeOK, CallersInv, StopInv, AcceptInv, JoinInv, StoreInv, Report, Goto,
        StopPCs, MainPCs, Serving, Callers, server, lists, conns, remote
  <1>8. ASSUME NEW k \in Callers,
               SetFlag(k) \/ CloseListener(k) \/ JoinMonitor(k) \/ PeersClosed(k)
        PROVE  ShutdownInv'
    <2>1. PICK from, to \in StopPCs : Goto(k, from, to) /\ from \notin {"reset"}
      BY <1>8 DEF SetFlag, CloseListener, JoinMonitor, PeersClosed, StopPCs
    <2>2. at[k] \in StopPCs /\ at'[k] \in StopPCs /\ \A j \in Callers \ {k} : at'[j] = at[j]
      BY <2>1 DEF Goto, ShutdownInv, TypeOK
    <2>3. CallersInv'
      BY <2>2 DEF ShutdownInv, CallersInv, Callers, Serving, StopPCs, MainPCs
    <2>4. /\ at'[k] \in StopPCs \ {"flag"} => stopping'
          /\ at'[k] \in {"take", "close", "join", "reset"} => monitor = "done"
          /\ at'[k] \in {"close", "join", "reset"} => at[k] \in {"close", "join", "reset"}
          /\ pending[k] # {} => at'[k] \in {"close", "join"}
      BY <1>8 DEF SetFlag, CloseListener, JoinMonitor, PeersClosed, Goto, ShutdownInv, TypeOK,
                  StopInv, StopPCs, server
    <2>5. StopInv'
      BY <1>1, <1>4, <2>2, <2>4 DEF ShutdownInv, StopInv, StopPCs
    <2>6. AcceptInv'
      BY <1>1, <2>2 DEF ShutdownInv, AcceptInv, Callers, StopPCs, conns, remote
    <2>7. JoinInv'
      BY <1>1, <1>4, <2>2, <2>4 DEF ShutdownInv, JoinInv, Callers, StopPCs, lists
    <2>8. StoreInv'
      BY <1>1, <1>4 DEF ShutdownInv, StoreInv
    <2> QED
      BY <1>3, <2>3, <2>5, <2>6, <2>7, <2>8 DEF ShutdownInv
  <1> QED
    BY <1>5, <1>6, <1>7, <1>8

(* The threads in workers_ pass to the caller, who becomes the one to join *)
(* them: whoever is busy is now in the hands of some caller.               *)
LEMMA TakeWorkersStep ==
    ASSUME ShutdownInv, NEW k \in Callers, TakeWorkers(k)
    PROVE  ShutdownInv'
  <1>1. /\ at[k] = "take" /\ at'[k] = "close" /\ \A j \in Callers \ {k} : at'[j] = at[j]
        /\ at' \in [Callers -> StopPCs \cup MainPCs \cup {"hold", "ended"}]
    BY DEF TakeWorkers, Goto, ShutdownInv, TypeOK, StopPCs
  <1>2. pending[k] = {}
    BY <1>1 DEF ShutdownInv, StopInv
  <1>3. /\ pending'[k] = workers /\ \A j \in Callers \ {k} : pending'[j] = pending[j]
        /\ pending' \in [Callers -> SUBSET Conns] /\ peers' \in [Callers -> SUBSET Conns]
    BY DEF TakeWorkers, ShutdownInv, TypeOK
  <1>4. TypeOK'
    BY <1>1, <1>3 DEF TakeWorkers, ShutdownInv, TypeOK, config, server, conns, remote
  <1>5. \A c \in Conns : Busy(c)' = Busy(c) /\ Running(c)' = Running(c) /\ (Busy(c) => Running(c))
    BY DEF TakeWorkers, Busy, Running, conns
  <1>6. \A c \in Conns : Running(c) => \E j \in Callers : c \in pending'[j]
    BY <1>2, <1>3 DEF ShutdownInv, JoinInv
  <1>7. CallersInv'
    BY <1>1 DEF ShutdownInv, CallersInv, Callers, Serving, StopPCs, MainPCs
  <1>8. StopInv'
    BY <1>1, <1>3, <1>5, <1>6 DEF TakeWorkers, ShutdownInv, StopInv, StopPCs, server
  <1>9. AcceptInv'
    BY <1>1 DEF TakeWorkers, ShutdownInv, AcceptInv, Callers, conns, remote
  <1>10. JoinInv'
    BY <1>1, <1>5, <1>6 DEF TakeWorkers, ShutdownInv, JoinInv, Callers
  <1>11. StoreInv'
    BY <1>5 DEF TakeWorkers, ShutdownInv, StoreInv, server
  <1> QED
    BY <1>4, <1>7, <1>8, <1>9, <1>10, <1>11 DEF ShutdownInv

(* The sockets of the connections are closed; the threads do not move. *)
LEMMA ClosePeerStep ==
    ASSUME ShutdownInv, NEW k \in Callers, NEW c \in Conns, ClosePeer(k, c)
    PROVE  ShutdownInv'
  <1>1. TypeOK'
    BY DEF ClosePeer, ShutdownInv, TypeOK, config, server, lists, remote
  <1> QED
    BY <1>1
    DEF ClosePeer, ShutdownInv, CallersInv, StopInv, AcceptInv, JoinInv, StoreInv, Busy, Running,
        server, lists, remote

(* The threads a caller has taken have ended: none that is busy, and none  *)
(* that runs, was among them.                                              *)
LEMMA JoinWorkersStep ==
    ASSUME ShutdownInv, NEW k \in Callers, JoinWorkers(k)
    PROVE  ShutdownInv'
  <1>1. /\ at[k] = "join" /\ at'[k] = "reset" /\ \A j \in Callers \ {k} : at'[j] = at[j]
        /\ at' \in [Callers -> StopPCs \cup MainPCs \cup {"hold", "ended"}]
    BY DEF JoinWorkers, Goto, ShutdownInv, TypeOK, StopPCs
  <1>2. /\ pending'[k] = {} /\ \A j \in Callers \ {k} : pending'[j] = pending[j]
        /\ pending' \in [Callers -> SUBSET Conns]
    BY DEF JoinWorkers, ShutdownInv, TypeOK
  <1>3. TypeOK'
    BY <1>1, <1>2 DEF JoinWorkers, ShutdownInv, TypeOK, config, server, lists, conns, remote
  <1>4. \A c \in Conns : /\ Busy(c)' = Busy(c) /\ Running(c)' = Running(c)
                         /\ Busy(c) => Running(c)
    BY DEF JoinWorkers, Busy, Running, conns
  <1>5. \A c \in Conns : Running(c) => c \notin pending[k]
    BY DEF JoinWorkers, Running
  <1>6. CallersInv'
    BY <1>1 DEF ShutdownInv, CallersInv, Callers, Serving, StopPCs, MainPCs
  <1>7. StopInv'
    BY <1>1, <1>2, <1>4, <1>5 DEF JoinWorkers, ShutdownInv, StopInv, StopPCs, server
  <1>8. AcceptInv'
    BY <1>1 DEF JoinWorkers, ShutdownInv, AcceptInv, Callers, conns, remote
  <1>9. JoinInv'
    BY <1>1, <1>2, <1>4, <1>5 DEF JoinWorkers, ShutdownInv, JoinInv, Callers, lists
  <1>10. StoreInv'
    BY <1>4 DEF JoinWorkers, ShutdownInv, StoreInv, server
  <1> QED
    BY <1>3, <1>6, <1>7, <1>8, <1>9, <1>10 DEF ShutdownInv

(* store_ goes when the caller has nothing left to join.  The other caller *)
(* has nothing either: it has not begun, or it has ended.                  *)
LEMMA ResetStoreStep ==
    ASSUME ShutdownInv, NEW k \in Callers, ResetStore(k)
    PROVE  ShutdownInv'
  <1>1. /\ at[k] = "reset" /\ at'[k] = IF k = "main" THEN "report" ELSE "ended"
        /\ \A j \in Callers \ {k} : at'[j] = at[j]
        /\ at' \in [Callers -> StopPCs \cup MainPCs \cup {"hold", "ended"}]
    BY DEF ResetStore, Goto, ShutdownInv, TypeOK, StopPCs, MainPCs
  <1>2. TypeOK'
    BY <1>1 DEF ResetStore, ShutdownInv, TypeOK, config, lists, conns, remote
  <1>3. \A j \in Callers : pending[j] = {}
    <2>1. at["main"] = "reset" => at["stopper"] = "ended"
      BY DEF ShutdownInv, CallersInv, Serving
    <2>2. at["stopper"] = "reset" => at["main"] \in Serving
      BY DEF ShutdownInv, CallersInv
    <2> QED
      BY <1>1, <2>1, <2>2 DEF ShutdownInv, StopInv, Callers, Serving
  <1>4. \A c \in Conns : ~ Busy(c)
    BY <1>1, <1>3 DEF ShutdownInv, StopInv
  <1>5. \A c \in Conns : Busy(c)' = Busy(c) /\ Running(c)' = Running(c)
    BY DEF ResetStore, Busy, Running, conns
  <1>6. CallersInv'
    BY <1>1 DEF ShutdownInv, CallersInv, Callers, Serving, StopPCs, MainPCs
  <1>7. StopInv'
    BY <1>1, <1>3, <1>5 DEF ResetStore, ShutdownInv, StopInv, StopPCs
  <1>8. AcceptInv'
    BY <1>1 DEF ResetStore, ShutdownInv, AcceptInv, Callers, conns, remote
  <1>9. JoinInv'
    BY <1>1, <1>5 DEF ResetStore, ShutdownInv, JoinInv, Callers, lists
  <1>10. StoreInv'
    BY <1>1, <1>4, <1>5 DEF ResetStore, ShutdownInv, StopInv, StoreInv, StopPCs
  <1> QED
    BY <1>2, <1>6, <1>7, <1>8, <1>9, <1>10 DEF ShutdownInv
--------------------------------------------------------------------------------
(* Every step of the process and of its peers keeps the invariant. *)
LEMMA ShutdownStep == ShutdownInv /\ [Next]_vars => ShutdownInv'
  <1> SUFFICES ASSUME ShutdownInv, [Next]_vars PROVE ShutdownInv'
    OBVIOUS
  <1> USE DEF Callers
  <1>1. CASE Main
    BY <1>1, ServeMoves, AcceptStep, StartThreadStep, CallerMoves, TakeWorkersStep, ClosePeerStep,
       JoinWorkersStep, ResetStoreStep
    DEF Main, Serve, Stop
  <1>2. CASE Stopper
    BY <1>2, CallerMoves, TakeWorkersStep, ClosePeerStep, JoinWorkersStep, ResetStoreStep
    DEF Stopper, Stop
  <1>3. CASE Monitor
    BY <1>3, MonitorStep
  <1>4. CASE \E c \in Conns : Connection(c) \/ Peer(c)
    BY <1>4, ConnectionStep, PeerStep
  <1>5. CASE UNCHANGED vars
    BY <1>5
    DEF ShutdownInv, TypeOK, CallersInv, StopInv, AcceptInv, JoinInv, StoreInv, Busy, Running,
        vars, config, server, lists, calls, conns, remote
  <1> QED
    BY <1>1, <1>2, <1>3, <1>4, <1>5 DEF Next

(* What holds throughout the life of the process, for any number of        *)
(* connections: the callers of stop() come one after the other, each has   *)
(* done what its place in stop() says, and every thread has an owner.      *)
THEOREM ShutdownInvariance == Spec => []ShutdownInv
  BY ShutdownInit, ShutdownStep, PTL DEF Spec

(* The variables of the process keep their types. *)
THEOREM ShutdownTypes == Spec => []TypeOK
  <1>1. ShutdownInv => TypeOK
    BY DEF ShutdownInv
  <1> QED
    BY <1>1, ShutdownInvariance, PTL

(* stop() resets store_ only when neither the monitor nor a connection     *)
(* thread is in it or on the way to it: a thread that serve() starts after *)
(* stop() took the threads to join never reaches it.                       *)
THEOREM StoreIsResetLast == Spec => []StoreOutlivesItsThreads
  <1>1. ShutdownInv => StoreOutlivesItsThreads
    BY DEF ShutdownInv, StoreInv, StoreOutlivesItsThreads, UsesStore, Busy
  <1> QED
    BY <1>1, ShutdownInvariance, PTL

(* When main has returned from its own call of stop(), every connection    *)
(* thread that was ever started has ended and was joined, the one that the *)
(* stopper's call missed too: the server can be destroyed.                 *)
THEOREM EveryThreadIsJoined == Spec => []NoThreadIsLeft
  <1>1. ASSUME ShutdownInv, at["main"] \in {"report", "exited", "crashed"}
        PROVE  /\ workers = {} /\ accepted = None
               /\ \A c \in Conns : thread[c] \in {"none", "done"}
    <2>1. at["stopper"] = "ended"
      BY <1>1 DEF ShutdownInv, CallersInv, Serving
    <2>2. \A j \in Callers : pending[j] = {}
      BY <1>1, <2>1 DEF ShutdownInv, StopInv, Callers
    <2> QED
      BY <1>1, <2>2 DEF ShutdownInv, AcceptInv, JoinInv, Running
  <1>2. ShutdownInv => NoThreadIsLeft
    BY <1>1 DEF NoThreadIsLeft
  <1> QED
    BY <1>2, ShutdownInvariance, PTL
================================================================================
