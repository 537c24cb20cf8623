------------------------------ MODULE FrameStream ------------------------------
(***************************************************************************)
(* One worker and its connections to the coordinator: the frames of        *)
(* src/wire.cpp over the byte streams of src/transport.cpp, the exchange   *)
(* of src/worker.cpp at one end and the loops of handle_connection in      *)
(* src/coordinator.cpp at the other.  Coordinator takes a request for      *)
(* something that arrives whole, once, and is answered; this module is     *)
(* about that.                                                             *)
(*                                                                         *)
(* A worker has one connection at a time, but serve() gives each one that  *)
(* it accepts a thread of its own: a connection that the worker has left   *)
(* is served on, beside the new one, until its thread finds the end of it. *)
(*                                                                         *)
(* Abstraction.  A byte knows the frame it belongs to and its place in it, *)
(* a header is two bytes and a trailer one.  Bytes that do not start at a  *)
(* header announce any length, and fail the magic or the checksum.  The    *)
(* payload is its length; what dispatch does with it is SegmentStore and   *)
(* Coordinator.                                                            *)
(***************************************************************************)
EXTENDS Naturals, Sequences, SequencesExt, FiniteSetsExt

CONSTANTS
    Connections,        \* the connections there may be at a time
    RequestSizes,       \* payload sizes of the requests
    ResponseSizes,      \* payload sizes of the responses
    WorkerMax,          \* max_frame_bytes of the worker
    ServerMax,          \* max_frame_bytes of the coordinator
    Chunk,              \* size of the receive buffers
    Window,             \* bytes a stream holds before send blocks
    MaxRequests,        \* bound on the number of requests
    None

ASSUME FrameStreamAssumption ==
    /\ RequestSizes \cup ResponseSizes \cup {WorkerMax, ServerMax, MaxRequests} \subseteq Nat
    /\ {Chunk, Window} \subseteq Nat \ {0}
    /\ None \notin Nat

VARIABLES
    worker,     \* "closed", "ready", "sending" or "receiving"
    conn,       \* the connection of the worker, or the last one it had
    request,    \* next_request_: the requests made so far
    sending,    \* what is left to send of the request
    assembled,  \* the FrameAssembler of the exchange
    answer      \* what the last exchange returned: the request whose response it took, or None

(* The threads of handle_connection, one for each connection. *)
VARIABLES
    server,     \* "recv", "next", "send" or "closed"
    buffer,     \* its FrameAssembler
    response,   \* what is left to send of the response
    last        \* whether the request was a goodbye

(* The bytes in flight on each connection. *)
VARIABLES toServer, toWorker

(* Auxiliary variable: the requests that were dispatched, in order, and    *)
(* the connections they came on.                                           *)
VARIABLE dispatched

workerVars == <<worker, conn, request, sending, assembled, answer>>
serverVars == <<server, buffer, response, last, dispatched>>
vars == <<workerVars, serverVars, toServer, toWorker>>
--------------------------------------------------------------------------------
(* Frames. *)

HeaderLen  == 2
TrailerLen == 1
FrameLen(n) == HeaderLen + n + TrailerLen

Byte == [id : Nat, bye : BOOLEAN, len : Nat, at : Nat]

Frame(id, bye, n) ==
    [i \in 1 .. FrameLen(n) |-> [id |-> id, bye |-> bye, len |-> n, at |-> i]]

(* Mutant: a frame of any size is encoded. *)
EncodeFrame_NoLimit(id, bye, n, max) == Frame(id, bye, n)

(* encode_frame: nothing, if the payload is too large. *)
EncodeFrame(id, bye, n, max) == IF n <= max THEN Frame(id, bye, n) ELSE <<>>

(* The payload length that the first bytes of a buffer announce. *)
Announced(b, max) == IF b[1].at = 1 THEN {b[1].len} ELSE 0 .. max + 1

(* Mutant: an oversized frame is not refused before it is complete. *)
Outcomes_NoLimit(b, max) ==
    IF Len(b) < HeaderLen THEN {"wait"}
    ELSE {IF Len(b) < FrameLen(n) THEN "wait"
          ELSE IF b[1].at = 1 /\ n <= max THEN "frame" ELSE "reject" : n \in Announced(b, max)}

(* FrameAssembler::next and decode_frame: wait for more bytes, reject the  *)
(* stream for good, or take a frame.                                       *)
Outcomes(b, max) ==
    IF Len(b) < HeaderLen THEN {"wait"}
    ELSE {IF n > max THEN "reject"
          ELSE IF Len(b) < FrameLen(n) THEN "wait"
          ELSE IF b[1].at = 1 THEN "frame" ELSE "reject" : n \in Announced(b, max)}

Drop(s, n) == SubSeq(s, n + 1, Len(s))
Take(s, n) == SubSeq(s, 1, n)
--------------------------------------------------------------------------------
Init ==
    /\ worker = "closed" /\ conn \in Connections /\ request = 0
    /\ sending = <<>> /\ assembled = <<>> /\ answer = None
    /\ server = [c \in Connections |-> "closed"]
    /\ last = [c \in Connections |-> FALSE]
    /\ buffer = [c \in Connections |-> <<>>] /\ response = [c \in Connections |-> <<>>]
    /\ toServer = [c \in Connections |-> <<>>] /\ toWorker = [c \in Connections |-> <<>>]
    /\ dispatched = <<>>

(* The worker's end of the connection is closed. *)
Gone(c) == c # conn \/ worker = "closed"

(* send_all: the stream of a connection accepts some bytes; once the peer  *)
(* is gone they vanish, or the call fails (see its users).                 *)
Accepts(stream, c, bytes, gone) ==
    IF gone THEN UNCHANGED stream
    ELSE /\ Len(stream[c]) + Len(bytes) <= Window
         /\ stream' = [stream EXCEPT ![c] = @ \o bytes]

(* recv_some: as many bytes as may arrive at once. *)
Arriving(s) == 1 .. Min({Chunk, Len(s)})
--------------------------------------------------------------------------------
(* WorkerClient. *)

(* open, and accept: a new connection gets a thread and an assembler of    *)
(* its own, whether or not the thread of the one before has ended.         *)
Open(c) ==
    /\ worker = "closed" /\ server[c] = "closed"
    /\ worker' = "ready" /\ conn' = c
    /\ server' = [server EXCEPT ![c] = "recv"]
    /\ buffer' = [buffer EXCEPT ![c] = <<>>]
    /\ response' = [response EXCEPT ![c] = <<>>]
    /\ last' = [last EXCEPT ![c] = FALSE]
    /\ toServer' = [toServer EXCEPT ![c] = <<>>]
    /\ toWorker' = [toWorker EXCEPT ![c] = <<>>]
    /\ UNCHANGED <<request, sending, assembled, answer, dispatched>>

(* The exchange returns: with a response, or with an error. *)
Return(state, a) ==
    /\ worker' = state
    /\ answer' = a
    /\ sending' = <<>> /\ assembled' = <<>>

(* exchange: a request is numbered and encoded. *)
Exchange(n, bye) ==
    /\ worker = "ready"
    /\ request < MaxRequests
    /\ request' = request + 1
    /\ LET frame == EncodeFrame(request', bye, n, WorkerMax)
       IN  IF frame = <<>>
           THEN Return("ready", None)
           ELSE /\ sending' = frame
                /\ worker' = "sending"
                /\ answer' = None
                /\ UNCHANGED assembled
    /\ UNCHANGED <<conn, serverVars, toServer, toWorker>>

(* A send that fails leaves the socket open. *)
WorkerSend ==
    /\ worker = "sending"
    /\ \/ /\ \E n \in 1 .. Len(sending) :
                /\ sending' = Drop(sending, n)
                /\ Accepts(toServer, conn, Take(sending, n), server[conn] = "closed")
          /\ worker' = IF sending' = <<>> THEN "receiving" ELSE worker
          /\ UNCHANGED <<assembled, answer>>
       \/ /\ server[conn] = "closed"
          /\ Return("ready", None)
          /\ UNCHANGED toServer
    /\ UNCHANGED <<conn, request, serverVars, toWorker>>

(* The response is the first frame; its request_id is not looked at.       *)
(* Bytes after it and of a rejected stream are dropped with the assembler. *)
WorkerReceive ==
    /\ worker = "receiving"
    /\ LET got(n) == assembled \o Take(toWorker[conn], n)
       IN  \E n \in Arriving(toWorker[conn]), o \in {"wait", "reject", "frame"} :
              /\ o \in Outcomes(got(n), WorkerMax)
              /\ toWorker' = [toWorker EXCEPT ![conn] = Drop(@, n)]
              /\ CASE o = "wait"   -> assembled' = got(n) /\ UNCHANGED <<worker, answer, sending>>
                   [] o = "reject" -> Return("ready", None)
                   [] o = "frame"  -> Return("ready", got(n)[1].id)
    /\ UNCHANGED <<conn, request, serverVars, toServer>>

(* The socket is closed; what was not read of it is lost. *)
Leave ==
    /\ Return("closed", None)
    /\ toWorker' = [toWorker EXCEPT ![conn] = <<>>]
    /\ UNCHANGED <<conn, request, serverVars, toServer>>

(* The connection ended, or was reset before the rest of it was read. *)
WorkerLost == worker = "receiving" /\ server[conn] = "closed" /\ Leave

(* close(), or the end of the worker process. *)
WorkerClose == worker # "closed" /\ Leave
--------------------------------------------------------------------------------
(* CoordinatorServer::handle_connection. *)

(* The loop ends, the writer is fenced and the socket is closed; what was  *)
(* not read of it is lost.                                                 *)
Hangup(c) ==
    /\ server' = [server EXCEPT ![c] = "closed"]
    /\ buffer' = [buffer EXCEPT ![c] = <<>>]
    /\ response' = [response EXCEPT ![c] = <<>>]
    /\ last' = [last EXCEPT ![c] = FALSE]
    /\ toServer' = [toServer EXCEPT ![c] = <<>>]

(* The worker's end being closed may show before all that it sent is read. *)
ServerReceive(c) ==
    /\ server[c] = "recv"
    /\ \/ /\ \E n \in Arriving(toServer[c]) :
                /\ toServer' = [toServer EXCEPT ![c] = Drop(@, n)]
                /\ buffer' = [buffer EXCEPT ![c] = @ \o Take(toServer[c], n)]
          /\ server' = [server EXCEPT ![c] = "next"]
          /\ UNCHANGED <<response, last>>
       \/ Gone(c) /\ Hangup(c)
    /\ UNCHANGED <<workerVars, toWorker, dispatched>>

(* Mutant: a rejected stream is not given up. *)
ServerReject_Waits(c) ==
    /\ server[c] = "next" /\ "reject" \in Outcomes(buffer[c], ServerMax)
    /\ server' = [server EXCEPT ![c] = "recv"]
    /\ buffer' = [buffer EXCEPT ![c] = <<>>]
    /\ UNCHANGED <<response, last, workerVars, toServer, toWorker, dispatched>>

(* No frame will ever come out of a rejected stream: the connection ends   *)
(* without an answer.                                                      *)
ServerReject(c) ==
    /\ server[c] = "next" /\ "reject" \in Outcomes(buffer[c], ServerMax)
    /\ Hangup(c)
    /\ UNCHANGED <<workerVars, toWorker, dispatched>>

(* The frame is incomplete, and the thread receives again. *)
ServerWait(c) ==
    /\ server[c] = "next" /\ "wait" \in Outcomes(buffer[c], ServerMax)
    /\ server' = [server EXCEPT ![c] = "recv"]
    /\ UNCHANGED <<buffer, response, last, workerVars, toServer, toWorker, dispatched>>

(* Mutant: the frame stays in the buffer. *)
ServerDispatch_Keeps(c, n) ==
    /\ server[c] = "next" /\ "frame" \in Outcomes(buffer[c], ServerMax)
    /\ LET f == buffer[c][1]
           frame == EncodeFrame(f.id, FALSE, n, ServerMax)
       IN  /\ dispatched' = Append(dispatched, [on |-> c, id |-> f.id])
           /\ server' = [server EXCEPT ![c] = "send"]
           /\ response' = [response EXCEPT ![c] = frame]
           /\ last' = [last EXCEPT ![c] = f.bye]
    /\ UNCHANGED <<buffer, workerVars, toServer, toWorker>>

(* A complete frame is taken out of the buffer, dispatched, and answered;  *)
(* an answer that cannot be encoded ends the connection.                   *)
ServerDispatch(c, n) ==
    /\ server[c] = "next" /\ "frame" \in Outcomes(buffer[c], ServerMax)
    /\ LET f == buffer[c][1]
           frame == EncodeFrame(f.id, FALSE, n, ServerMax)
       IN  /\ dispatched' = Append(dispatched, [on |-> c, id |-> f.id])
           /\ IF frame = <<>>
              THEN Hangup(c)
              ELSE /\ server' = [server EXCEPT ![c] = "send"]
                   /\ response' = [response EXCEPT ![c] = frame]
                   /\ last' = [last EXCEPT ![c] = f.bye]
                   /\ buffer' = [buffer EXCEPT ![c] = Drop(@, FrameLen(f.len))]
                   /\ UNCHANGED toServer
    /\ UNCHANGED <<workerVars, toWorker>>

(* The next frame may be in the buffer already; nothing follows a goodbye. *)
ServerSend(c) ==
    /\ server[c] = "send"
    /\ IF response[c] = <<>>
       THEN /\ IF last[c] THEN Hangup(c)
               ELSE /\ server' = [server EXCEPT ![c] = "next"]
                    /\ UNCHANGED <<buffer, response, last, toServer>>
            /\ UNCHANGED toWorker
       ELSE \/ /\ \E n \in 1 .. Len(response[c]) :
                     /\ response' = [response EXCEPT ![c] = Drop(@, n)]
                     /\ Accepts(toWorker, c, Take(response[c], n), Gone(c))
               /\ UNCHANGED <<server, buffer, last, toServer>>
            \/ Gone(c) /\ Hangup(c) /\ UNCHANGED toWorker
    /\ UNCHANGED <<workerVars, dispatched>>

(* The coordinator stops or dies, or the connection breaks. *)
ServerStop(c) ==
    /\ server[c] # "closed"
    /\ Hangup(c)
    /\ UNCHANGED <<workerVars, toWorker, dispatched>>
--------------------------------------------------------------------------------
Client == WorkerSend \/ WorkerReceive \/ WorkerLost

Server(c) ==
    \/ ServerReceive(c) \/ ServerWait(c) \/ ServerReject(c) \/ ServerSend(c)
    \/ \E n \in ResponseSizes : ServerDispatch(c, n)

Next ==
    \/ \E c \in Connections : Open(c)
    \/ \E n \in RequestSizes, bye \in BOOLEAN : Exchange(n, bye)
    \/ Client \/ WorkerClose
    \/ \E c \in Connections : Server(c) \/ ServerStop(c)

Spec == Init /\ [][Next]_vars

(* All threads run whenever they can, and the network delivers.  Nobody    *)
(* owes a request, an end of the connection, or a stop.                    *)
FairSpec == Spec /\ WF_vars(Client) /\ \A c \in Connections : WF_vars(Server(c))
--------------------------------------------------------------------------------
(* Properties. *)

(* An exchange never takes the answer to another request for its own,      *)
(* although it does not compare request ids: nothing of an earlier         *)
(* response is ever left in the stream.  This takes a worker that accepts  *)
(* every frame the coordinator may send, ServerMax <= WorkerMax: exchange  *)
(* returns from a response it refuses at its header without closing the    *)
(* connection (worker.cpp:84).                                             *)
AnswersMatch == answer \in {None, request}

(* However the bytes of a frame are cut up, and whatever threads still     *)
(* serve connections that the worker has left, no request is dispatched    *)
(* twice, those of one connection are dispatched in the order they were    *)
(* made, and an exchange that returns a response was dispatched on the     *)
(* connection it was made on.  Nothing orders the requests of two          *)
(* connections: one that the worker gave up may be dispatched after its    *)
(* later ones, by a thread that serve() started before (coordinator.cpp:   *)
(* 118-133).                                                               *)
DispatchedOnce ==
    /\ \A i, j \in 1 .. Len(dispatched) : i < j =>
           /\ dispatched[i].id # dispatched[j].id
           /\ dispatched[i].on = dispatched[j].on => dispatched[i].id < dispatched[j].id
    /\ answer # None => \E i \in 1 .. Len(dispatched) :
                            dispatched[i] = [on |-> conn, id |-> answer]

(* "Started partial frames have bounded assembly behaviour": no peer makes *)
(* a thread of the coordinator hold more than an incomplete frame and one  *)
(* receive.                                                                *)
AssemblyIsBounded == \A c \in Connections : Len(buffer[c]) < FrameLen(ServerMax) + Chunk

(* An exchange returns: neither end waits for bytes that will never come,  *)
(* and both are never blocked sending to each other.                       *)
ExchangeReturns == worker \in {"sending", "receiving"} ~> worker \in {"ready", "closed"}
================================================================================
