--------------------------- MODULE FrameStreamProofs ----------------------------
(***************************************************************************)
(* The exchanges of one worker with the coordinator, for any number of     *)
(* connections that it has left and frames, pieces and windows of any      *)
(* size: what is assembled stays bounded, requests are dispatched at most  *)
(* once and those of a connection in order, and a worker that takes every  *)
(* frame the coordinator may send never takes the answer to another        *)
(* request for its own.                                                    *)
(***************************************************************************)
EXTENDS FrameStream, TLAPS

(* Every frame that the coordinator may send is one that the worker takes. *)
(* Both ends have limits of their own (CoordinatorConfig, WorkerConfig),   *)
(* equal unless a caller sets them.  With a smaller limit at the worker, a *)
(* response that it rejects at its header stays in the stream.             *)
ResponsesFit == ServerMax <= WorkerMax

StreamTypes ==
    /\ worker \in {"closed", "ready", "sending", "receiving"} /\ conn \in Connections
    /\ request \in Nat /\ answer \in Nat \cup {None}
    /\ sending \in Seq(Byte) /\ assembled \in Seq(Byte)
    /\ server \in [Connections -> {"recv", "next", "send", "closed"}]
    /\ last \in [Connections -> BOOLEAN]
    /\ buffer \in [Connections -> Seq(Byte)] /\ response \in [Connections -> Seq(Byte)]
    /\ toServer \in [Connections -> Seq(Byte)] /\ toWorker \in [Connections -> Seq(Byte)]
    /\ dispatched \in Seq([on : Connections, id : Nat])

(* The bytes of f after the first i, up to the first j. *)
Piece(f, i, j) == SubSeq(f, i + 1, j)

(* A stream has a byte of a request. *)
Has(s, id) == \E k \in 1 .. Len(s) : s[k].id = id

(* A thread serves the connection. *)
Live(c) == server[c] # "closed"

(* Of a request, the assembler has the bytes b, the stream the bytes s and *)
(* the worker the rest: i bytes are assembled, j are sent.                 *)
AskedAs(b, s, state, id, rest) ==
    \E bye \in BOOLEAN, n \in Nat : \E j \in 0 .. FrameLen(n) : \E i \in 0 .. j :
        /\ b = Piece(Frame(id, bye, n), 0, i)
        /\ s = Piece(Frame(id, bye, n), i, j)
        /\ rest = Piece(Frame(id, bye, n), j, FrameLen(n))
        /\ state = "send" => i = 0

(* A connection that is served holds at most a part of one request. *)
Held(b, s, state) == \E id \in Nat, rest \in Seq(Byte) : AskedAs(b, s, state, id, rest)

HeldInv == \A c \in Connections : Live(c) => Held(buffer[c], toServer[c], server[c])

Carries(c, id) == Has(buffer[c], id) \/ Has(toServer[c], id)

Undispatched(id) == \A k \in 1 .. Len(dispatched) : dispatched[k].id # id

(* The part of a request that a connection holds is of one that was not    *)
(* dispatched, is later than those the connection brought before, and is   *)
(* on no other connection; a request that is waited for is on the worker's *)
(* own.                                                                    *)
CarriedBy(c, id) ==
    /\ id <= request /\ Undispatched(id)
    /\ \A k \in 1 .. Len(dispatched) : dispatched[k].on = c => dispatched[k].id < id
    /\ \A d \in Connections : Live(d) /\ Carries(d, id) => d = c
    /\ id = request /\ worker \in {"sending", "receiving"} => c = conn

CarryInv ==
    \A c \in Connections, id \in Nat : Live(c) /\ Carries(c, id) => CarriedBy(c, id)

(* The worker has no connection. *)
Idle == worker = "closed" /\ sending = <<>> /\ assembled = <<>>

(* It has one, and nothing is under way. *)
Quiet ==
    /\ worker = "ready"
    /\ sending = <<>> /\ assembled = <<>> /\ response[conn] = <<>> /\ toWorker[conn] = <<>>
    /\ Live(conn) => buffer[conn] = <<>> /\ toServer[conn] = <<>>

(* The last request is on its way. *)
Asked ==
    /\ worker \in {"sending", "receiving"}
    /\ worker = "sending" <=> sending # <<>>
    /\ assembled = <<>> /\ response[conn] = <<>> /\ toWorker[conn] = <<>>
    /\ Undispatched(request)
    /\ Live(conn) => AskedAs(buffer[conn], toServer[conn], server[conn], request, sending)

(* Of a response, the worker has the bytes a, the stream the bytes s and   *)
(* the coordinator the rest r: i bytes are assembled, j are sent.  A       *)
(* coordinator that hung up sends no more.                                 *)
AnsweredAs(a, s, r, id, state) ==
    \E n \in 0 .. ServerMax : \E j \in 0 .. FrameLen(n) : \E i \in 0 .. j :
        /\ i < FrameLen(n)
        /\ a = Piece(Frame(id, FALSE, n), 0, i)
        /\ s = Piece(Frame(id, FALSE, n), i, j)
        /\ r = IF state # "closed" THEN Piece(Frame(id, FALSE, n), j, FrameLen(n)) ELSE <<>>

WasDispatched(c, id) == \E k \in 1 .. Len(dispatched) : dispatched[k] = [on |-> c, id |-> id]

(* It was dispatched, and its response is on its way. *)
Answered ==
    /\ worker = "receiving" /\ sending = <<>>
    /\ Live(conn) => buffer[conn] = <<>> /\ toServer[conn] = <<>>
    /\ WasDispatched(conn, request)
    /\ AnsweredAs(assembled, toWorker[conn], response[conn], request, server[conn])

(* The requests that were dispatched, and what the last exchange returned. *)
DispatchInv ==
    /\ \A i, j \in 1 .. Len(dispatched) : i < j =>
           /\ dispatched[i].id # dispatched[j].id
           /\ dispatched[i].on = dispatched[j].on => dispatched[i].id < dispatched[j].id
    /\ \A i \in 1 .. Len(dispatched) : dispatched[i].id <= request
    /\ answer # None => worker = "ready" /\ answer = request /\ WasDispatched(conn, answer)

Phase == Idle \/ Quiet \/ Asked \/ Answered

ExchangeInv ==
    /\ StreamTypes
    /\ HeldInv
    /\ CarryInv
    /\ DispatchInv
    /\ Phase
--------------------------------------------------------------------------------
(* Pieces of a sequence of bytes. *)

(* What a piece is. *)
LEMMA PieceIs ==
    ASSUME NEW f \in Seq(Byte), NEW j \in 0 .. Len(f), NEW i \in 0 .. j
    PROVE  /\ Piece(f, i, j) \in Seq(Byte)
           /\ Len(Piece(f, i, j)) = j - i
           /\ \A k \in 1 .. j - i : Piece(f, i, j)[k] = f[i + k]
  BY DEF Piece

(* A first piece has the first byte. *)
LEMMA FirstPieceIs ==
    ASSUME NEW f \in Seq(Byte), NEW j \in 0 .. Len(f)
    PROVE  /\ Piece(f, 0, j) \in Seq(Byte) /\ Len(Piece(f, 0, j)) = j
           /\ j >= 1 => Piece(f, 0, j)[1] = f[1]
  BY DEF Piece

(* Two sequences of bytes are the same if their bytes are. *)
LEMMA SameBytes ==
    ASSUME NEW s \in Seq(Byte), NEW t \in Seq(Byte), Len(s) = Len(t),
           \A k \in 1 .. Len(s) : s[k] = t[k]
    PROVE  s = t
  OBVIOUS

(* Taking the first bytes of a piece, and dropping them. *)
LEMMA PieceSplit ==
    ASSUME NEW f \in Seq(Byte), NEW j \in 0 .. Len(f), NEW i \in 0 .. j, NEW n \in 0 .. j - i
    PROVE  /\ Take(Piece(f, i, j), n) = Piece(f, i, i + n)
           /\ Drop(Piece(f, i, j), n) = Piece(f, i + n, j)
  <1>0. i + n \in 0 .. j /\ i + n \in 0 .. Len(f) /\ i \in 0 .. i + n
    OBVIOUS
  <1>1. /\ Piece(f, i, j) \in Seq(Byte) /\ Len(Piece(f, i, j)) = j - i
        /\ \A k \in 1 .. j - i : Piece(f, i, j)[k] = f[i + k]
    BY PieceIs
  <1>2. /\ Piece(f, i, i + n) \in Seq(Byte) /\ Len(Piece(f, i, i + n)) = n
        /\ \A k \in 1 .. n : Piece(f, i, i + n)[k] = f[i + k]
    BY <1>0, PieceIs
  <1>3. /\ Piece(f, i + n, j) \in Seq(Byte) /\ Len(Piece(f, i + n, j)) = j - i - n
        /\ \A k \in 1 .. j - i - n : Piece(f, i + n, j)[k] = f[i + n + k]
    BY <1>0, PieceIs
  <1>4. /\ Take(Piece(f, i, j), n) \in Seq(Byte) /\ Len(Take(Piece(f, i, j), n)) = n
        /\ \A k \in 1 .. n : Take(Piece(f, i, j), n)[k] = Piece(f, i, j)[k]
    BY <1>1 DEF Take
  <1>5. /\ Drop(Piece(f, i, j), n) \in Seq(Byte) /\ Len(Drop(Piece(f, i, j), n)) = j - i - n
        /\ \A k \in 1 .. j - i - n : Drop(Piece(f, i, j), n)[k] = Piece(f, i, j)[n + k]
    BY <1>1 DEF Drop
  <1>6. Take(Piece(f, i, j), n) = Piece(f, i, i + n)
    BY <1>1, <1>2, <1>4, SameBytes
  <1>7. \A k \in 1 .. j - i - n : Drop(Piece(f, i, j), n)[k] = Piece(f, i + n, j)[k]
    BY <1>1, <1>3, <1>5
  <1>8. Drop(Piece(f, i, j), n) = Piece(f, i + n, j)
    BY <1>3, <1>5, <1>7, SameBytes
  <1> QED
    BY <1>6, <1>8

(* What a concatenation is. *)
LEMMA ConcatIs ==
    ASSUME NEW s \in Seq(Byte), NEW t \in Seq(Byte)
    PROVE  /\ s \o t \in Seq(Byte) /\ Len(s \o t) = Len(s) + Len(t)
           /\ \A k \in 1 .. Len(s) : (s \o t)[k] = s[k]
           /\ \A k \in Len(s) + 1 .. Len(s) + Len(t) : (s \o t)[k] = t[k - Len(s)]
  OBVIOUS

(* Two pieces that meet make one. *)
LEMMA PieceJoin ==
    ASSUME NEW f \in Seq(Byte), NEW l \in 0 .. Len(f), NEW j \in 0 .. l, NEW i \in 0 .. j
    PROVE  Piece(f, i, j) \o Piece(f, j, l) = Piece(f, i, l)
  <1>0. /\ Len(f) \in Nat /\ l \in Nat /\ j \in Nat /\ i \in Nat
        /\ j \in 0 .. Len(f) /\ i \in 0 .. l
    OBVIOUS
  <1> DEFINE s == Piece(f, i, j)
             t == Piece(f, j, l)
             u == Piece(f, i, l)
  <1>1. s \in Seq(Byte) /\ Len(s) = j - i /\ \A k \in 1 .. j - i : s[k] = f[i + k]
    BY <1>0, PieceIs
  <1>2. t \in Seq(Byte) /\ Len(t) = l - j /\ \A k \in 1 .. l - j : t[k] = f[j + k]
    BY <1>0, PieceIs
  <1>3. u \in Seq(Byte) /\ Len(u) = l - i /\ \A k \in 1 .. l - i : u[k] = f[i + k]
    BY <1>0, PieceIs
  <1> HIDE DEF s, t, u
  <1>a. /\ s \o t \in Seq(Byte) /\ Len(s \o t) = Len(s) + Len(t)
        /\ \A k \in 1 .. Len(s) : (s \o t)[k] = s[k]
        /\ \A k \in Len(s) + 1 .. Len(s) + Len(t) : (s \o t)[k] = t[k - Len(s)]
    BY <1>1, <1>2, ConcatIs
  <1>b. (j - i) + (l - j) = l - i
    BY <1>0
  <1>4. s \o t \in Seq(Byte) /\ Len(s \o t) = l - i
    BY <1>1, <1>2, <1>a, <1>b
  <1>5. ASSUME NEW k \in 1 .. l - i PROVE (s \o t)[k] = u[k]
    <2>0. k \in Nat /\ k >= 1 /\ j - i \in Nat /\ l - j \in Nat /\ k <= l - i
      BY <1>0
    <2>1. CASE k <= j - i
      <3>1. k \in 1 .. j - i
        BY <2>0, <2>1
      <3> QED
        BY <1>1, <1>3, <1>a, <3>1
    <2>2. CASE k > j - i
      <3>1. k - (j - i) \in 1 .. l - j /\ j + (k - (j - i)) = i + k
        BY <1>0, <2>2
      <3>2. (s \o t)[k] = t[k - (j - i)]
        BY <1>0, <1>1, <1>2, <1>a, <1>b, <2>0, <2>2
      <3> QED
        BY <1>2, <1>3, <3>1, <3>2
    <2>3. k <= j - i \/ k > j - i
      BY <1>0, <2>0
    <2> QED
      BY <2>1, <2>2, <2>3
  <1>6. s \o t = u
    BY <1>3, <1>4, <1>5, SameBytes
  <1> QED
    BY <1>6 DEF s, t, u

(* A piece without a byte. *)
LEMMA PieceEmpty ==
    ASSUME NEW f \in Seq(Byte), NEW j \in 0 .. Len(f), NEW i \in 0 .. j
    PROVE  Piece(f, i, j) = <<>> <=> i = j
  <1>1. Piece(f, i, j) \in Seq(Byte) /\ Len(Piece(f, i, j)) = j - i
    BY PieceIs
  <1>2. Len(f) \in Nat /\ j \in Nat /\ i \in Nat
    OBVIOUS
  <1>3. \A s \in Seq(Byte) : s = <<>> <=> Len(s) = 0
    OBVIOUS
  <1> QED
    BY <1>1, <1>2, <1>3

(* The bytes of a frame. *)
LEMMA FrameIs ==
    ASSUME NEW id \in Nat, NEW bye \in BOOLEAN, NEW n \in Nat
    PROVE  /\ Frame(id, bye, n) \in Seq(Byte)
           /\ FrameLen(n) \in Nat /\ FrameLen(n) = n + 3
           /\ Len(Frame(id, bye, n)) = FrameLen(n)
           /\ Frame(id, bye, n)[1] = [id |-> id, bye |-> bye, len |-> n, at |-> 1]
  <1>1. FrameLen(n) \in Nat /\ FrameLen(n) = n + 3
    BY DEF FrameLen, HeaderLen, TrailerLen
  <1>2. \A i \in 1 .. FrameLen(n) : [id |-> id, bye |-> bye, len |-> n, at |-> i] \in Byte
    BY <1>1 DEF Byte
  <1>3. Frame(id, bye, n) \in Seq(Byte) /\ Len(Frame(id, bye, n)) = FrameLen(n)
    BY <1>1, <1>2 DEF Frame
  <1> QED
    BY <1>1, <1>3 DEF Frame

(* A frame none of which is sent. *)
LEMMA WholeFrame ==
    ASSUME NEW id \in Nat, NEW bye \in BOOLEAN, NEW n \in Nat
    PROVE  /\ Piece(Frame(id, bye, n), 0, 0) = <<>>
           /\ Piece(Frame(id, bye, n), 0, FrameLen(n)) = Frame(id, bye, n)
           /\ 0 < FrameLen(n) /\ 0 \in 0 .. FrameLen(n) /\ 0 \in 0 .. 0
  <1> DEFINE f == Frame(id, bye, n)
  <1>1. f \in Seq(Byte) /\ Len(f) = FrameLen(n) /\ FrameLen(n) \in Nat /\ FrameLen(n) = n + 3
    BY FrameIs
  <1> HIDE DEF f
  <1>2. 0 \in 0 .. Len(f) /\ Len(f) \in 0 .. Len(f)
    BY <1>1
  <1>3. Piece(f, 0, 0) = <<>>
    BY <1>1, <1>2, PieceEmpty
  <1>4. Piece(f, 0, Len(f)) = f
    BY <1>1 DEF Piece
  <1> QED
    BY <1>1, <1>3, <1>4 DEF f

(* What sending and receiving a part of a stream keep. *)
LEMMA PartIs ==
    ASSUME NEW s \in Seq(Byte), NEW n \in 0 .. Len(s)
    PROVE  /\ Take(s, n) \in Seq(Byte) /\ Len(Take(s, n)) = n
           /\ Drop(s, n) \in Seq(Byte) /\ Len(Drop(s, n)) = Len(s) - n
  BY DEF Take, Drop

(* One receive takes no more than its buffer holds and the stream has. *)
LEMMA ReceiveAtMost ==
    ASSUME NEW s \in Seq(Byte), NEW n \in 1 .. Min({Chunk, Len(s)})
    PROVE  n \in 0 .. Len(s) /\ n >= 1 /\ n <= Chunk
  <1>1. Chunk \in Nat /\ Len(s) \in Nat
    BY FrameStreamAssumption
  <1>2. \E x \in {Chunk, Len(s)} : \A y \in {Chunk, Len(s)} : x <= y
    BY <1>1
  <1>3. Min({Chunk, Len(s)}) \in {Chunk, Len(s)} /\ Min({Chunk, Len(s)}) <= Chunk
        /\ Min({Chunk, Len(s)}) <= Len(s)
    BY <1>2 DEF Min
  <1> QED
    BY <1>1, <1>3

(* A frame is only taken out of a buffer that holds one. *)
LEMMA FrameIsThere ==
    ASSUME NEW b \in Seq(Byte), NEW max, "frame" \in Outcomes(b, max)
    PROVE  b # <<>>
  <1>1. ~ (Len(b) < 2)
    BY DEF Outcomes, HeaderLen
  <1> QED
    BY <1>1

(* What the outcome of looking at a buffer says about it. *)
LEMMA OutcomeIs ==
    ASSUME NEW b \in Seq(Byte), NEW max \in Nat
    PROVE  /\ "frame" \in Outcomes(b, max) =>
                  b[1].at = 1 /\ b[1].len <= max /\ Len(b) >= FrameLen(b[1].len)
           /\ "wait" \in Outcomes(b, max) => Len(b) < FrameLen(max)
           /\ b # <<>> /\ b[1].at = 1 /\ "wait" \in Outcomes(b, max) =>
                  Len(b) < FrameLen(b[1].len)
           /\ "reject" \in Outcomes(b, max) =>
                  b # <<>> /\ (b[1].at = 1 => b[1].len > max)
  <1>1. Len(b) \in Nat /\ HeaderLen = 2 /\ \A n \in Nat : FrameLen(n) = n + 3
    BY DEF FrameLen, HeaderLen, TrailerLen
  <1>2. CASE Len(b) < HeaderLen
    <2>1. Outcomes(b, max) = {"wait"}
      BY <1>2 DEF Outcomes
    <2>2. ASSUME b # <<>> PROVE b[1].len \in Nat
      <3>1. b[1] \in Byte
        BY <2>2
      <3> QED
        BY <3>1 DEF Byte
    <2>3. b # <<>> => Len(b) < FrameLen(b[1].len)
      BY <1>1, <1>2, <2>2 DEF FrameLen, HeaderLen, TrailerLen
    <2>4. Len(b) < FrameLen(max)
      BY <1>1, <1>2
    <2> QED
      BY <2>1, <2>3, <2>4
  <1>3. CASE Len(b) >= HeaderLen
    <2>1. b # <<>> /\ b[1] \in Byte
      BY <1>1, <1>3
    <2>2. b[1].len \in Nat
      BY <2>1 DEF Byte
    <2>3. \A o \in Outcomes(b, max) : \E n \in Announced(b, max) :
              o = IF n > max THEN "reject"
                  ELSE IF Len(b) < FrameLen(n) THEN "wait"
                  ELSE IF b[1].at = 1 THEN "frame" ELSE "reject"
      BY <1>1, <1>3 DEF Outcomes
    <2>4. \A n \in Announced(b, max) : n \in Nat /\ (b[1].at = 1 => n = b[1].len)
      BY <2>2 DEF Announced
    <2> HIDE DEF Outcomes
    <2>5. ASSUME "frame" \in Outcomes(b, max)
          PROVE  b[1].at = 1 /\ b[1].len <= max /\ Len(b) >= FrameLen(b[1].len)
      <3>1. PICK n \in Announced(b, max) :
                ~ n > max /\ ~ Len(b) < FrameLen(n) /\ b[1].at = 1
        BY <2>3, <2>5
      <3>2. n = b[1].len
        BY <2>4, <3>1
      <3> QED
        BY <1>1, <2>2, <3>1, <3>2 DEF FrameLen, HeaderLen, TrailerLen
    <2>6. ASSUME "wait" \in Outcomes(b, max)
          PROVE  Len(b) < FrameLen(max) /\ (b[1].at = 1 => Len(b) < FrameLen(b[1].len))
      <3>1. PICK n \in Announced(b, max) : ~ n > max /\ Len(b) < FrameLen(n)
        BY <2>3, <2>6
      <3>2. n \in Nat /\ (b[1].at = 1 => n = b[1].len)
        BY <2>4
      <3> QED
        BY <1>1, <3>1, <3>2 DEF FrameLen, HeaderLen, TrailerLen
    <2>7. ASSUME "reject" \in Outcomes(b, max)
          PROVE  b[1].at = 1 => b[1].len > max
      BY <1>1, <2>2, <2>3, <2>4, <2>7
    <2> QED
      BY <2>1, <2>5, <2>6, <2>7
  <1> QED
    BY <1>1, <1>2, <1>3

(* A frame all of whose bytes are of one request. *)
LEMMA PieceIds ==
    ASSUME NEW id \in Nat, NEW bye \in BOOLEAN, NEW n \in Nat,
           NEW j \in 0 .. FrameLen(n), NEW i \in 0 .. j, NEW x,
           Has(Piece(Frame(id, bye, n), i, j), x)
    PROVE  x = id
  <1> DEFINE f == Frame(id, bye, n)
  <1>1. f \in Seq(Byte) /\ Len(f) = FrameLen(n) /\ FrameLen(n) \in Nat
    BY FrameIs
  <1>2. \A k \in 1 .. FrameLen(n) : f[k].id = id
    BY DEF Frame
  <1> HIDE DEF f
  <1>3. j \in 0 .. Len(f)
    BY <1>1
  <1>4. Len(Piece(f, i, j)) = j - i /\ \A k \in 1 .. j - i : Piece(f, i, j)[k] = f[i + k]
    BY <1>1, <1>3, PieceIs
  <1>5. PICK k \in 1 .. j - i : Piece(f, i, j)[k].id = x
    BY <1>4 DEF Has, f
  <1>6. i + k \in 1 .. FrameLen(n)
    BY <1>1
  <1> QED
    BY <1>2, <1>4, <1>5, <1>6

(* The bytes of parts of a stream and of two streams are bytes of them. *)
LEMMA BytesOf ==
    ASSUME NEW s \in Seq(Byte), NEW t \in Seq(Byte), NEW n \in 0 .. Len(s), NEW x
    PROVE  /\ ~ Has(<<>>, x)
           /\ Has(Take(s, n), x) => Has(s, x)
           /\ Has(Drop(s, n), x) => Has(s, x)
           /\ Has(s \o t, x) => Has(s, x) \/ Has(t, x)
  <1>1. ~ Has(<<>>, x)
    BY DEF Has
  <1>2. Has(Take(s, n), x) => Has(s, x)
    BY DEF Has, Take
  <1>3. Has(Drop(s, n), x) => Has(s, x)
    BY DEF Has, Drop
  <1>4. ASSUME Has(s \o t, x) PROVE Has(s, x) \/ Has(t, x)
    <2>1. PICK k \in 1 .. Len(s \o t) : (s \o t)[k].id = x
      BY <1>4 DEF Has
    <2>2. Len(s) \in Nat /\ Len(t) \in Nat /\ Len(s \o t) = Len(s) + Len(t)
      OBVIOUS
    <2>3. CASE k <= Len(s)
      BY <2>1, <2>2, <2>3, ConcatIs DEF Has
    <2>4. CASE k > Len(s)
      <3>1. k - Len(s) \in 1 .. Len(t) /\ k \in Len(s) + 1 .. Len(s) + Len(t)
        BY <2>2, <2>4
      <3>2. t[k - Len(s)].id = x
        BY <2>1, <3>1, ConcatIs
      <3> QED
        BY <3>1, <3>2 DEF Has
    <2> QED
      BY <2>2, <2>3, <2>4
  <1> QED
    BY <1>1, <1>2, <1>3, <1>4

(* Sending the next bytes of a frame. *)
LEMMA SendPart ==
    ASSUME NEW id \in Nat, NEW bye \in BOOLEAN, NEW n \in Nat,
           NEW j \in 0 .. FrameLen(n), NEW i \in 0 .. j,
           NEW m \in 1 .. Len(Piece(Frame(id, bye, n), j, FrameLen(n)))
    PROVE  LET f == Frame(id, bye, n) IN
           /\ j + m \in 0 .. FrameLen(n) /\ i \in 0 .. j + m
           /\ Piece(f, i, j) \o Take(Piece(f, j, FrameLen(n)), m) = Piece(f, i, j + m)
           /\ Drop(Piece(f, j, FrameLen(n)), m) = Piece(f, j + m, FrameLen(n))
  <1> DEFINE f == Frame(id, bye, n)
  <1>1. f \in Seq(Byte) /\ Len(f) = FrameLen(n) /\ FrameLen(n) \in Nat
    BY FrameIs
  <1> HIDE DEF f
  <1>2. FrameLen(n) \in 0 .. Len(f) /\ j \in 0 .. Len(f)
    BY <1>1
  <1>3. Len(Piece(f, j, FrameLen(n))) = FrameLen(n) - j
    BY <1>1, <1>2, PieceIs
  <1>4. m \in 1 .. FrameLen(n) - j
    BY <1>3 DEF f
  <1>5. /\ j + m \in 0 .. FrameLen(n) /\ j \in 0 .. j + m /\ i \in 0 .. j + m
        /\ m \in 0 .. FrameLen(n) - j /\ j + m \in 0 .. Len(f)
    BY <1>1, <1>4
  <1>6. /\ Take(Piece(f, j, FrameLen(n)), m) = Piece(f, j, j + m)
        /\ Drop(Piece(f, j, FrameLen(n)), m) = Piece(f, j + m, FrameLen(n))
    BY <1>1, <1>2, <1>5, PieceSplit
  <1>7. Piece(f, i, j) \o Piece(f, j, j + m) = Piece(f, i, j + m)
    BY <1>1, <1>5, PieceJoin
  <1> QED
    BY <1>5, <1>6, <1>7 DEF f

(* Receiving the next bytes of a frame. *)
LEMMA ReceivePart ==
    ASSUME NEW id \in Nat, NEW bye \in BOOLEAN, NEW n \in Nat,
           NEW j \in 0 .. FrameLen(n), NEW i \in 0 .. j,
           NEW m \in Arriving(Piece(Frame(id, bye, n), i, j))
    PROVE  LET f == Frame(id, bye, n) IN
           /\ i + m \in 0 .. j /\ i + m >= 1
           /\ Piece(f, 0, i) \o Take(Piece(f, i, j), m) = Piece(f, 0, i + m)
           /\ Drop(Piece(f, i, j), m) = Piece(f, i + m, j)
  <1> DEFINE f == Frame(id, bye, n)
  <1>1. f \in Seq(Byte) /\ Len(f) = FrameLen(n) /\ FrameLen(n) \in Nat
    BY FrameIs
  <1>a. m \in Arriving(Piece(f, i, j))
    OBVIOUS
  <1> HIDE DEF f
  <1>2. j \in 0 .. Len(f)
    BY <1>1
  <1>3. Piece(f, i, j) \in Seq(Byte) /\ Len(Piece(f, i, j)) = j - i
    BY <1>1, <1>2, PieceIs
  <1>4. m \in 0 .. Len(Piece(f, i, j)) /\ m >= 1
    BY <1>3, <1>a, ReceiveAtMost DEF Arriving
  <1>5. /\ m \in 0 .. j - i /\ i + m \in 0 .. j /\ i + m \in 0 .. Len(f) /\ i \in 0 .. i + m
        /\ 0 \in 0 .. i /\ i + m >= 1
    BY <1>1, <1>2, <1>3, <1>4
  <1>6. Take(Piece(f, i, j), m) = Piece(f, i, i + m) /\ Drop(Piece(f, i, j), m) = Piece(f, i + m, j)
    BY <1>1, <1>2, <1>5, PieceSplit
  <1>7. Piece(f, 0, i) \o Piece(f, i, i + m) = Piece(f, 0, i + m)
    BY <1>1, <1>5, PieceJoin
  <1> QED
    BY <1>5, <1>6, <1>7 DEF f

(* A frame that is taken out of an assembler which holds a part of one is  *)
(* all of it, and leaves nothing.                                          *)
LEMMA TakePart ==
    ASSUME NEW id \in Nat, NEW bye \in BOOLEAN, NEW n \in Nat, NEW max \in Nat,
           NEW j \in 0 .. FrameLen(n), NEW i \in 0 .. j,
           "frame" \in Outcomes(Piece(Frame(id, bye, n), 0, i), max)
    PROVE  LET f == Frame(id, bye, n)
               b == Piece(f, 0, i)
           IN  /\ b[1] = [id |-> id, bye |-> bye, len |-> n, at |-> 1] /\ Has(b, id)
               /\ Drop(b, FrameLen(n)) = <<>> /\ Piece(f, i, j) = <<>>
               /\ i = j /\ j = FrameLen(n)
  <1> DEFINE f == Frame(id, bye, n)
             b == Piece(f, 0, i)
  <1>1. /\ f \in Seq(Byte) /\ Len(f) = FrameLen(n) /\ FrameLen(n) \in Nat /\ FrameLen(n) = n + 3
        /\ f[1] = [id |-> id, bye |-> bye, len |-> n, at |-> 1]
    BY FrameIs
  <1>2. "frame" \in Outcomes(b, max)
    OBVIOUS
  <1> HIDE DEF f
  <1>3. i \in 0 .. Len(f) /\ j \in 0 .. Len(f) /\ i \in Nat /\ j \in Nat /\ i <= j /\ j <= FrameLen(n)
    BY <1>1
  <1>4. b \in Seq(Byte) /\ Len(b) = i /\ (i >= 1 => b[1] = f[1])
    BY <1>1, <1>3, FirstPieceIs
  <1> HIDE DEF b
  <1>5. b # <<>> /\ Len(b) >= FrameLen(b[1].len)
    BY <1>2, <1>4, OutcomeIs, FrameIsThere
  <1>6. i >= 1 /\ b[1] = [id |-> id, bye |-> bye, len |-> n, at |-> 1]
    BY <1>1, <1>3, <1>4, <1>5
  <1>7. i = FrameLen(n) /\ j = FrameLen(n)
    BY <1>1, <1>3, <1>4, <1>5, <1>6
  <1>8. Drop(b, FrameLen(n)) = <<>>
    <2>1. FrameLen(n) \in 0 .. Len(b) /\ Len(b) - FrameLen(n) = 0
      BY <1>1, <1>4, <1>7
    <2>2. Drop(b, FrameLen(n)) \in Seq(Byte) /\ Len(Drop(b, FrameLen(n))) = 0
      BY <1>4, <2>1, PartIs
    <2>3. \A s \in Seq(Byte) : Len(s) = 0 => s = <<>>
      OBVIOUS
    <2> QED
      BY <2>2, <2>3
  <1>9. Piece(f, i, j) = <<>>
    BY <1>1, <1>3, <1>7, PieceEmpty
  <1>10. Has(b, id)
    <2>1. 1 \in 1 .. Len(b) /\ b[1].id = id
      BY <1>3, <1>4, <1>6
    <2> QED
      BY <2>1 DEF Has
  <1> QED
    BY <1>6, <1>7, <1>8, <1>9, <1>10 DEF f, b
--------------------------------------------------------------------------------
(* The streams hold bytes, whatever is sent and received. *)

(* No byte at all is a stream. *)
LEMMA NoBytes == <<>> \in Seq(Byte) /\ <<>> \in Seq([on : Connections, id : Nat])
  OBVIOUS

(* The streams are empty at first. *)
LEMMA StreamTypesInit == Init => StreamTypes
  <1> SUFFICES ASSUME Init PROVE StreamTypes
    OBVIOUS
  <1>1. /\ buffer \in [Connections -> Seq(Byte)] /\ response \in [Connections -> Seq(Byte)]
        /\ toServer \in [Connections -> Seq(Byte)] /\ toWorker \in [Connections -> Seq(Byte)]
    BY NoBytes DEF Init
  <1>2. sending \in Seq(Byte) /\ assembled \in Seq(Byte)
        /\ dispatched \in Seq([on : Connections, id : Nat])
    BY NoBytes, Zenon DEF Init
  <1> QED
    BY <1>1, <1>2 DEF Init, StreamTypes

(* What a stream accepts keeps it one. *)
LEMMA AcceptedTypes ==
    ASSUME NEW c \in Connections, NEW s \in [Connections -> Seq(Byte)], NEW b \in Seq(Byte)
    PROVE  [s EXCEPT ![c] = @ \o b] \in [Connections -> Seq(Byte)]
  <1>1. s[c] \o b \in Seq(Byte)
    BY ConcatIs
  <1> QED
    BY <1>1

(* The exchange of the worker. *)
LEMMA WorkerTypes ==
    ASSUME StreamTypes,
           \/ \E c \in Connections : Open(c)
           \/ WorkerSend \/ WorkerReceive \/ WorkerLost \/ WorkerClose
           \/ \E n \in RequestSizes, bye \in BOOLEAN : Exchange(n, bye)
    PROVE  StreamTypes'
  <1> USE DEF StreamTypes
  <1>1. ASSUME NEW c \in Connections, Open(c)
        PROVE  StreamTypes'
    <2>1. /\ buffer' \in [Connections -> Seq(Byte)] /\ response' \in [Connections -> Seq(Byte)]
          /\ toServer' \in [Connections -> Seq(Byte)] /\ toWorker' \in [Connections -> Seq(Byte)]
      BY <1>1, NoBytes DEF Open
    <2> QED
      BY <1>1, <2>1 DEF Open
  <1>2. ASSUME NEW n \in RequestSizes, NEW bye \in BOOLEAN, Exchange(n, bye)
        PROVE  StreamTypes'
    <2>1. request' \in Nat /\ n \in Nat
      BY <1>2, FrameStreamAssumption DEF Exchange
    <2>2. EncodeFrame(request', bye, n, WorkerMax) \in Seq(Byte)
      <3>1. Frame(request', bye, n) \in Seq(Byte)
        BY <2>1, FrameIs
      <3> QED
        BY <3>1 DEF EncodeFrame
    <2>3. /\ sending' \in Seq(Byte) /\ assembled' \in Seq(Byte) /\ answer' = None
          /\ worker' \in {"ready", "sending"}
      BY <1>2, <2>2 DEF Exchange, Return
    <2> QED
      BY <1>2, <2>1, <2>3 DEF Exchange, serverVars
  <1>3. CASE WorkerSend
    <2>0. UNCHANGED <<conn, request, server, buffer, response, last, dispatched, toWorker>>
      BY <1>3 DEF WorkerSend, serverVars
    <2>1. CASE /\ \E n \in 1 .. Len(sending) :
                     /\ sending' = Drop(sending, n)
                     /\ Accepts(toServer, conn, Take(sending, n), server[conn] = "closed")
               /\ worker' \in {worker, "receiving"} /\ UNCHANGED <<assembled, answer>>
      <3>1. PICK n \in 1 .. Len(sending) :
                /\ sending' = Drop(sending, n)
                /\ toServer' \in {toServer, [toServer EXCEPT ![conn] = @ \o Take(sending, n)]}
        BY <2>1 DEF Accepts
      <3>2. n \in 0 .. Len(sending)
        OBVIOUS
      <3>3. Drop(sending, n) \in Seq(Byte) /\ Take(sending, n) \in Seq(Byte)
        BY <3>2, PartIs
      <3>a. [toServer EXCEPT ![conn] = @ \o Take(sending, n)] \in [Connections -> Seq(Byte)]
        BY <3>3, AcceptedTypes
      <3>4. toServer' \in [Connections -> Seq(Byte)]
        BY <3>1, <3>a
      <3> QED
        BY <2>0, <2>1, <3>1, <3>3, <3>4
    <2>2. CASE Return("ready", None) /\ UNCHANGED toServer
      BY <2>0, <2>2, NoBytes DEF Return
    <2> QED
      BY <1>3, <2>1, <2>2 DEF WorkerSend
  <1>4. CASE WorkerReceive
    <2> DEFINE s == toWorker[conn]
    <2>0. UNCHANGED <<conn, request, server, buffer, response, last, dispatched, toServer>>
      BY <1>4 DEF WorkerReceive, serverVars
    <2>1. PICK n \in Arriving(s), o \in {"wait", "reject", "frame"} :
              /\ toWorker' = [toWorker EXCEPT ![conn] = Drop(@, n)]
              /\ CASE o = "wait" -> assembled' = assembled \o Take(s, n)
                                    /\ UNCHANGED <<worker, answer, sending>>
                   [] o = "reject" -> Return("ready", None)
                   [] o = "frame" -> Return("ready", (assembled \o Take(s, n))[1].id)
      BY <1>4 DEF WorkerReceive
    <2>2. s \in Seq(Byte) /\ n \in 0 .. Len(s) /\ n >= 1
      BY ReceiveAtMost DEF Arriving
    <2>3. Drop(s, n) \in Seq(Byte) /\ Take(s, n) \in Seq(Byte) /\ Len(Take(s, n)) = n
      BY <2>2, PartIs
    <2> DEFINE got == assembled \o Take(s, n)
    <2>4. got \in Seq(Byte) /\ Len(got) >= 1
      BY <2>2, <2>3, ConcatIs
    <2>5. got[1] \in Byte
      BY <2>4
    <2>6. got[1].id \in Nat
      BY <2>5 DEF Byte
    <2> HIDE DEF got
    <2>7. /\ worker' \in {worker, "ready"} /\ answer' \in {answer, None, got[1].id}
          /\ sending' \in {sending, <<>>} /\ assembled' \in {got, <<>>}
      BY <2>1 DEF Return, got
    <2>8. toWorker' \in [Connections -> Seq(Byte)]
      BY <2>1, <2>3
    <2> QED
      BY <2>0, <2>4, <2>6, <2>7, <2>8, NoBytes
  <1>5. CASE WorkerLost \/ WorkerClose
    <2>1. Leave
      BY <1>5 DEF WorkerLost, WorkerClose
    <2>2. toWorker' \in [Connections -> Seq(Byte)]
      BY <2>1, NoBytes DEF Leave
    <2> QED
      BY <2>1, <2>2, NoBytes DEF Leave, Return, serverVars
  <1> QED
    BY <1>1, <1>2, <1>3, <1>4, <1>5

(* A thread that hangs up leaves nothing behind. *)
LEMMA HangupTypes ==
    ASSUME StreamTypes, NEW c \in Connections, Hangup(c)
    PROVE  /\ server' \in [Connections -> {"recv", "next", "send", "closed"}]
           /\ last' \in [Connections -> BOOLEAN]
           /\ buffer' \in [Connections -> Seq(Byte)] /\ response' \in [Connections -> Seq(Byte)]
           /\ toServer' \in [Connections -> Seq(Byte)]
  BY NoBytes DEF Hangup, StreamTypes

(* What a thread dispatches, and the response to it. *)
LEMMA DispatchTypes ==
    ASSUME StreamTypes, NEW c \in Connections, NEW n \in ResponseSizes, ServerDispatch(c, n)
    PROVE  StreamTypes'
  <1> USE DEF StreamTypes
  <1> DEFINE b == buffer[c]
  <1>1. n \in Nat /\ ServerMax \in Nat /\ b \in Seq(Byte)
    BY FrameStreamAssumption
  <1>2. "frame" \in Outcomes(b, ServerMax)
    BY DEF ServerDispatch
  <1>3. Len(b) >= FrameLen(b[1].len) /\ b # <<>>
    BY <1>1, <1>2, OutcomeIs, FrameIsThere
  <1>4. b[1] \in Byte
    BY <1>1, <1>3
  <1>5. b[1].id \in Nat /\ b[1].bye \in BOOLEAN /\ b[1].len \in Nat
    BY <1>4 DEF Byte
  <1>6. EncodeFrame(b[1].id, FALSE, n, ServerMax) \in Seq(Byte)
    <2>1. Frame(b[1].id, FALSE, n) \in Seq(Byte)
      BY <1>1, <1>5, FrameIs
    <2> QED
      BY <2>1, NoBytes DEF EncodeFrame
  <1>7. Drop(b, FrameLen(b[1].len)) \in Seq(Byte)
    <2>0. \A k \in Nat : FrameLen(k) \in Nat
      BY DEF FrameLen, HeaderLen, TrailerLen
    <2>1. FrameLen(b[1].len) \in Nat
      BY <1>5, <2>0
    <2>2. FrameLen(b[1].len) \in 0 .. Len(b)
      BY <1>1, <1>3, <2>1
    <2> HIDE DEF b
    <2> QED
      BY <1>1, <2>2, PartIs
  <1>8. dispatched' \in Seq([on : Connections, id : Nat])
    <2>1. [on |-> c, id |-> b[1].id] \in [on : Connections, id : Nat]
      BY <1>5
    <2> QED
      BY <2>1 DEF ServerDispatch
  <1>9. UNCHANGED <<worker, conn, request, sending, assembled, answer, toWorker>>
    BY DEF ServerDispatch, workerVars
  <1>10. CASE Hangup(c)
    BY <1>8, <1>9, <1>10, HangupTypes
  <1>11. CASE /\ server' = [server EXCEPT ![c] = "send"]
              /\ response' = [response EXCEPT ![c] = EncodeFrame(b[1].id, FALSE, n, ServerMax)]
              /\ last' = [last EXCEPT ![c] = b[1].bye]
              /\ buffer' = [buffer EXCEPT ![c] = Drop(@, FrameLen(b[1].len))]
              /\ UNCHANGED toServer
    <2>1. /\ server' \in [Connections -> {"recv", "next", "send", "closed"}]
          /\ last' \in [Connections -> BOOLEAN]
      BY <1>5, <1>11
    <2>2. buffer' \in [Connections -> Seq(Byte)] /\ response' \in [Connections -> Seq(Byte)]
      BY <1>6, <1>7, <1>11
    <2> QED
      BY <1>8, <1>9, <1>11, <2>1, <2>2
  <1> QED
    BY <1>10, <1>11 DEF ServerDispatch

(* The threads of the coordinator. *)
LEMMA ServerTypes ==
    ASSUME StreamTypes, NEW c \in Connections, Server(c) \/ ServerStop(c)
    PROVE  StreamTypes'
  <1> USE DEF StreamTypes
  <1>1. CASE ServerReceive(c)
    <2>0. UNCHANGED <<worker, conn, request, sending, assembled, answer, toWorker, dispatched>>
      BY <1>1 DEF ServerReceive, workerVars
    <2>1. CASE /\ \E n \in Arriving(toServer[c]) :
                     /\ toServer' = [toServer EXCEPT ![c] = Drop(@, n)]
                     /\ buffer' = [buffer EXCEPT ![c] = @ \o Take(toServer[c], n)]
               /\ server' = [server EXCEPT ![c] = "next"] /\ UNCHANGED <<response, last>>
      <3>1. PICK n \in Arriving(toServer[c]) :
                /\ toServer' = [toServer EXCEPT ![c] = Drop(@, n)]
                /\ buffer' = [buffer EXCEPT ![c] = @ \o Take(toServer[c], n)]
        BY <2>1
      <3>2. toServer[c] \in Seq(Byte) /\ n \in 0 .. Len(toServer[c])
        BY ReceiveAtMost DEF Arriving
      <3>3. Drop(toServer[c], n) \in Seq(Byte) /\ Take(toServer[c], n) \in Seq(Byte)
        BY <3>2, PartIs
      <3>4. buffer' \in [Connections -> Seq(Byte)]
        BY <3>1, <3>3, AcceptedTypes
      <3>5. toServer' \in [Connections -> Seq(Byte)]
        BY <3>1, <3>3
      <3> QED
        BY <2>0, <2>1, <3>4, <3>5
    <2>2. CASE Hangup(c)
      BY <2>0, <2>2, HangupTypes
    <2> QED
      BY <1>1, <2>1, <2>2 DEF ServerReceive
  <1>2. CASE ServerWait(c)
    BY <1>2 DEF ServerWait, workerVars
  <1>3. CASE ServerReject(c) \/ ServerStop(c)
    <2>1. UNCHANGED <<worker, conn, request, sending, assembled, answer, toWorker, dispatched>>
          /\ Hangup(c)
      BY <1>3 DEF ServerReject, ServerStop, workerVars
    <2> QED
      BY <2>1, HangupTypes
  <1>4. CASE ServerSend(c)
    <2>0. UNCHANGED <<worker, conn, request, sending, assembled, answer, dispatched>>
      BY <1>4 DEF ServerSend, workerVars
    <2>1. CASE /\ \E n \in 1 .. Len(response[c]) :
                     /\ response' = [response EXCEPT ![c] = Drop(@, n)]
                     /\ Accepts(toWorker, c, Take(response[c], n), Gone(c))
               /\ UNCHANGED <<server, buffer, last, toServer>>
      <3>1. PICK n \in 1 .. Len(response[c]) :
                /\ response' = [response EXCEPT ![c] = Drop(@, n)]
                /\ toWorker' \in {toWorker, [toWorker EXCEPT ![c] = @ \o Take(response[c], n)]}
        BY <2>1 DEF Accepts
      <3>2. response[c] \in Seq(Byte) /\ n \in 0 .. Len(response[c])
        OBVIOUS
      <3>3. Drop(response[c], n) \in Seq(Byte) /\ Take(response[c], n) \in Seq(Byte)
        BY <3>2, PartIs
      <3>a. [toWorker EXCEPT ![c] = @ \o Take(response[c], n)] \in [Connections -> Seq(Byte)]
        BY <3>3, AcceptedTypes
      <3>4. toWorker' \in [Connections -> Seq(Byte)]
        BY <3>1, <3>a
      <3>5. response' \in [Connections -> Seq(Byte)]
        BY <3>1, <3>3
      <3> QED
        BY <2>0, <2>1, <3>4, <3>5
    <2>2. CASE Hangup(c) /\ UNCHANGED toWorker
      BY <2>0, <2>2, HangupTypes
    <2>3. CASE /\ server' = [server EXCEPT ![c] = "next"]
               /\ UNCHANGED <<buffer, response, last, toServer, toWorker>>
      BY <2>0, <2>3
    <2> QED
      BY <1>4, <2>1, <2>2, <2>3 DEF ServerSend
  <1> QED
    BY <1>1, <1>2, <1>3, <1>4, DispatchTypes DEF Server

(* Every step keeps the types of the streams. *)
LEMMA StreamTypesStep == StreamTypes /\ [Next]_vars => StreamTypes'
  <1>1. StreamTypes /\ Next => StreamTypes'
    BY WorkerTypes, ServerTypes DEF Next, Client
  <1>2. StreamTypes /\ UNCHANGED vars => StreamTypes'
    BY DEF StreamTypes, vars, workerVars, serverVars
  <1> QED
    BY <1>1, <1>2

(* The streams, the assemblers and the counters keep their types. *)
THEOREM StreamTypesInvariance == Spec => []StreamTypes
  BY StreamTypesInit, StreamTypesStep, PTL DEF Spec
--------------------------------------------------------------------------------
(* The frame assemblers of the coordinator. *)

(* Before it receives, an assembler holds less than a frame. *)
BoundAt(c) ==
    /\ server[c] = "recv" => Len(buffer[c]) < FrameLen(ServerMax)
    /\ Len(buffer[c]) < FrameLen(ServerMax) + Chunk

BoundInv ==
    /\ StreamTypes
    /\ \A c \in Connections : BoundAt(c)

(* Lengths are numbers. *)
LEMMA BoundNumbers ==
    ASSUME StreamTypes, NEW c \in Connections
    PROVE  /\ buffer[c] \in Seq(Byte) /\ Len(buffer[c]) \in Nat /\ Len(<<>>) = 0
           /\ ServerMax \in Nat /\ Chunk \in Nat /\ Chunk > 0
           /\ FrameLen(ServerMax) = ServerMax + 3
  <1>1. buffer[c] \in Seq(Byte) /\ Len(buffer[c]) \in Nat /\ Len(<<>>) = 0
    BY DEF StreamTypes
  <1>2. ServerMax \in Nat /\ Chunk \in Nat /\ Chunk > 0
    BY FrameStreamAssumption
  <1> QED
    BY <1>1, <1>2 DEF FrameLen, HeaderLen, TrailerLen

(* The thread of a connection keeps the bound of its own assembler. *)
LEMMA BoundServer ==
    ASSUME StreamTypes, StreamTypes', NEW c \in Connections, BoundAt(c), Server(c) \/ ServerStop(c)
    PROVE  BoundAt(c)'
  <1> DEFINE b == buffer[c]
  <1>1. /\ b \in Seq(Byte) /\ Len(b) \in Nat /\ Len(<<>>) = 0
        /\ ServerMax \in Nat /\ Chunk \in Nat /\ Chunk > 0
        /\ FrameLen(ServerMax) = ServerMax + 3
    BY BoundNumbers
  <1>2. CASE Hangup(c)
    <2>1. buffer'[c] = <<>>
      BY <1>2 DEF Hangup, StreamTypes
    <2> QED
      BY <1>1, <2>1 DEF BoundAt
  <1>3. CASE ServerReceive(c) /\ ~ Hangup(c)
    <2>1. PICK n \in Arriving(toServer[c]) :
              buffer' = [buffer EXCEPT ![c] = @ \o Take(toServer[c], n)]
      BY <1>3 DEF ServerReceive
    <2>2. toServer[c] \in Seq(Byte) /\ n \in 0 .. Len(toServer[c]) /\ n <= Chunk
      BY ReceiveAtMost DEF StreamTypes, Arriving
    <2>3. Take(toServer[c], n) \in Seq(Byte) /\ Len(Take(toServer[c], n)) = n
      BY <2>2, PartIs
    <2>4. Len(b \o Take(toServer[c], n)) = Len(b) + Len(Take(toServer[c], n))
      BY <1>1, <2>3, ConcatIs
    <2>5. buffer'[c] = b \o Take(toServer[c], n)
      BY <2>1 DEF StreamTypes
    <2>6. server'[c] = "next" /\ Len(b) < FrameLen(ServerMax)
      BY <1>3 DEF ServerReceive, StreamTypes, BoundAt
    <2>7. Len(buffer'[c]) = Len(b) + n
      BY <2>3, <2>4, <2>5
    <2> HIDE DEF b
    <2>8. Len(b) + n < FrameLen(ServerMax) + Chunk
      BY <1>1, <2>2, <2>6
    <2> QED
      BY <2>6, <2>7, <2>8 DEF BoundAt
  <1>4. CASE ServerWait(c)
    <2>1. Len(b) < FrameLen(ServerMax)
      BY <1>1, <1>4, OutcomeIs DEF ServerWait
    <2> QED
      BY <1>1, <1>4, <2>1 DEF BoundAt, ServerWait
  <1>5. ASSUME NEW n \in ResponseSizes, ServerDispatch(c, n), ~ Hangup(c)
        PROVE  BoundAt(c)'
    <2>1. /\ server'[c] = "send" /\ buffer'[c] = Drop(b, FrameLen(b[1].len))
      BY <1>5 DEF ServerDispatch, StreamTypes
    <2>2. "frame" \in Outcomes(b, ServerMax)
      BY <1>5 DEF ServerDispatch
    <2>3. Len(b) >= FrameLen(b[1].len) /\ b # <<>>
      BY <1>1, <2>2, OutcomeIs, FrameIsThere
    <2>4. b[1] \in Byte
      BY <1>1, <2>3
    <2> DEFINE size == FrameLen(b[1].len)
    <2>5. size \in Nat
      BY <2>4 DEF Byte, FrameLen, HeaderLen, TrailerLen
    <2>6. size \in 0 .. Len(b) /\ buffer'[c] = Drop(b, size)
      BY <1>1, <2>1, <2>3, <2>5
    <2> HIDE DEF size
    <2>7. Len(Drop(b, size)) = Len(b) - size
      BY <1>1, <2>6, PartIs
    <2>8. Len(b) < FrameLen(ServerMax) + Chunk
      BY DEF BoundAt
    <2> QED
      BY <1>1, <2>1, <2>6, <2>7, <2>8 DEF BoundAt
  <1>6. CASE ServerSend(c) /\ ~ Hangup(c)
    <2>1. buffer' = buffer /\ server'[c] \in {"next", "send"}
      BY <1>6 DEF ServerSend, StreamTypes
    <2> QED
      BY <1>1, <2>1 DEF BoundAt
  <1> QED
    BY <1>2, <1>3, <1>4, <1>5, <1>6 DEF Server, ServerReject, ServerStop

(* A thread of the coordinator leaves the other connections alone. *)
LEMMA OtherKept ==
    ASSUME StreamTypes, NEW c \in Connections, Server(c) \/ ServerStop(c),
           NEW d \in Connections, d # c
    PROVE  UNCHANGED <<server[d], buffer[d], response[d], last[d], toServer[d], toWorker[d]>>
  <1> USE DEF StreamTypes
  <1>1. CASE ServerReceive(c)
    BY <1>1 DEF ServerReceive, Hangup
  <1>2. CASE ServerWait(c) \/ ServerReject(c) \/ ServerStop(c)
    BY <1>2 DEF ServerWait, ServerReject, ServerStop, Hangup
  <1>3. CASE ServerSend(c)
    BY <1>3 DEF ServerSend, Hangup, Accepts
  <1>4. ASSUME NEW n \in ResponseSizes, ServerDispatch(c, n)
        PROVE  UNCHANGED <<server[d], buffer[d], response[d], last[d], toServer[d], toWorker[d]>>
    <2>1. UNCHANGED toWorker
      BY <1>4 DEF ServerDispatch
    <2>2. CASE Hangup(c)
      BY <2>1, <2>2 DEF Hangup
    <2>3. CASE ~ Hangup(c)
      BY <1>4, <2>1, <2>3 DEF ServerDispatch
    <2> QED
      BY <2>2, <2>3
  <1> QED
    BY <1>1, <1>2, <1>3, <1>4 DEF Server

(* Every step keeps that bound. *)
LEMMA BoundStep == BoundInv /\ [Next]_vars => BoundInv'
  <1> SUFFICES ASSUME BoundInv, [Next]_vars PROVE BoundInv'
    OBVIOUS
  <1>1. StreamTypes /\ StreamTypes'
    BY StreamTypesStep DEF BoundInv
  <1>2. SUFFICES ASSUME NEW d \in Connections PROVE BoundAt(d)'
    BY <1>1 DEF BoundInv
  <1>3. BoundAt(d)
    BY DEF BoundInv
  <1>4. UNCHANGED <<server[d], buffer[d]>> => BoundAt(d)'
    BY <1>3 DEF BoundAt
  <1>5. ASSUME NEW c \in Connections, Server(c) \/ ServerStop(c) PROVE BoundAt(d)'
    BY <1>1, <1>3, <1>4, <1>5, BoundServer, OtherKept
  <1>6. ASSUME NEW c \in Connections, Open(c) PROVE BoundAt(d)'
    <2>1. CASE d = c
      <3>1. buffer'[d] = <<>>
        BY <1>1, <1>6, <2>1 DEF Open, StreamTypes
      <3> QED
        BY <1>1, <3>1, BoundNumbers DEF BoundAt
    <2>2. CASE d # c
      <3>1. UNCHANGED <<server[d], buffer[d]>>
        BY <1>1, <1>6, <2>2 DEF Open, StreamTypes
      <3> QED
        BY <1>4, <3>1
    <2> QED
      BY <2>1, <2>2
  <1>7. CASE \/ Client \/ WorkerClose \/ UNCHANGED vars
             \/ \E n \in RequestSizes, bye \in BOOLEAN : Exchange(n, bye)
    <2>1. UNCHANGED <<server, buffer>>
      BY <1>7 DEF Client, WorkerClose, WorkerSend, WorkerReceive, WorkerLost, Leave, Exchange,
                  vars, serverVars
    <2> QED
      BY <1>4, <2>1
  <1> QED
    BY <1>5, <1>6, <1>7 DEF Next

(* No worker makes a thread of the coordinator hold more than an           *)
(* incomplete frame and one receive, whatever it sends, however the bytes  *)
(* are cut up and however many connections it leaves behind.               *)
THEOREM AssemblyStaysBounded == Spec => []AssemblyIsBounded
  <1>1. Init => BoundInv
    <2> SUFFICES ASSUME Init PROVE BoundInv
      OBVIOUS
    <2>1. StreamTypes
      BY StreamTypesInit
    <2>2. ASSUME NEW c \in Connections PROVE BoundAt(c)
      <3>1. buffer[c] = <<>>
        BY DEF Init
      <3> QED
        BY <2>1, <3>1, BoundNumbers DEF BoundAt
    <2> QED
      BY <2>1, <2>2 DEF BoundInv
  <1>2. BoundInv => AssemblyIsBounded
    BY DEF BoundInv, BoundAt, AssemblyIsBounded
  <1> QED
    BY <1>1, <1>2, BoundStep, PTL DEF Spec
--------------------------------------------------------------------------------
(* A request and its response, cut up between the two ends. *)

(* A request none of which is sent. *)
LEMMA AskedFirst ==
    ASSUME NEW id \in Nat, NEW bye \in BOOLEAN, NEW n \in Nat, NEW state
    PROVE  AskedAs(<<>>, <<>>, state, id, Frame(id, bye, n)) /\ Held(<<>>, <<>>, state)
  <1>1. /\ Piece(Frame(id, bye, n), 0, 0) = <<>>
        /\ Piece(Frame(id, bye, n), 0, FrameLen(n)) = Frame(id, bye, n)
        /\ 0 \in 0 .. FrameLen(n) /\ 0 \in 0 .. 0
    BY WholeFrame
  <1>2. AskedAs(<<>>, <<>>, state, id, Frame(id, bye, n))
    BY <1>1 DEF AskedAs
  <1>3. Frame(id, bye, n) \in Seq(Byte)
    BY FrameIs
  <1> QED
    BY <1>2, <1>3 DEF Held

(* A connection that holds nothing. *)
LEMMA HeldEmpty ==
    ASSUME NEW state
    PROVE  Held(<<>>, <<>>, state)
  <1>1. 0 \in Nat /\ FALSE \in BOOLEAN
    OBVIOUS
  <1> QED
    BY <1>1, AskedFirst

(* The worker sends some more of it. *)
LEMMA AskedSend ==
    ASSUME NEW b, NEW s, NEW state, NEW id \in Nat, NEW rest, AskedAs(b, s, state, id, rest),
           NEW m \in 1 .. Len(rest)
    PROVE  AskedAs(b, s \o Take(rest, m), state, id, Drop(rest, m))
  <1>1. PICK bye \in BOOLEAN, n \in Nat : \E j \in 0 .. FrameLen(n) : \E i \in 0 .. j :
            /\ b = Piece(Frame(id, bye, n), 0, i)
            /\ s = Piece(Frame(id, bye, n), i, j)
            /\ rest = Piece(Frame(id, bye, n), j, FrameLen(n))
            /\ state = "send" => i = 0
    BY DEF AskedAs
  <1>2. PICK j \in 0 .. FrameLen(n) : \E i \in 0 .. j :
            /\ b = Piece(Frame(id, bye, n), 0, i)
            /\ s = Piece(Frame(id, bye, n), i, j)
            /\ rest = Piece(Frame(id, bye, n), j, FrameLen(n))
            /\ state = "send" => i = 0
    BY <1>1
  <1>3. PICK i \in 0 .. j :
            /\ b = Piece(Frame(id, bye, n), 0, i)
            /\ s = Piece(Frame(id, bye, n), i, j)
            /\ rest = Piece(Frame(id, bye, n), j, FrameLen(n))
            /\ state = "send" => i = 0
    BY <1>2
  <1>4. /\ j + m \in 0 .. FrameLen(n) /\ i \in 0 .. j + m
        /\ s \o Take(rest, m) = Piece(Frame(id, bye, n), i, j + m)
        /\ Drop(rest, m) = Piece(Frame(id, bye, n), j + m, FrameLen(n))
    BY <1>3, SendPart
  <1> QED
    BY <1>3, <1>4 DEF AskedAs

(* The coordinator receives some more of it. *)
LEMMA AskedReceive ==
    ASSUME NEW b, NEW s, NEW state, NEW id \in Nat, NEW rest, AskedAs(b, s, state, id, rest),
           NEW m \in Arriving(s)
    PROVE  AskedAs(b \o Take(s, m), Drop(s, m), "next", id, rest)
  <1>1. PICK bye \in BOOLEAN, n \in Nat : \E j \in 0 .. FrameLen(n) : \E i \in 0 .. j :
            /\ b = Piece(Frame(id, bye, n), 0, i)
            /\ s = Piece(Frame(id, bye, n), i, j)
            /\ rest = Piece(Frame(id, bye, n), j, FrameLen(n))
    BY DEF AskedAs
  <1>2. PICK j \in 0 .. FrameLen(n) : \E i \in 0 .. j :
            /\ b = Piece(Frame(id, bye, n), 0, i)
            /\ s = Piece(Frame(id, bye, n), i, j)
            /\ rest = Piece(Frame(id, bye, n), j, FrameLen(n))
    BY <1>1
  <1>3. PICK i \in 0 .. j :
            /\ b = Piece(Frame(id, bye, n), 0, i)
            /\ s = Piece(Frame(id, bye, n), i, j)
            /\ rest = Piece(Frame(id, bye, n), j, FrameLen(n))
    BY <1>2
  <1>4. /\ i + m \in 0 .. j
        /\ b \o Take(s, m) = Piece(Frame(id, bye, n), 0, i + m)
        /\ Drop(s, m) = Piece(Frame(id, bye, n), i + m, j)
    BY <1>3, ReceivePart
  <1> QED
    BY <1>3, <1>4 DEF AskedAs

(* The thread of the coordinator goes on. *)
LEMMA AskedMoves ==
    ASSUME NEW b, NEW s, NEW state, NEW id, NEW rest, AskedAs(b, s, state, id, rest),
           NEW next \in {"recv", "next"}
    PROVE  AskedAs(b, s, next, id, rest)
  BY DEF AskedAs

(* The frame is complete. *)
LEMMA AskedTake ==
    ASSUME NEW b, NEW s, NEW state, NEW id \in Nat, NEW rest, AskedAs(b, s, state, id, rest),
           NEW max \in Nat, "frame" \in Outcomes(b, max)
    PROVE  /\ b # <<>> /\ b[1].id = id /\ Has(b, id)
           /\ Drop(b, FrameLen(b[1].len)) = <<>> /\ s = <<>> /\ rest = <<>>
  <1>1. PICK bye \in BOOLEAN, n \in Nat : \E j \in 0 .. FrameLen(n) : \E i \in 0 .. j :
            /\ b = Piece(Frame(id, bye, n), 0, i)
            /\ s = Piece(Frame(id, bye, n), i, j)
            /\ rest = Piece(Frame(id, bye, n), j, FrameLen(n))
    BY DEF AskedAs
  <1>2. PICK j \in 0 .. FrameLen(n) : \E i \in 0 .. j :
            /\ b = Piece(Frame(id, bye, n), 0, i)
            /\ s = Piece(Frame(id, bye, n), i, j)
            /\ rest = Piece(Frame(id, bye, n), j, FrameLen(n))
    BY <1>1
  <1>3. PICK i \in 0 .. j :
            /\ b = Piece(Frame(id, bye, n), 0, i)
            /\ s = Piece(Frame(id, bye, n), i, j)
            /\ rest = Piece(Frame(id, bye, n), j, FrameLen(n))
    BY <1>2
  <1>4. /\ b[1] = [id |-> id, bye |-> bye, len |-> n, at |-> 1] /\ Has(b, id)
        /\ Drop(b, FrameLen(n)) = <<>> /\ s = <<>> /\ i = j /\ j = FrameLen(n)
    BY <1>3, TakePart
  <1>5. b # <<>>
    BY <1>4 DEF Has
  <1>6. rest = <<>>
    <2>1. /\ Frame(id, bye, n) \in Seq(Byte) /\ Len(Frame(id, bye, n)) = FrameLen(n)
          /\ FrameLen(n) \in Nat
      BY FrameIs
    <2>2. FrameLen(n) \in 0 .. Len(Frame(id, bye, n)) /\ FrameLen(n) \in 0 .. FrameLen(n)
      BY <2>1
    <2>3. Piece(Frame(id, bye, n), FrameLen(n), FrameLen(n)) = <<>>
      BY <2>1, <2>2, PieceEmpty
    <2> QED
      BY <1>3, <1>4, <2>3
  <1> QED
    BY <1>4, <1>5, <1>6

(* All its bytes are of one request. *)
LEMMA AskedHas ==
    ASSUME NEW b, NEW s, NEW state, NEW id \in Nat, NEW rest, AskedAs(b, s, state, id, rest),
           NEW x, Has(b, x) \/ Has(s, x)
    PROVE  x = id
  <1>1. PICK bye \in BOOLEAN, n \in Nat : \E j \in 0 .. FrameLen(n) : \E i \in 0 .. j :
            b = Piece(Frame(id, bye, n), 0, i) /\ s = Piece(Frame(id, bye, n), i, j)
    BY DEF AskedAs
  <1>2. PICK j \in 0 .. FrameLen(n) : \E i \in 0 .. j :
            b = Piece(Frame(id, bye, n), 0, i) /\ s = Piece(Frame(id, bye, n), i, j)
    BY <1>1
  <1>3. PICK i \in 0 .. j :
            b = Piece(Frame(id, bye, n), 0, i) /\ s = Piece(Frame(id, bye, n), i, j)
    BY <1>2
  <1>a. FrameLen(n) \in Nat
    BY DEF FrameLen, HeaderLen, TrailerLen
  <1>4. i \in 0 .. FrameLen(n) /\ 0 \in 0 .. i
    BY <1>a
  <1> QED
    BY <1>3, <1>4, PieceIds

(* A response none of which is sent. *)
LEMMA AnsweredFirst ==
    ASSUME NEW id \in Nat, NEW n \in 0 .. ServerMax
    PROVE  AnsweredAs(<<>>, <<>>, Frame(id, FALSE, n), id, "send")
  <1>0. n \in Nat
    BY FrameStreamAssumption
  <1>1. /\ Piece(Frame(id, FALSE, n), 0, 0) = <<>>
        /\ Piece(Frame(id, FALSE, n), 0, FrameLen(n)) = Frame(id, FALSE, n)
        /\ 0 < FrameLen(n) /\ 0 \in 0 .. FrameLen(n) /\ 0 \in 0 .. 0
    BY <1>0, WholeFrame
  <1> QED
    BY <1>1 DEF AnsweredAs

(* The coordinator hangs up before all of it is sent. *)
LEMMA AnsweredCut ==
    ASSUME NEW a, NEW s, NEW r, NEW id, NEW state, AnsweredAs(a, s, r, id, state)
    PROVE  AnsweredAs(a, s, <<>>, id, "closed")
  BY DEF AnsweredAs

(* The coordinator sends some more of it. *)
LEMMA AnsweredSend ==
    ASSUME NEW a, NEW s, NEW r, NEW id \in Nat, AnsweredAs(a, s, r, id, "send"), NEW m \in 1 .. Len(r)
    PROVE  AnsweredAs(a, s \o Take(r, m), Drop(r, m), id, "send")
  <1>1. PICK n \in 0 .. ServerMax : \E j \in 0 .. FrameLen(n) : \E i \in 0 .. j :
            /\ i < FrameLen(n) /\ a = Piece(Frame(id, FALSE, n), 0, i)
            /\ s = Piece(Frame(id, FALSE, n), i, j)
            /\ r = Piece(Frame(id, FALSE, n), j, FrameLen(n))
    BY DEF AnsweredAs
  <1>2. PICK j \in 0 .. FrameLen(n) : \E i \in 0 .. j :
            /\ i < FrameLen(n) /\ a = Piece(Frame(id, FALSE, n), 0, i)
            /\ s = Piece(Frame(id, FALSE, n), i, j)
            /\ r = Piece(Frame(id, FALSE, n), j, FrameLen(n))
    BY <1>1
  <1>3. PICK i \in 0 .. j :
            /\ i < FrameLen(n) /\ a = Piece(Frame(id, FALSE, n), 0, i)
            /\ s = Piece(Frame(id, FALSE, n), i, j)
            /\ r = Piece(Frame(id, FALSE, n), j, FrameLen(n))
    BY <1>2
  <1>4. n \in Nat /\ FALSE \in BOOLEAN
    BY FrameStreamAssumption
  <1>5. /\ j + m \in 0 .. FrameLen(n) /\ i \in 0 .. j + m
        /\ s \o Take(r, m) = Piece(Frame(id, FALSE, n), i, j + m)
        /\ Drop(r, m) = Piece(Frame(id, FALSE, n), j + m, FrameLen(n))
    BY <1>3, <1>4, SendPart
  <1> QED
    BY <1>3, <1>5 DEF AnsweredAs

(* All of it was received. *)
Whole(got, left, r, id) == got[1].id = id /\ left = <<>> /\ r = <<>>

(* The worker receives some more of it.  One that takes every frame the    *)
(* coordinator may send rejects none, and has the whole of it when it      *)
(* returns: nothing is left for the next exchange.                         *)
LEMMA AnsweredReceive ==
    ASSUME ResponsesFit, NEW a, NEW s, NEW r, NEW id \in Nat, NEW state,
           AnsweredAs(a, s, r, id, state), NEW m \in Arriving(s),
           NEW got, got = a \o Take(s, m)
    PROVE  /\ "reject" \notin Outcomes(got, WorkerMax)
           /\ "wait" \in Outcomes(got, WorkerMax) => AnsweredAs(got, Drop(s, m), r, id, state)
           /\ "frame" \in Outcomes(got, WorkerMax) => Whole(got, Drop(s, m), r, id)
  <1>1. PICK n \in 0 .. ServerMax : \E j \in 0 .. FrameLen(n) : \E i \in 0 .. j :
            /\ i < FrameLen(n) /\ a = Piece(Frame(id, FALSE, n), 0, i)
            /\ s = Piece(Frame(id, FALSE, n), i, j)
            /\ r = IF state # "closed" THEN Piece(Frame(id, FALSE, n), j, FrameLen(n)) ELSE <<>>
    BY DEF AnsweredAs
  <1>2. PICK j \in 0 .. FrameLen(n) : \E i \in 0 .. j :
            /\ i < FrameLen(n) /\ a = Piece(Frame(id, FALSE, n), 0, i)
            /\ s = Piece(Frame(id, FALSE, n), i, j)
            /\ r = IF state # "closed" THEN Piece(Frame(id, FALSE, n), j, FrameLen(n)) ELSE <<>>
    BY <1>1
  <1>3. PICK i \in 0 .. j :
            /\ i < FrameLen(n) /\ a = Piece(Frame(id, FALSE, n), 0, i)
            /\ s = Piece(Frame(id, FALSE, n), i, j)
            /\ r = IF state # "closed" THEN Piece(Frame(id, FALSE, n), j, FrameLen(n)) ELSE <<>>
    BY <1>2
  <1> DEFINE f == Frame(id, FALSE, n)
  <1>4. ServerMax \in Nat /\ WorkerMax \in Nat /\ n \in Nat /\ n <= WorkerMax /\ FALSE \in BOOLEAN
    <2>1. ServerMax \in Nat /\ WorkerMax \in Nat
      BY FrameStreamAssumption
    <2>2. ServerMax <= WorkerMax
      BY DEF ResponsesFit
    <2> QED
      BY <2>1, <2>2
  <1>5. /\ f \in Seq(Byte) /\ Len(f) = FrameLen(n) /\ FrameLen(n) \in Nat /\ FrameLen(n) = n + 3
        /\ f[1] = [id |-> id, bye |-> FALSE, len |-> n, at |-> 1]
    BY <1>4, FrameIs
  <1>6. /\ i + m \in 0 .. j /\ i + m >= 1
        /\ got = Piece(f, 0, i + m) /\ Drop(s, m) = Piece(f, i + m, j)
    BY <1>3, <1>4, ReceivePart
  <1> HIDE DEF f
  <1>7. i + m \in 0 .. Len(f) /\ i + m \in Nat /\ j \in 0 .. Len(f) /\ j \in Nat /\ i + m <= j
        /\ j <= FrameLen(n) /\ FrameLen(n) \in 0 .. Len(f) /\ FrameLen(n) \in 0 .. FrameLen(n)
    BY <1>5, <1>6
  <1>8. got \in Seq(Byte) /\ Len(got) = i + m /\ got[1] = f[1]
    BY <1>5, <1>6, <1>7, FirstPieceIs
  <1>9. got # <<>> /\ got[1].at = 1 /\ got[1].len = n /\ got[1].id = id
    BY <1>5, <1>6, <1>8
  <1>10. "reject" \notin Outcomes(got, WorkerMax)
    <2>1. "reject" \in Outcomes(got, WorkerMax) => n > WorkerMax
      BY <1>4, <1>8, <1>9, OutcomeIs
    <2> QED
      BY <1>4, <2>1
  <1>11. ASSUME "wait" \in Outcomes(got, WorkerMax)
         PROVE  AnsweredAs(got, Drop(s, m), r, id, state)
    <2>1. i + m < FrameLen(n)
      BY <1>4, <1>8, <1>9, <1>11, OutcomeIs
    <2> QED
      BY <1>3, <1>6, <2>1 DEF AnsweredAs, f
  <1>12. ASSUME "frame" \in Outcomes(got, WorkerMax)
         PROVE  Drop(s, m) = <<>> /\ r = <<>>
    <2>1. i + m >= FrameLen(n)
      BY <1>4, <1>8, <1>9, <1>12, OutcomeIs
    <2>2. i + m = FrameLen(n) /\ j = FrameLen(n)
      BY <1>5, <1>7, <2>1
    <2>3. Piece(f, FrameLen(n), FrameLen(n)) = <<>>
      BY <1>5, <1>7, PieceEmpty
    <2> QED
      BY <1>3, <1>6, <2>2, <2>3 DEF f
  <1> QED
    BY <1>9, <1>10, <1>11, <1>12 DEF Whole
--------------------------------------------------------------------------------
(* The steps of the worker. *)

(* The elements of a sequence. *)
LEMMA ElementOf ==
    ASSUME NEW S, NEW q \in Seq(S), NEW k \in 1 .. Len(q)
    PROVE  q[k] \in S
  OBVIOUS

(* What is recorded of a request that is dispatched. *)
LEMMA EntryTypes ==
    ASSUME StreamTypes, NEW k \in 1 .. Len(dispatched)
    PROVE  dispatched[k].id \in Nat /\ dispatched[k].on \in Connections
  <1>1. dispatched \in Seq([on : Connections, id : Nat])
    BY DEF StreamTypes
  <1>2. dispatched[k] \in [on : Connections, id : Nat]
    BY <1>1, ElementOf
  <1> QED
    BY <1>2

(* What was dispatched is as it was when a step neither dispatches nor     *)
(* returns an answer.                                                      *)
LEMMA DispatchKept ==
    ASSUME DispatchInv, UNCHANGED <<request, dispatched>>,
           answer' = None \/ UNCHANGED <<answer, worker, conn>>
    PROVE  DispatchInv'
  BY DEF DispatchInv, WasDispatched

(* What the connections hold is as it was when no byte is added to it. *)
LEMMA CarryKept ==
    ASSUME CarryInv, UNCHANGED <<request, dispatched>>,
           worker' \in {"sending", "receiving"} =>
               worker \in {"sending", "receiving"} /\ conn' = conn,
           \A d \in Connections, id \in Nat :
               (Live(d) /\ Carries(d, id))' => Live(d) /\ Carries(d, id)
    PROVE  CarryInv'
  <1> SUFFICES ASSUME NEW c \in Connections, NEW id \in Nat, (Live(c) /\ Carries(c, id))'
               PROVE  CarriedBy(c, id)'
    BY DEF CarryInv
  <1>1. CarriedBy(c, id)
    BY DEF CarryInv
  <1> QED
    BY <1>1 DEF CarriedBy, Undispatched

(* A connection that is opened holds nothing, and those that the worker    *)
(* has left are as they were.                                              *)
LEMMA OpenStep ==
    ASSUME ExchangeInv, NEW c \in Connections, Open(c)
    PROVE  ExchangeInv'
  <1>1. StreamTypes' /\ StreamTypes
    BY WorkerTypes DEF ExchangeInv
  <1>2. answer = None /\ worker = "closed"
    BY DEF ExchangeInv, DispatchInv, Open
  <1>3. DispatchInv'
    BY <1>2, DispatchKept DEF ExchangeInv, Open
  <1>4. sending = <<>> /\ assembled = <<>>
    BY <1>2 DEF ExchangeInv, Phase, Idle, Quiet, Asked, Answered
  <1>5. /\ server'[c] = "recv" /\ buffer'[c] = <<>> /\ toServer'[c] = <<>>
        /\ response'[c] = <<>> /\ toWorker'[c] = <<>> /\ conn' = c /\ worker' = "ready"
    BY <1>1 DEF Open, StreamTypes
  <1>6. \A d \in Connections : d # c => UNCHANGED <<server[d], buffer[d], toServer[d]>>
    BY <1>1 DEF Open, StreamTypes
  <1>7. Quiet'
    BY <1>4, <1>5 DEF Open, Quiet
  <1>8. HeldInv'
    <2> SUFFICES ASSUME NEW d \in Connections, Live(d)'
                 PROVE  Held(buffer'[d], toServer'[d], server'[d])
      BY DEF HeldInv
    <2>1. CASE d = c
      BY <1>5, <2>1, HeldEmpty
    <2>2. CASE d # c
      BY <1>6, <2>2 DEF ExchangeInv, HeldInv, Live
    <2> QED
      BY <2>1, <2>2
  <1>9. CarryInv'
    <2>1. ASSUME NEW d \in Connections, NEW id \in Nat, (Live(d) /\ Carries(d, id))'
          PROVE  Live(d) /\ Carries(d, id)
      <3>1. CASE d = c
        BY <1>5, <2>1, <3>1 DEF Carries, Has
      <3>2. CASE d # c
        BY <1>6, <2>1, <3>2 DEF Live, Carries
      <3> QED
        BY <3>1, <3>2
    <2>2. UNCHANGED <<request, dispatched>> /\ worker' = "ready"
      BY DEF Open
    <2> QED
      BY <2>1, <2>2, CarryKept DEF ExchangeInv
  <1> QED
    BY <1>1, <1>3, <1>7, <1>8, <1>9 DEF ExchangeInv, Phase

(* A request is made when the one before is over. *)
LEMMA ExchangeStep ==
    ASSUME ExchangeInv, NEW n \in RequestSizes, NEW bye \in BOOLEAN, Exchange(n, bye)
    PROVE  ExchangeInv'
  <1>1. StreamTypes' /\ StreamTypes
    BY WorkerTypes DEF ExchangeInv
  <1>2. worker = "ready" /\ Quiet
    BY DEF Exchange, ExchangeInv, Phase, Idle, Asked, Answered
  <1>3. /\ request \in Nat /\ request' = request + 1 /\ n \in Nat
        /\ dispatched \in Seq([on : Connections, id : Nat])
        /\ UNCHANGED <<conn, server, buffer, response, dispatched, toServer, toWorker>>
    BY <1>1, FrameStreamAssumption DEF Exchange, StreamTypes, serverVars
  <1>4. \A i \in 1 .. Len(dispatched) : dispatched[i].id < request' /\ dispatched[i].id <= request'
    <2> SUFFICES ASSUME NEW i \in 1 .. Len(dispatched)
                 PROVE  dispatched[i].id < request' /\ dispatched[i].id <= request'
      OBVIOUS
    <2>1. dispatched[i].id \in Nat /\ dispatched[i].id <= request
      BY <1>1, EntryTypes DEF ExchangeInv, DispatchInv
    <2> QED
      BY <1>3, <2>1
  <1>5. answer' = None
    BY DEF Exchange, Return
  <1>6. DispatchInv'
    BY <1>3, <1>4, <1>5 DEF ExchangeInv, DispatchInv
  <1>7. HeldInv'
    BY <1>3 DEF ExchangeInv, HeldInv, Live
  <1>8. CarryInv'
    <2> SUFFICES ASSUME NEW c \in Connections, NEW id \in Nat, (Live(c) /\ Carries(c, id))'
                 PROVE  CarriedBy(c, id)'
      BY DEF CarryInv
    <2>1. CarriedBy(c, id)
      BY <1>3 DEF ExchangeInv, CarryInv, Live, Carries
    <2>2. id <= request' /\ id # request'
      BY <1>3, <2>1 DEF CarriedBy
    <2> QED
      BY <1>3, <2>1, <2>2 DEF CarriedBy, Undispatched, Live, Carries
  <1>9. CASE EncodeFrame(request', bye, n, WorkerMax) = <<>>
    <2>1. Quiet'
      BY <1>2, <1>3, <1>9 DEF Exchange, Return, Quiet, Live
    <2> QED
      BY <1>1, <1>6, <1>7, <1>8, <2>1 DEF ExchangeInv, Phase
  <1>10. CASE EncodeFrame(request', bye, n, WorkerMax) # <<>>
    <2>0. request' \in Nat
      BY <1>1 DEF StreamTypes
    <2>1. sending' = Frame(request', bye, n) /\ sending' # <<>> /\ worker' = "sending"
          /\ assembled' = assembled
      BY <1>10 DEF EncodeFrame, Exchange
    <2>2. AskedAs(<<>>, <<>>, server[conn], request', sending')
      BY <1>3, <2>0, <2>1, AskedFirst
    <2>3. Undispatched(request)'
      <3> SUFFICES ASSUME NEW k \in 1 .. Len(dispatched) PROVE dispatched[k].id # request'
        BY <1>3 DEF Undispatched
      <3>1. dispatched[k].id \in Nat /\ dispatched[k].id < request'
        BY <1>1, <1>4, EntryTypes
      <3> QED
        BY <1>3, <3>1
    <2>4. Asked'
      BY <1>2, <1>3, <2>1, <2>2, <2>3 DEF Asked, Quiet, Live
    <2> QED
      BY <1>1, <1>6, <1>7, <1>8, <2>4 DEF ExchangeInv, Phase
  <1> QED
    BY <1>9, <1>10

(* The request goes out piece by piece.  A coordinator that hung up gets   *)
(* none of it.                                                             *)
LEMMA WorkerSendStep ==
    ASSUME ExchangeInv, WorkerSend
    PROVE  ExchangeInv'
  <1>1. StreamTypes' /\ StreamTypes
    BY WorkerTypes DEF ExchangeInv
  <1>2. worker = "sending" /\ Asked /\ sending # <<>>
    BY DEF WorkerSend, ExchangeInv, Phase, Idle, Asked, Answered, Quiet
  <1>3. UNCHANGED <<conn, request, server, buffer, response, last, dispatched, toWorker>>
        /\ request \in Nat /\ conn \in Connections
    BY <1>1 DEF WorkerSend, serverVars, StreamTypes
  <1>4. answer = None
    BY <1>2 DEF ExchangeInv, DispatchInv
  <1>5. answer' = None
    BY <1>4 DEF WorkerSend, Return
  <1>6. DispatchInv'
    BY <1>3, <1>5, DispatchKept DEF ExchangeInv
  <1>7. CASE toServer' = toServer /\ ~ Live(conn)
    <2>1. HeldInv'
      BY <1>3, <1>7 DEF ExchangeInv, HeldInv, Live
    <2>2. CarryInv'
      <3>1. \A d \in Connections, id \in Nat :
                (Live(d) /\ Carries(d, id))' => Live(d) /\ Carries(d, id)
        BY <1>3, <1>7 DEF Live, Carries
      <3> QED
        BY <1>2, <1>3, <3>1, CarryKept DEF ExchangeInv
    <2>3. Phase'
      <3>1. CASE Return("ready", None)
        <4>1. Quiet'
          BY <1>2, <1>3, <1>7, <3>1 DEF Return, Asked, Quiet, Live
        <4> QED
          BY <4>1 DEF Phase
      <3>2. CASE worker' = (IF sending' = <<>> THEN "receiving" ELSE worker) /\ assembled' = assembled
        <4>1. Asked'
          BY <1>2, <1>3, <1>7, <3>2 DEF Asked, Live, Undispatched
        <4> QED
          BY <4>1 DEF Phase
      <3> QED
        BY <3>1, <3>2 DEF WorkerSend
    <2> QED
      BY <1>1, <1>6, <2>1, <2>2, <2>3 DEF ExchangeInv
  <1>8. CASE Live(conn)
    <2>1. PICK m \in 1 .. Len(sending) :
              /\ sending' = Drop(sending, m)
              /\ toServer' = [toServer EXCEPT ![conn] = @ \o Take(sending, m)]
      BY <1>8 DEF WorkerSend, Accepts, Live
    <2>2. worker' = (IF sending' = <<>> THEN "receiving" ELSE worker) /\ assembled' = assembled
      BY <1>8 DEF WorkerSend, Live
    <2>3. /\ toServer'[conn] = toServer[conn] \o Take(sending, m)
          /\ \A d \in Connections : d # conn => toServer'[d] = toServer[d]
      BY <1>1, <2>1 DEF StreamTypes
    <2>4. AskedAs(buffer[conn], toServer[conn], server[conn], request, sending)
      BY <1>2, <1>8 DEF Asked
    <2>5. AskedAs(buffer[conn], toServer'[conn], server[conn], request, sending')
      BY <1>3, <2>1, <2>3, <2>4, AskedSend
    <2>6. Asked'
      BY <1>2, <1>3, <2>2, <2>5 DEF Asked, Undispatched
    <2>7. HeldInv'
      <3> SUFFICES ASSUME NEW d \in Connections, Live(d)'
                   PROVE  Held(buffer'[d], toServer'[d], server'[d])
        BY DEF HeldInv
      <3>1. CASE d = conn
        <4>1. sending' \in Seq(Byte)
          BY <1>1 DEF StreamTypes
        <4> QED
          BY <1>3, <2>5, <3>1, <4>1 DEF Held
      <3>2. CASE d # conn
        BY <1>3, <2>3, <3>2 DEF ExchangeInv, HeldInv, Live
      <3> QED
        BY <3>1, <3>2
    <2>8. \A d \in Connections, id \in Nat :
              (Live(d) /\ Carries(d, id))' => Live(d) /\ (Carries(d, id) \/ (d = conn /\ id = request))
      <3> SUFFICES ASSUME NEW d \in Connections, NEW id \in Nat, (Live(d) /\ Carries(d, id))'
                   PROVE  Live(d) /\ (Carries(d, id) \/ (d = conn /\ id = request))
        OBVIOUS
      <3>1. CASE d = conn
        <4>1. Has(buffer[conn], id) \/ Has(toServer'[conn], id)
          BY <1>3, <3>1 DEF Carries
        <4> QED
          BY <1>3, <1>8, <2>5, <3>1, <4>1, AskedHas
      <3>2. CASE d # conn
        BY <1>3, <2>3, <3>2 DEF Live, Carries
      <3> QED
        BY <3>1, <3>2
    <2>9. CarriedBy(conn, request)'
      <3>1. Undispatched(request)
        BY <1>2 DEF Asked
      <3>2. \A k \in 1 .. Len(dispatched) : dispatched[k].id < request
        <4> SUFFICES ASSUME NEW k \in 1 .. Len(dispatched) PROVE dispatched[k].id < request
          OBVIOUS
        <4>1. dispatched[k].id \in Nat
          BY <1>1, EntryTypes
        <4>2. dispatched[k].id <= request /\ dispatched[k].id # request
          BY <3>1 DEF ExchangeInv, DispatchInv, Undispatched
        <4> QED
          BY <1>3, <4>1, <4>2
      <3>3. \A d \in Connections : (Live(d) /\ Carries(d, request))' => d = conn
        <4> SUFFICES ASSUME NEW d \in Connections, (Live(d) /\ Carries(d, request))', d # conn
                     PROVE  FALSE
          BY <1>3
        <4>1. Live(d) /\ Carries(d, request)
          BY <1>3, <2>3 DEF Live, Carries
        <4> QED
          BY <1>2, <1>3, <4>1 DEF ExchangeInv, CarryInv, CarriedBy
      <3> QED
        BY <1>3, <3>1, <3>2, <3>3 DEF CarriedBy, Undispatched
    <2>10. CarryInv'
      <3> SUFFICES ASSUME NEW c \in Connections, NEW id \in Nat, (Live(c) /\ Carries(c, id))'
                   PROVE  CarriedBy(c, id)'
        BY DEF CarryInv
      <3>1. CASE c = conn /\ id = request
        BY <1>3, <2>9, <3>1
      <3>2. CASE ~ (c = conn /\ id = request)
        <4>1. CarriedBy(c, id)
          BY <2>8, <3>2 DEF ExchangeInv, CarryInv
        <4>2. id # request
          BY <1>2, <3>2, <4>1 DEF CarriedBy
        <4> QED
          BY <1>3, <2>8, <4>1, <4>2 DEF CarriedBy, Undispatched
      <3> QED
        BY <3>1, <3>2
    <2> QED
      BY <1>1, <1>6, <2>6, <2>7, <2>10 DEF ExchangeInv, Phase
  <1> QED
    BY <1>7, <1>8 DEF WorkerSend, Accepts, Live

(* The worker gives the connection up: what it was waiting for is the      *)
(* coordinator's affair.                                                   *)
LEMMA WorkerLeaves ==
    ASSUME ExchangeInv, WorkerLost \/ WorkerClose
    PROVE  ExchangeInv'
  <1>1. StreamTypes' /\ StreamTypes
    BY WorkerTypes DEF ExchangeInv
  <1>2. /\ worker' = "closed" /\ answer' = None /\ sending' = <<>> /\ assembled' = <<>>
        /\ UNCHANGED <<conn, request, server, buffer, dispatched, toServer>>
    BY DEF WorkerLost, WorkerClose, Leave, Return, serverVars
  <1>3. DispatchInv'
    BY <1>2, DispatchKept DEF ExchangeInv
  <1>4. HeldInv'
    BY <1>2 DEF ExchangeInv, HeldInv, Live
  <1>5. CarryInv'
    <2>1. \A d \in Connections, id \in Nat :
              (Live(d) /\ Carries(d, id))' => Live(d) /\ Carries(d, id)
      BY <1>2 DEF Live, Carries
    <2> QED
      BY <1>2, <2>1, CarryKept DEF ExchangeInv
  <1> QED
    BY <1>1, <1>2, <1>3, <1>4, <1>5 DEF ExchangeInv, Phase, Idle

(* The response comes in piece by piece, and an exchange that returns with *)
(* it leaves nothing for the next one.                                     *)
LEMMA WorkerReceiveStep ==
    ASSUME ResponsesFit, ExchangeInv, WorkerReceive
    PROVE  ExchangeInv'
  <1> DEFINE s == toWorker[conn]
  <1>1. StreamTypes' /\ StreamTypes
    BY WorkerTypes DEF ExchangeInv
  <1>2. UNCHANGED <<conn, request, server, buffer, response, last, dispatched, toServer>>
        /\ request \in Nat /\ conn \in Connections
    BY <1>1 DEF WorkerReceive, serverVars, StreamTypes
  <1>3. PICK m \in Arriving(s), o \in {"wait", "reject", "frame"} :
            /\ o \in Outcomes(assembled \o Take(s, m), WorkerMax)
            /\ toWorker' = [toWorker EXCEPT ![conn] = Drop(@, m)]
            /\ CASE o = "wait" -> assembled' = assembled \o Take(s, m)
                                  /\ UNCHANGED <<worker, answer, sending>>
                 [] o = "reject" -> Return("ready", None)
                 [] o = "frame" -> Return("ready", (assembled \o Take(s, m))[1].id)
    BY DEF WorkerReceive
  <1>4. s # <<>>
    <2>1. s \in Seq(Byte)
      BY <1>1 DEF StreamTypes
    <2>2. m \in 0 .. Len(s) /\ m >= 1
      BY <2>1, ReceiveAtMost DEF Arriving
    <2> QED
      BY <2>2
  <1>5. worker = "receiving" /\ Answered
    BY <1>4 DEF WorkerReceive, ExchangeInv, Phase, Idle, Quiet, Asked
  <1>6. AnsweredAs(assembled, s, response[conn], request, server[conn])
    BY <1>5 DEF Answered
  <1> DEFINE got == assembled \o Take(s, m)
             rest == response[conn]
             state == server[conn]
  <1>a. /\ AnsweredAs(assembled, s, rest, request, state) /\ m \in Arriving(s)
        /\ got = assembled \o Take(s, m)
    BY <1>6
  <1> HIDE DEF s, rest, state, got
  <1>b. /\ "reject" \notin Outcomes(got, WorkerMax)
        /\ "wait" \in Outcomes(got, WorkerMax) => AnsweredAs(got, Drop(s, m), rest, request, state)
        /\ "frame" \in Outcomes(got, WorkerMax) => Whole(got, Drop(s, m), rest, request)
    BY <1>2, <1>a, AnsweredReceive
  <1> USE DEF s, got
  <1>7. /\ "reject" \notin Outcomes(got, WorkerMax)
        /\ "wait" \in Outcomes(got, WorkerMax) =>
               AnsweredAs(got, Drop(s, m), response[conn], request, server[conn])
        /\ "frame" \in Outcomes(got, WorkerMax) =>
               got[1].id = request /\ Drop(s, m) = <<>> /\ response[conn] = <<>>
    BY <1>b DEF rest, state, Whole
  <1> HIDE DEF got
  <1>8. toWorker'[conn] = Drop(s, m)
    BY <1>1, <1>3 DEF StreamTypes
  <1>9. HeldInv'
    BY <1>2 DEF ExchangeInv, HeldInv, Live
  <1>10. CarryInv'
    <2>1. \A d \in Connections, id \in Nat :
              (Live(d) /\ Carries(d, id))' => Live(d) /\ Carries(d, id)
      BY <1>2 DEF Live, Carries
    <2> QED
      BY <1>2, <1>5, <2>1, CarryKept DEF ExchangeInv
  <1>11. CASE o = "wait"
    <2>1. assembled' = got /\ UNCHANGED <<worker, answer, sending>>
      BY <1>3, <1>11 DEF got
    <2>2. AnsweredAs(got, Drop(s, m), response[conn], request, server[conn])
      BY <1>3, <1>7, <1>11 DEF got
    <2>3. Answered'
      BY <1>2, <1>5, <1>8, <2>1, <2>2 DEF Answered, Live, WasDispatched
    <2>4. DispatchInv'
      BY <1>2, <2>1, DispatchKept DEF ExchangeInv
    <2> QED
      BY <1>1, <1>9, <1>10, <2>3, <2>4 DEF ExchangeInv, Phase
  <1>12. CASE o = "frame"
    <2>1. got[1].id = request /\ Drop(s, m) = <<>> /\ response[conn] = <<>>
      BY <1>3, <1>7, <1>12 DEF got
    <2>2. worker' = "ready" /\ answer' = request /\ sending' = <<>> /\ assembled' = <<>>
      BY <1>3, <1>12, <2>1 DEF got, Return
    <2>3. Quiet'
      BY <1>2, <1>5, <1>8, <2>1, <2>2 DEF Answered, Quiet, Live
    <2>4. DispatchInv'
      BY <1>2, <1>5, <2>2 DEF ExchangeInv, DispatchInv, Answered, WasDispatched
    <2> QED
      BY <1>1, <1>9, <1>10, <2>3, <2>4 DEF ExchangeInv, Phase
  <1> QED
    BY <1>3, <1>7, <1>11, <1>12 DEF got
--------------------------------------------------------------------------------
(* The steps of the threads of the coordinator. *)

(* The exchange does not notice what happens on other connections. *)
LEMMA PhaseKept ==
    ASSUME Phase,
           UNCHANGED <<worker, conn, request, sending, assembled>>,
           UNCHANGED <<server[conn], buffer[conn], response[conn], toServer[conn], toWorker[conn]>>,
           Undispatched(request) /\ worker \in {"sending", "receiving"} => Undispatched(request)',
           WasDispatched(conn, request) => WasDispatched(conn, request)'
    PROVE  Phase'
  <1>1. Live(conn)' = Live(conn)
    BY DEF Live
  <1>2. Idle => Idle'
    BY DEF Idle
  <1>3. Quiet => Quiet'
    BY <1>1 DEF Quiet
  <1>4. Asked => Asked'
    BY <1>1 DEF Asked
  <1>5. Answered => Answered'
    BY <1>1 DEF Answered
  <1> QED
    BY <1>2, <1>3, <1>4, <1>5 DEF Phase

(* A step of a thread that dispatches nothing: it is enough to look at the *)
(* connection it serves.                                                   *)
LEMMA ServerKeeps ==
    ASSUME ExchangeInv, NEW c \in Connections, Server(c) \/ ServerStop(c),
           UNCHANGED <<worker, conn, request, sending, assembled, answer, dispatched>>,
           Live(c)' => Live(c) /\ Held(buffer'[c], toServer'[c], server'[c]),
           \A id \in Nat : (Live(c) /\ Carries(c, id))' => Carries(c, id),
           c = conn => Phase'
    PROVE  ExchangeInv'
  <1>1. StreamTypes' /\ StreamTypes
    BY ServerTypes DEF ExchangeInv
  <1>2. \A d \in Connections : d # c =>
            UNCHANGED <<server[d], buffer[d], response[d], last[d], toServer[d], toWorker[d]>>
    BY <1>1, OtherKept
  <1>3. DispatchInv'
    BY DispatchKept DEF ExchangeInv
  <1>4. HeldInv'
    <2> SUFFICES ASSUME NEW d \in Connections, Live(d)'
                 PROVE  Held(buffer'[d], toServer'[d], server'[d])
      BY DEF HeldInv
    <2>1. CASE d # c
      BY <1>2, <2>1 DEF ExchangeInv, HeldInv, Live
    <2> QED
      BY <2>1
  <1>5. CarryInv'
    <2>1. \A d \in Connections, id \in Nat :
              (Live(d) /\ Carries(d, id))' => Live(d) /\ Carries(d, id)
      <3> SUFFICES ASSUME NEW d \in Connections, NEW id \in Nat, (Live(d) /\ Carries(d, id))'
                   PROVE  Live(d) /\ Carries(d, id)
        OBVIOUS
      <3>1. CASE d # c
        BY <1>2, <3>1 DEF Live, Carries
      <3> QED
        BY <3>1
    <2> QED
      BY <2>1, CarryKept DEF ExchangeInv
  <1>6. Phase'
    <2>1. CASE c # conn
      <3>1. conn \in Connections
        BY <1>1 DEF StreamTypes
      <3>2. UNCHANGED <<server[conn], buffer[conn], response[conn], toServer[conn], toWorker[conn]>>
        BY <1>2, <2>1, <3>1
      <3>3. /\ Undispatched(request)' = Undispatched(request)
            /\ WasDispatched(conn, request)' = WasDispatched(conn, request)
        BY DEF Undispatched, WasDispatched
      <3> QED
        BY <3>2, <3>3, PhaseKept DEF ExchangeInv
    <2> QED
      BY <2>1
  <1> QED
    BY <1>1, <1>3, <1>4, <1>5, <1>6 DEF ExchangeInv

(* A thread hangs up: nothing more comes of what was under way. *)
LEMMA HangupStep ==
    ASSUME ExchangeInv, NEW c \in Connections, Server(c) \/ ServerStop(c), Hangup(c),
           UNCHANGED <<workerVars, toWorker, dispatched>>
    PROVE  ExchangeInv'
  <1>1. StreamTypes
    BY DEF ExchangeInv
  <1>2. UNCHANGED <<worker, conn, request, sending, assembled, answer, dispatched, toWorker>>
    BY DEF workerVars
  <1>3. server'[c] = "closed" /\ response'[c] = <<>> /\ ~ Live(c)'
    BY <1>1 DEF Hangup, StreamTypes, Live
  <1>4. ASSUME c = conn PROVE Phase'
    <2>1. Idle => Idle'
      BY <1>2 DEF Idle
    <2>2. Quiet => Quiet'
      BY <1>2, <1>3, <1>4 DEF Quiet
    <2>3. Asked => Asked'
      BY <1>2, <1>3, <1>4 DEF Asked, Undispatched
    <2>4. ASSUME Answered PROVE Answered'
      <3>1. AnsweredAs(assembled, toWorker[conn], <<>>, request, "closed")
        BY <2>4, AnsweredCut DEF Answered
      <3> QED
        BY <1>2, <1>3, <1>4, <2>4, <3>1 DEF Answered, WasDispatched
    <2> QED
      BY <2>1, <2>2, <2>3, <2>4 DEF ExchangeInv, Phase
  <1> QED
    BY <1>2, <1>3, <1>4, ServerKeeps

(* A thread goes on to its next receive or to the next frame. *)
LEMMA ServerMoves ==
    ASSUME ExchangeInv, NEW c \in Connections, Server(c), Live(c),
           NEW next \in {"recv", "next"}, server' = [server EXCEPT ![c] = next],
           UNCHANGED <<workerVars, toServer, toWorker, buffer, response, last, dispatched>>
    PROVE  ExchangeInv'
  <1>1. StreamTypes
    BY DEF ExchangeInv
  <1>2. UNCHANGED <<worker, conn, request, sending, assembled, answer, dispatched>>
    BY DEF workerVars
  <1>3. server'[c] = next /\ Live(c)'
    BY <1>1 DEF StreamTypes, Live
  <1>4. Held(buffer'[c], toServer'[c], server'[c])
    <2>1. PICK id \in Nat, rest \in Seq(Byte) :
              AskedAs(buffer[c], toServer[c], server[c], id, rest)
      BY DEF ExchangeInv, HeldInv, Held
    <2>2. AskedAs(buffer[c], toServer[c], next, id, rest)
      BY <2>1, AskedMoves
    <2> QED
      BY <1>3, <2>2 DEF Held
  <1>5. \A id \in Nat : (Live(c) /\ Carries(c, id))' => Carries(c, id)
    BY DEF Carries
  <1>6. ASSUME c = conn PROVE Phase'
    <2>1. Idle => Idle'
      BY <1>2 DEF Idle
    <2>2. Quiet => Quiet'
      BY <1>2, <1>6 DEF Quiet
    <2>3. ASSUME Asked PROVE Asked'
      <3>1. AskedAs(buffer[conn], toServer[conn], server[conn], request, sending)
        BY <1>6, <2>3 DEF Asked
      <3>2. AskedAs(buffer[conn], toServer[conn], next, request, sending)
        BY <3>1, AskedMoves
      <3> QED
        BY <1>2, <1>3, <1>6, <2>3, <3>2 DEF Asked, Undispatched
    <2>4. ASSUME Answered PROVE Answered'
      <3>1. AnsweredAs(assembled, toWorker[conn], response[conn], request, server'[conn])
        BY <1>3, <1>6, <2>4 DEF Answered, AnsweredAs, Live
      <3> QED
        BY <1>2, <1>6, <2>4, <3>1 DEF Answered, WasDispatched
    <2> QED
      BY <2>1, <2>2, <2>3, <2>4 DEF ExchangeInv, Phase
  <1> QED
    BY <1>2, <1>3, <1>4, <1>5, <1>6, ServerKeeps

(* What a thread receives is the next part of the request. *)
LEMMA ServerReceiveStep ==
    ASSUME ExchangeInv, NEW c \in Connections, ServerReceive(c)
    PROVE  ExchangeInv'
  <1>1. StreamTypes /\ Server(c)
    BY DEF ExchangeInv, Server
  <1>2. CASE Hangup(c)
    BY <1>1, <1>2, HangupStep DEF ServerReceive
  <1>3. CASE ~ Hangup(c)
    <2>1. PICK m \in Arriving(toServer[c]) :
              /\ toServer' = [toServer EXCEPT ![c] = Drop(@, m)]
              /\ buffer' = [buffer EXCEPT ![c] = @ \o Take(toServer[c], m)]
      BY <1>3 DEF ServerReceive
    <2>2. /\ UNCHANGED <<worker, conn, request, sending, assembled, answer, dispatched, toWorker>>
          /\ UNCHANGED response
          /\ server[c] = "recv" /\ server'[c] = "next" /\ Live(c) /\ Live(c)'
      BY <1>1, <1>3 DEF ServerReceive, StreamTypes, Live, workerVars
    <2>3. /\ toServer'[c] = Drop(toServer[c], m)
          /\ buffer'[c] = buffer[c] \o Take(toServer[c], m)
      BY <1>1, <2>1 DEF StreamTypes
    <2>4. toServer[c] \in Seq(Byte) /\ buffer[c] \in Seq(Byte) /\ m \in 0 .. Len(toServer[c]) /\ m >= 1
      BY <1>1, ReceiveAtMost DEF StreamTypes, Arriving
    <2>5. Held(buffer'[c], toServer'[c], server'[c])
      <3>1. PICK id \in Nat, rest \in Seq(Byte) :
                AskedAs(buffer[c], toServer[c], server[c], id, rest)
        BY <2>2 DEF ExchangeInv, HeldInv, Held
      <3>2. AskedAs(buffer[c] \o Take(toServer[c], m), Drop(toServer[c], m), "next", id, rest)
        BY <3>1, AskedReceive
      <3> QED
        BY <2>2, <2>3, <3>2 DEF Held
    <2>6. \A id \in Nat : (Live(c) /\ Carries(c, id))' => Carries(c, id)
      <3> SUFFICES ASSUME NEW id \in Nat, Has(buffer'[c], id) \/ Has(toServer'[c], id)
                   PROVE  Has(buffer[c], id) \/ Has(toServer[c], id)
        BY DEF Carries
      <3>1. Take(toServer[c], m) \in Seq(Byte)
        BY <2>4, PartIs
      <3>2. 0 \in 0 .. Len(buffer[c])
        BY <2>4
      <3>3. Has(buffer[c] \o Take(toServer[c], m), id) =>
                Has(buffer[c], id) \/ Has(Take(toServer[c], m), id)
        BY <2>4, <3>1, <3>2, BytesOf
      <3>4. /\ Has(Take(toServer[c], m), id) => Has(toServer[c], id)
            /\ Has(Drop(toServer[c], m), id) => Has(toServer[c], id)
        BY <2>4, BytesOf
      <3> QED
        BY <2>3, <3>3, <3>4
    <2>7. ASSUME c = conn PROVE Phase'
      <3>1. toServer[conn] # <<>>
        BY <2>4, <2>7
      <3>2. Idle \/ Asked
        BY <2>2, <2>7, <3>1 DEF ExchangeInv, Phase, Quiet, Answered
      <3>3. Idle => Idle'
        BY <2>2 DEF Idle
      <3>4. ASSUME Asked PROVE Asked'
        <4>1. AskedAs(buffer[c], toServer[c], server[c], request, sending) /\ request \in Nat
          BY <1>1, <2>2, <2>7, <3>4 DEF Asked, StreamTypes
        <4>2. AskedAs(buffer[c] \o Take(toServer[c], m), Drop(toServer[c], m), "next", request, sending)
          BY <4>1, AskedReceive
        <4> QED
          BY <2>2, <2>3, <2>7, <3>4, <4>2 DEF Asked, Undispatched
      <3> QED
        BY <3>2, <3>3, <3>4 DEF Phase
    <2> QED
      BY <1>1, <2>2, <2>5, <2>6, <2>7, ServerKeeps
  <1> QED
    BY <1>2, <1>3

(* The response goes out piece by piece, or comes to nothing if the worker *)
(* is gone.                                                                *)
LEMMA ServerSendStep ==
    ASSUME ExchangeInv, NEW c \in Connections, ServerSend(c)
    PROVE  ExchangeInv'
  <1>1. StreamTypes /\ Server(c) /\ server[c] = "send" /\ Live(c)
    BY DEF ExchangeInv, Server, ServerSend, Live
  <1>2. CASE Hangup(c) /\ UNCHANGED toWorker
    BY <1>1, <1>2, HangupStep DEF ServerSend
  <1>3. CASE /\ server' = [server EXCEPT ![c] = "next"]
             /\ UNCHANGED <<buffer, response, last, toServer, toWorker>>
    <2>1. "next" \in {"recv", "next"} /\ UNCHANGED <<workerVars, dispatched>>
      BY DEF ServerSend
    <2> QED
      BY <1>1, <1>3, <2>1, ServerMoves
  <1>4. CASE /\ response[c] # <<>>
             /\ \E n \in 1 .. Len(response[c]) :
                   /\ response' = [response EXCEPT ![c] = Drop(@, n)]
                   /\ Accepts(toWorker, c, Take(response[c], n), Gone(c))
             /\ UNCHANGED <<server, buffer, last, toServer>>
    <2>1. PICK m \in 1 .. Len(response[c]) :
              /\ response' = [response EXCEPT ![c] = Drop(@, m)]
              /\ Accepts(toWorker, c, Take(response[c], m), Gone(c))
      BY <1>4
    <2>2. UNCHANGED <<worker, conn, request, sending, assembled, answer, dispatched>>
      BY DEF ServerSend, workerVars
    <2>3. Live(c)' /\ Held(buffer'[c], toServer'[c], server'[c])
      BY <1>1, <1>4 DEF ExchangeInv, HeldInv, Live
    <2>4. \A id \in Nat : (Live(c) /\ Carries(c, id))' => Carries(c, id)
      BY <1>4 DEF Carries
    <2>5. ASSUME c = conn PROVE Phase'
      <3>1. CASE worker = "closed"
        <4>1. Idle'
          BY <2>2, <3>1 DEF ExchangeInv, Phase, Idle, Quiet, Asked, Answered
        <4> QED
          BY <4>1 DEF Phase
      <3>2. CASE worker # "closed"
        <4>1. Answered /\ request \in Nat
          BY <1>1, <1>4, <2>5, <3>2 DEF ExchangeInv, Phase, Idle, Quiet, Asked, StreamTypes
        <4>2. /\ response'[c] = Drop(response[c], m)
              /\ toWorker'[c] = toWorker[c] \o Take(response[c], m)
          BY <1>1, <2>1, <2>5, <3>2 DEF StreamTypes, Accepts, Gone
        <4>3. AnsweredAs(assembled, toWorker[c], response[c], request, "send")
          BY <1>1, <2>5, <4>1 DEF Answered
        <4>4. AnsweredAs(assembled, toWorker'[c], response'[c], request, "send")
          BY <4>1, <4>2, <4>3, AnsweredSend
        <4>5. Answered'
          BY <1>1, <1>4, <2>2, <2>5, <4>1, <4>4 DEF Answered, Live, WasDispatched
        <4> QED
          BY <4>5 DEF Phase
      <3> QED
        BY <3>1, <3>2
    <2> QED
      BY <1>1, <2>2, <2>3, <2>4, <2>5, ServerKeeps
  <1> QED
    BY <1>2, <1>3, <1>4 DEF ServerSend

(* What a new entry of the requests dispatched adds to what was said of    *)
(* them.                                                                   *)
LEMMA EntryAdded ==
    ASSUME StreamTypes, NEW c \in Connections, NEW id \in Nat,
           dispatched' = Append(dispatched, [on |-> c, id |-> id])
    PROVE  /\ Len(dispatched') = Len(dispatched) + 1 /\ Len(dispatched) \in Nat
           /\ \A k \in 1 .. Len(dispatched) : dispatched'[k] = dispatched[k]
           /\ dispatched'[Len(dispatched) + 1] = [on |-> c, id |-> id]
  BY DEF StreamTypes

(* A request is dispatched when all of it has come, and that leaves        *)
(* nothing in the assembler or in the stream from which it could be        *)
(* dispatched again.                                                       *)
LEMMA ServerDispatchStep ==
    ASSUME ExchangeInv, NEW c \in Connections, NEW r \in ResponseSizes, ServerDispatch(c, r)
    PROVE  ExchangeInv'
  <1>1. StreamTypes /\ Server(c) /\ server[c] = "next" /\ Live(c)
    BY DEF ExchangeInv, Server, ServerDispatch, Live
  <1>2. StreamTypes'
    BY <1>1, ServerTypes
  <1>3. UNCHANGED <<worker, conn, request, sending, assembled, answer, toWorker>>
        /\ request \in Nat /\ conn \in Connections
    BY <1>1 DEF ServerDispatch, workerVars, StreamTypes
  <1>4. "frame" \in Outcomes(buffer[c], ServerMax) /\ ServerMax \in Nat /\ r \in Nat
    BY FrameStreamAssumption DEF ServerDispatch
  <1>5. PICK id \in Nat, rest \in Seq(Byte) : AskedAs(buffer[c], toServer[c], server[c], id, rest)
    BY <1>1 DEF ExchangeInv, HeldInv, Held
  <1>6. /\ buffer[c] # <<>> /\ buffer[c][1].id = id /\ Has(buffer[c], id)
        /\ Drop(buffer[c], FrameLen(buffer[c][1].len)) = <<>> /\ toServer[c] = <<>>
    BY <1>4, <1>5, AskedTake
  <1>7. CarriedBy(c, id)
    BY <1>1, <1>6 DEF ExchangeInv, CarryInv, Carries
  <1>8. dispatched' = Append(dispatched, [on |-> c, id |-> id])
    BY <1>6 DEF ServerDispatch
  <1>9. /\ Len(dispatched') = Len(dispatched) + 1 /\ Len(dispatched) \in Nat
        /\ \A k \in 1 .. Len(dispatched) : dispatched'[k] = dispatched[k]
        /\ dispatched'[Len(dispatched) + 1] = [on |-> c, id |-> id]
    BY <1>1, <1>8, EntryAdded
  <1>10. Live(c)' => /\ server'[c] = "send" /\ buffer'[c] = <<>> /\ toServer'[c] = <<>>
                     /\ response'[c] = EncodeFrame(id, FALSE, r, ServerMax) /\ response'[c] # <<>>
    <2>1. CASE Hangup(c)
      BY <1>1, <2>1 DEF Hangup, StreamTypes, Live
    <2>2. CASE ~ Hangup(c)
      BY <1>1, <1>6, <2>2 DEF ServerDispatch, StreamTypes
    <2> QED
      BY <2>1, <2>2
  <1>11. \A d \in Connections : d # c =>
             UNCHANGED <<server[d], buffer[d], response[d], last[d], toServer[d], toWorker[d]>>
    BY <1>1, OtherKept
  <1>12. \A d, x : WasDispatched(d, x) => WasDispatched(d, x)'
    <2> SUFFICES ASSUME NEW d, NEW x, WasDispatched(d, x) PROVE WasDispatched(d, x)'
      OBVIOUS
    <2>1. PICK k \in 1 .. Len(dispatched) : dispatched[k] = [on |-> d, id |-> x]
      BY DEF WasDispatched
    <2>2. k \in 1 .. Len(dispatched')
      BY <1>9
    <2> QED
      BY <1>9, <2>1, <2>2 DEF WasDispatched
  <1>13. WasDispatched(c, id)'
    <2>1. Len(dispatched) + 1 \in 1 .. Len(dispatched')
      BY <1>9
    <2> QED
      BY <1>9, <2>1 DEF WasDispatched
  <1>14. \A x \in Nat : Undispatched(x) /\ x # id => Undispatched(x)'
    <2> SUFFICES ASSUME NEW x \in Nat, Undispatched(x), x # id,
                        NEW k \in 1 .. Len(dispatched')
                 PROVE  dispatched'[k].id # x
      BY DEF Undispatched
    <2>1. CASE k \in 1 .. Len(dispatched)
      BY <1>9, <2>1 DEF Undispatched
    <2>2. CASE k \notin 1 .. Len(dispatched)
      <3>1. k = Len(dispatched) + 1
        BY <1>9, <2>2
      <3> QED
        BY <1>9, <3>1
    <2> QED
      BY <2>1, <2>2
  <1>15. DispatchInv'
    <2>1. ASSUME NEW i \in 1 .. Len(dispatched'), NEW j \in 1 .. Len(dispatched'), i < j
          PROVE  /\ dispatched'[i].id # dispatched'[j].id
                 /\ dispatched'[i].on = dispatched'[j].on => dispatched'[i].id < dispatched'[j].id
      <3>1. i \in 1 .. Len(dispatched)
        BY <1>9, <2>1
      <3>2. CASE j \in 1 .. Len(dispatched)
        BY <1>9, <2>1, <3>1, <3>2 DEF ExchangeInv, DispatchInv
      <3>3. CASE j \notin 1 .. Len(dispatched)
        <4>1. j = Len(dispatched) + 1
          BY <1>9, <3>3
        <4>2. /\ dispatched'[i] = dispatched[i] /\ dispatched'[j].on = c /\ dispatched'[j].id = id
          BY <1>9, <3>1, <4>1
        <4>3. /\ dispatched[i].id # id
              /\ dispatched[i].on = c => dispatched[i].id < id
          BY <1>7, <3>1 DEF CarriedBy, Undispatched
        <4> QED
          BY <4>2, <4>3
      <3> QED
        BY <3>2, <3>3
    <2>2. ASSUME NEW i \in 1 .. Len(dispatched') PROVE dispatched'[i].id <= request'
      <3>1. CASE i \in 1 .. Len(dispatched)
        BY <1>3, <1>9, <3>1 DEF ExchangeInv, DispatchInv
      <3>2. CASE i \notin 1 .. Len(dispatched)
        <4>1. i = Len(dispatched) + 1
          BY <1>9, <3>2
        <4>2. id <= request
          BY <1>7 DEF CarriedBy
        <4> QED
          BY <1>3, <1>9, <4>1, <4>2
      <3> QED
        BY <3>1, <3>2
    <2>3. (answer # None => worker = "ready" /\ answer = request /\ WasDispatched(conn, answer))'
      BY <1>3, <1>12 DEF ExchangeInv, DispatchInv
    <2> QED
      BY <2>1, <2>2, <2>3 DEF DispatchInv
  <1>16. HeldInv'
    <2> SUFFICES ASSUME NEW d \in Connections, Live(d)'
                 PROVE  Held(buffer'[d], toServer'[d], server'[d])
      BY DEF HeldInv
    <2>1. CASE d = c
      BY <1>10, <2>1, HeldEmpty
    <2>2. CASE d # c
      BY <1>11, <2>2 DEF ExchangeInv, HeldInv, Live
    <2> QED
      BY <2>1, <2>2
  <1>17. \A d \in Connections, x \in Nat :
             (Live(d) /\ Carries(d, x))' => d # c /\ Live(d) /\ Carries(d, x)
    <2> SUFFICES ASSUME NEW d \in Connections, NEW x \in Nat, (Live(d) /\ Carries(d, x))'
                 PROVE  d # c /\ Live(d) /\ Carries(d, x)
      OBVIOUS
    <2>1. d # c
      <3> SUFFICES ASSUME d = c PROVE FALSE
        OBVIOUS
      <3>1. buffer'[d] = <<>> /\ toServer'[d] = <<>>
        BY <1>10
      <3> QED
        BY <3>1 DEF Carries, Has
    <2> QED
      BY <1>11, <2>1 DEF Live, Carries
  <1>18. CarryInv'
    <2> SUFFICES ASSUME NEW d \in Connections, NEW x \in Nat, (Live(d) /\ Carries(d, x))'
                 PROVE  CarriedBy(d, x)'
      BY DEF CarryInv
    <2>1. d # c /\ Live(d) /\ Carries(d, x) /\ CarriedBy(d, x)
      BY <1>17 DEF ExchangeInv, CarryInv
    <2>2. x # id
      BY <1>7, <2>1 DEF CarriedBy
    <2>3. Undispatched(x)'
      BY <1>14, <2>1, <2>2 DEF CarriedBy
    <2>4. ASSUME NEW k \in 1 .. Len(dispatched'), dispatched'[k].on = d
          PROVE  dispatched'[k].id < x
      <3>1. CASE k \in 1 .. Len(dispatched)
        BY <1>9, <2>1, <2>4, <3>1 DEF CarriedBy
      <3>2. CASE k \notin 1 .. Len(dispatched)
        <4>1. k = Len(dispatched) + 1
          BY <1>9, <3>2
        <4> QED
          BY <1>9, <2>1, <2>4, <4>1
      <3> QED
        BY <3>1, <3>2
    <2> QED
      BY <1>3, <1>17, <2>1, <2>3, <2>4 DEF CarriedBy
  <1>19. Phase'
    <2>1. CASE c # conn
      <3>1. UNCHANGED <<server[conn], buffer[conn], response[conn], toServer[conn], toWorker[conn]>>
        BY <1>3, <1>11, <2>1
      <3>2. worker \in {"sending", "receiving"} => request # id
        BY <1>7, <2>1 DEF CarriedBy
      <3>3. Undispatched(request) /\ worker \in {"sending", "receiving"} => Undispatched(request)'
        <4>1. PICK x \in Nat : x = request
          BY <1>3
        <4>2. Undispatched(x) /\ x # id => Undispatched(x)'
          BY <1>14
        <4>3. Undispatched(request) => Undispatched(x)
          BY <4>1
        <4>4. Undispatched(x)' => Undispatched(request)'
          BY <1>3, <4>1 DEF Undispatched
        <4> QED
          BY <3>2, <4>1, <4>2, <4>3, <4>4
      <3>4. WasDispatched(conn, request) => WasDispatched(conn, request)'
        BY <1>3, <1>12
      <3> QED
        BY <1>3, <3>1, <3>3, <3>4, PhaseKept DEF ExchangeInv
    <2>2. CASE c = conn
      <3>1. Idle \/ Asked
        BY <1>1, <1>6, <2>2 DEF ExchangeInv, Phase, Quiet, Answered
      <3>2. Idle => Idle'
        BY <1>3 DEF Idle
      <3>3. ASSUME Asked PROVE Answered'
        <4>1. AskedAs(buffer[c], toServer[c], server[c], request, sending)
          BY <1>1, <2>2, <3>3 DEF Asked
        <4>2. buffer[c][1].id = request /\ sending = <<>>
          BY <1>3, <1>4, <4>1, AskedTake
        <4>3. id = request /\ worker = "receiving"
          BY <1>6, <3>3, <4>2 DEF Asked
        <4>4. CASE Live(c)'
          <5>0. EncodeFrame(request, FALSE, r, ServerMax) # <<>>
                /\ response'[c] = EncodeFrame(request, FALSE, r, ServerMax)
            BY <1>10, <4>3, <4>4
          <5>a. r <= ServerMax /\ EncodeFrame(request, FALSE, r, ServerMax) = Frame(request, FALSE, r)
            BY <5>0 DEF EncodeFrame
          <5>b. response'[c] = Frame(request, FALSE, r)
            BY <5>0, <5>a
          <5>c. r \in 0 .. ServerMax
            <6>1. r \in Nat /\ ServerMax \in Nat /\ r <= ServerMax
              BY <1>4, <5>a, Zenon
            <6> QED
              BY <6>1
          <5>1. response'[c] = Frame(request, FALSE, r) /\ r \in 0 .. ServerMax
            BY <5>b, <5>c
          <5>2. AnsweredAs(<<>>, <<>>, response'[c], request, "send")
            BY <1>3, <5>1, AnsweredFirst
          <5> QED
            BY <1>3, <1>10, <1>13, <2>2, <3>3, <4>2, <4>3, <4>4, <5>2 DEF Answered, Asked
        <4>5. CASE ~ Live(c)'
          <5>1. Hangup(c)
            BY <1>1, <4>5 DEF ServerDispatch, StreamTypes, Live
          <5>2. server'[c] = "closed" /\ response'[c] = <<>>
            BY <1>1, <5>1 DEF Hangup, StreamTypes
          <5>3. AnsweredAs(<<>>, <<>>, <<>>, request, "closed")
            <6>1. 0 \in 0 .. ServerMax
              BY <1>4
            <6>2. AnsweredAs(<<>>, <<>>, Frame(request, FALSE, 0), request, "send")
              BY <1>3, <6>1, AnsweredFirst
            <6> QED
              BY <6>2, AnsweredCut
          <5> QED
            BY <1>3, <1>13, <2>2, <3>3, <4>2, <4>3, <4>5, <5>2, <5>3 DEF Answered, Asked
        <4> QED
          BY <4>4, <4>5
      <3> QED
        BY <3>1, <3>2, <3>3 DEF Phase
    <2> QED
      BY <2>1, <2>2
  <1> QED
    BY <1>2, <1>15, <1>16, <1>18, <1>19 DEF ExchangeInv
--------------------------------------------------------------------------------
(* Every step of either end keeps the invariant of the exchange. *)
LEMMA ExchangeInvStep ==
    ASSUME ResponsesFit
    PROVE  ExchangeInv /\ [Next]_vars => ExchangeInv'
  <1> SUFFICES ASSUME ExchangeInv, [Next]_vars PROVE ExchangeInv'
    OBVIOUS
  <1>1. StreamTypes'
    BY StreamTypesStep DEF ExchangeInv
  <1>2. ASSUME NEW c \in Connections, Server(c) \/ ServerStop(c) PROVE ExchangeInv'
    <2>1. CASE ServerWait(c)
      <3>1. "recv" \in {"recv", "next"} /\ Server(c)
        BY <2>1 DEF Server
      <3> QED
        BY <2>1, <3>1, ServerMoves DEF ServerWait, Live
    <2>2. CASE ServerReject(c) \/ ServerStop(c)
      BY <1>2, <2>2, HangupStep DEF ServerReject, ServerStop
    <2> QED
      BY <1>2, <2>1, <2>2, ServerReceiveStep, ServerSendStep, ServerDispatchStep DEF Server
  <1>3. CASE UNCHANGED vars
    <2>1. UNCHANGED <<worker, conn, request, sending, assembled, answer, server, buffer, response,
                      last, dispatched, toServer, toWorker>>
      BY <1>3 DEF vars, workerVars, serverVars
    <2>2. DispatchInv'
      BY <2>1, DispatchKept DEF ExchangeInv
    <2>3. HeldInv'
      BY <2>1 DEF ExchangeInv, HeldInv, Live
    <2>4. CarryInv'
      <3>1. \A d \in Connections, id \in Nat :
                (Live(d) /\ Carries(d, id))' => Live(d) /\ Carries(d, id)
        BY <2>1 DEF Live, Carries
      <3> QED
        BY <2>1, <3>1, CarryKept DEF ExchangeInv
    <2>5. Phase'
      <3>1. /\ Undispatched(request)' = Undispatched(request)
            /\ WasDispatched(conn, request)' = WasDispatched(conn, request)
        BY <2>1 DEF Undispatched, WasDispatched
      <3> QED
        BY <2>1, <3>1, PhaseKept DEF ExchangeInv
    <2> QED
      BY <1>1, <2>2, <2>3, <2>4, <2>5 DEF ExchangeInv
  <1> QED
    BY <1>2, <1>3, OpenStep, ExchangeStep, WorkerSendStep, WorkerReceiveStep, WorkerLeaves
    DEF Next, Client

(* At any moment nothing is under way, or the last request is, cut up      *)
(* between the worker, the stream and the assembler, or its response is;   *)
(* and what the connections that the worker has left still hold was not    *)
(* dispatched before.                                                      *)
THEOREM ExchangeInvariance ==
    ASSUME ResponsesFit
    PROVE  Spec => []ExchangeInv
  <1>1. Init => ExchangeInv
    <2> SUFFICES ASSUME Init PROVE ExchangeInv
      OBVIOUS
    <2>1. Phase
      BY DEF Init, Phase, Idle
    <2>2. DispatchInv
      BY DEF Init, DispatchInv
    <2>3. \A c \in Connections : ~ Live(c)
      BY DEF Init, Live
    <2>4. HeldInv /\ CarryInv
      BY <2>3 DEF HeldInv, CarryInv
    <2> QED
      BY <2>1, <2>2, <2>4, StreamTypesInit DEF ExchangeInv
  <1>2. ExchangeInv /\ [Next]_vars => ExchangeInv'
    BY ExchangeInvStep
  <1> QED
    BY <1>1, <1>2, PTL DEF Spec

(* An exchange never takes the answer to another request for its own,      *)
(* although exchange() does not compare request ids, provided that the     *)
(* worker takes every frame the coordinator may send.                      *)
THEOREM AnswersAreOwn ==
    ASSUME ResponsesFit
    PROVE  Spec => []AnswersMatch
  <1>1. ExchangeInv => AnswersMatch
    BY DEF ExchangeInv, DispatchInv, AnswersMatch
  <1> QED
    BY <1>1, ExchangeInvariance, PTL

(* No request is dispatched twice, whatever threads still serve            *)
(* connections that the worker has left, however the frames are cut up and *)
(* wherever a connection ends; those of one connection are dispatched in   *)
(* order, and an exchange that returned a response was dispatched on its   *)
(* connection.                                                             *)
THEOREM RequestsAreDispatchedOnce ==
    ASSUME ResponsesFit
    PROVE  Spec => []DispatchedOnce
  <1>1. ExchangeInv => DispatchedOnce
    BY DEF ExchangeInv, DispatchInv, DispatchedOnce, WasDispatched
  <1> QED
    BY <1>1, ExchangeInvariance, PTL
================================================================================
