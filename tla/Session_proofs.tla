---------------------------- MODULE Session_proofs ----------------------------
(***************************************************************************)
(* What streamsM and the compare-and-swaps on the closed flags protect,    *)
(* for any number of connections, streams, openers and closers: the accept *)
(* channel, the streams of a session that closes, the ids of streams that  *)
(* were closed and the count of active streams.                            *)
(***************************************************************************)
EXTENDS Session, TLAPS

(* The only multiple of M between -M and M is zero. *)
LEMMA SmallMultiple ==
  ASSUME NEW M \in Nat \ {0}, NEW d \in Int, NEW e \in Int, M * d = e, 0 - M < e, e < M
  PROVE  d = 0
<1>1. CASE d >= 1
  <2>1. M * d >= M
    BY <1>1
  <2> QED
    BY <2>1
<1>2. CASE d <= 0 - 1
  <2>1. M * d <= 0 - M
    BY <1>2
  <2> QED
    BY <2>1
<1> QED
  BY <1>1, <1>2

(* So there is one remainder. *)
LEMMA OneRemainder ==
  ASSUME NEW M \in Nat \ {0}, NEW n \in Int, NEW z \in 0 .. M - 1
  PROVE  (M * n + z) % M = z
<1> DEFINE x == M * n + z
           m == x \div M
           w == x % M
           d == n - m
           e == w - z
<1>1. x \in Int /\ m \in Int /\ w \in 0 .. M - 1 /\ x = M * m + w
  OBVIOUS
<1>2. d \in Int /\ e \in Int /\ 0 - M < e /\ e < M
  BY <1>1
<1>3. M * d = e
  BY <1>1
<1>4. d = 0
  <2> HIDE DEF d, e
  <2> QED
    BY <1>2, <1>3, SmallMultiple
<1>5. n = m
  <2> HIDE DEF m
  <2> QED
    BY <1>1, <1>4
<1>6. w = z
  <2> HIDE DEF m, w
  <2> QED
    BY <1>1, <1>5
<1> QED
  BY <1>6

(* A remainder follows its number. *)
LEMMA ModFollows ==
  ASSUME NEW M \in Nat \ {0}, NEW a \in Int, NEW b \in Int
  PROVE  ((a % M) + (b - a)) % M = b % M
<1> DEFINE q == a \div M
           r == a % M
           p == b \div M
           y == b % M
           n == p - q
<1>1. q \in Int /\ r \in Int /\ a = M * q + r
  OBVIOUS
<1>2. p \in Int /\ y \in 0 .. M - 1 /\ b = M * p + y
  OBVIOUS
<1>3. r + (b - a) = M * n + y /\ n \in Int
  BY <1>1, <1>2
<1>4. (M * n + y) % M = y
  <2> HIDE DEF n, y
  <2> QED
    BY <1>2, <1>3, OneRemainder, Zenon
<1> QED
  BY <1>3, <1>4
-----------------------------------------------------------------------------

USE SessionBounds, SessionThreads

(* The shape of the variables that the argument is about. *)
Frames == (StreamIds \X {0, 1}) \cup {Fin}

Shape ==
  /\ nextStreamID \in Nat \ {0}
  /\ streams \in [StreamIds -> {"absent", "live", "nil"}]
  /\ sclosed \in [StreamIds -> BOOLEAN]
  /\ acceptCh \in Seq(RemoteIds)
  /\ inflight \subseteq Frames
  /\ pc \in [Threads -> Labels]
  /\ frame \in [Deplexers -> (StreamIds \X {0, 1}) \cup {NoOne}]
  /\ own \in [Openers -> LocalIds \cup {NoOne}]

(* streamsM is held for the channel send and for no other step; closed is  *)
(* set before the sweep, and the channel closed in it.                     *)
Guarded ==
  /\ \A d \in Deplexers : pc[d] = "chSend" <=> streamsM = d
  /\ \A t \in Threads : pc[t] \in {"sweep", "passiveSweep"} => closed
  /\ chClosed => closed
  /\ NoSendOnClosedChannel

(* A stream that was made: it is in the map or was closed.  Its entry is   *)
(* set to nil when it is closed, and only the sweep takes one out.         *)
Made(s) == streams[s] # "absent" \/ sclosed[s]

MapSound ==
  \A s \in StreamIds : /\ streams[s] = "nil" => sclosed[s]
                       /\ sclosed[s] /\ streams[s] = "absent" => chClosed

(* OpenStream hands every id out once, and the opener that was given it    *)
(* makes the stream.                                                       *)
IdsDistinct ==
  /\ \A o \in Openers : own[o] # NoOne => own[o] < nextStreamID
  /\ \A o, p \in Openers : own[o] = own[p] /\ own[o] # NoOne => o = p
  /\ \A o \in Openers : pc[o] = "open" => own[o] = NoOne
  /\ \A o \in Openers : pc[o] \notin {"open", "done"} => own[o] # NoOne
OwnMade ==
  /\ \A o \in Openers : own[o] # NoOne => (pc[o] = "openStore" <=> ~Made(own[o]))
  /\ \A s \in LocalIds : Made(s) => s < nextStreamID

(* Only a stream that was made has frames looked at, waits to be accepted  *)
(* or is served; and the remote only answers to one that was opened.       *)
WireMade == \A f \in inflight : f # Fin /\ f[1] \in LocalIds => Made(f[1])
FramesMade == \A d \in Deplexers : frame[d] # NoOne => Made(frame[d][1])
QueueMade == \A i \in 1 .. Len(acceptCh) : Made(acceptCh[i])
ServedMade == \A u \in RemoteIds : pc[u] # "none" => Made(u)
OnlyMade == WireMade /\ FramesMade /\ QueueMade /\ ServedMade

(* A deplexer has a frame while it handles one, and only sends the remote's *)
(* streams to the channel; the goroutines that close streams.               *)
FramesHeld ==
  \A d \in Deplexers :
    /\ pc[d] \in {"chSend", "incr", "recvFrame", "csNil"} => frame[d] # NoOne
    /\ pc[d] = "chSend" => frame[d][1] \in RemoteIds
    /\ pc[d] \notin {"csSend", "using"}
Roles ==
  \A t \in Threads :
    pc[t] \in {"using", "csSend", "csNil"} => t \in Deplexers \cup Openers \cup RemoteIds

(* A stream in the channel, or about to be sent there, is there once and   *)
(* has no goroutine yet.                                                   *)
Unserved ==
  /\ \A i \in 1 .. Len(acceptCh) : pc[acceptCh[i]] = "none"
  /\ \A i, j \in 1 .. Len(acceptCh) : acceptCh[i] = acceptCh[j] => i = j
SentOnce ==
  \A d \in Deplexers :
    pc[d] = "chSend" => /\ pc[frame[d][1]] = "none"
                        /\ \A i \in 1 .. Len(acceptCh) : acceptCh[i] # frame[d][1]

(* Who won the compare-and-swap on a stream is alone in setting its entry  *)
(* to nil, and finds it live.                                              *)
Closing(t) == pc[t] \in {"csSend", "csNil"}
ClosesAlone ==
  /\ \A t \in Threads : Closing(t) => sclosed[StreamOf(t)] /\ streams[StreamOf(t)] = "live"
  /\ \A t, u \in Threads :
       Closing(t) /\ Closing(u) /\ StreamOf(t) = StreamOf(u) => t = u

IInv ==
  /\ Shape /\ Guarded /\ MapSound /\ IdsDistinct /\ OwnMade /\ OnlyMade
  /\ FramesHeld /\ Roles /\ Unserved /\ SentOnce /\ ClosesAlone
  /\ NoRemoteStreamSurvives

(* The kinds of goroutines do not overlap. *)
LEMMA Kinds ==
  /\ Deplexers \subseteq Threads /\ Openers \subseteq Threads /\ Accepters \subseteq Threads
  /\ Closers \subseteq Threads /\ Timers \subseteq Threads /\ RemoteIds \subseteq Threads
  /\ RemoteIds \subseteq StreamIds /\ LocalIds \subseteq StreamIds
  /\ \A s \in StreamIds : s \in RemoteIds <=> s \notin LocalIds
  /\ NoOne \notin StreamIds
BY DEF Threads, StreamIds

(* The invariant holds of a new session. *)
LEMMA InitIInv == Init => IInv
<1> SUFFICES ASSUME Init PROVE IInv
  OBVIOUS
<1> USE Kinds
<1>1. /\ pc \in [Threads -> Labels]
      /\ \A d \in Deplexers : pc[d] = "read"
      /\ \A o \in Openers : pc[o] = "open"
      /\ \A u \in RemoteIds : pc[u] = "none"
      /\ \A t \in Threads : pc[t] \in {"read", "open", "accept", "idle", "none"}
  BY DEF Init, Labels
<1>2. Shape
  <2>1. inflight \subseteq Frames
    BY DEF Init, Frames
  <2> QED
    BY <1>1, <2>1 DEF Init, Shape
<1>3. Guarded /\ NoRemoteStreamSurvives
  BY <1>1 DEF Init, Guarded, NoSendOnClosedChannel, NoRemoteStreamSurvives
<1>4. MapSound /\ IdsDistinct /\ OwnMade
  BY <1>1 DEF Init, MapSound, IdsDistinct, OwnMade, Made
<1>5. OnlyMade
  <2>1. \A f \in inflight : f # Fin => f[1] \in RemoteIds
    BY DEF Init
  <2> QED
    BY <1>1, <2>1 DEF Init, OnlyMade, WireMade, FramesMade, QueueMade, ServedMade
<1>6. FramesHeld /\ Roles /\ Unserved /\ SentOnce /\ ClosesAlone
  BY <1>1 DEF Init, FramesHeld, Roles, Unserved, SentOnce, ClosesAlone, Closing
<1> QED
  BY <1>2, <1>3, <1>4, <1>5, <1>6 DEF IInv

(* A stream that was made stays made when entries only leave the map with  *)
(* their stream closed.                                                    *)
Onward ==
  \A s \in StreamIds : /\ sclosed[s] => sclosed'[s]
                       /\ streams'[s] = "absent" => streams[s] = "absent" \/ sclosed'[s]

(* So what is made of what is held of the streams stays so. *)
LEMMA MadeStays ==
  ASSUME IInv, Onward, NEW s \in StreamIds, Made(s)
  PROVE  Made(s)'
BY DEF Onward, Made

(* The stream a goroutine closes was made, and is live if it is open. *)
LEMMA StreamOfMade ==
  ASSUME IInv, NEW t \in Threads, pc[t] \in {"using", "recvFrame", "csNil"},
         t \in Deplexers \cup Openers \cup RemoteIds,
         t \in Openers \cup RemoteIds => pc[t] # "recvFrame"
  PROVE  /\ StreamOf(t) \in StreamIds /\ Made(StreamOf(t))
         /\ ~sclosed[StreamOf(t)] => streams[StreamOf(t)] = "live"
<1> USE Kinds
<1>1. StreamOf(t) \in StreamIds /\ Made(StreamOf(t))
  <2>1. CASE t \in Deplexers
    BY <2>1 DEF StreamOf, IInv, Shape, FramesHeld, OnlyMade, FramesMade
  <2>2. CASE t \in Openers
    <3>1. StreamOf(t) = own[t] /\ own[t] # NoOne
      BY <2>2 DEF StreamOf, IInv, IdsDistinct
    <3> QED
      BY <2>2, <3>1 DEF IInv, Shape, OwnMade
  <2>3. CASE t \in RemoteIds
    BY <2>3 DEF StreamOf, IInv, OnlyMade, ServedMade
  <2> QED
    BY <2>1, <2>2, <2>3
<1> QED
  BY <1>1 DEF Made, IInv, Shape, MapSound

(* Goroutine t moves on.  It may win the compare-and-swap on its stream,   *)
(* set the entry of the stream it won to nil, and be through with its      *)
(* frame.                                                                  *)
Moves(t, label) ==
  /\ Goto(t, label)
  /\ pc[t] \notin {"chSend", "openStore", "none", "done"}
  /\ pc[t] = "open" => label = "done"
  /\ label \in Labels \ {"chSend", "open", "openStore", "openIncr", "using"}
  /\ label \in {"sweep", "passiveSweep"} => closed'
  /\ t \in Deplexers => /\ label \in {"incr", "recvFrame", "csNil"} => frame'[t] # NoOne
                        /\ label # "csSend"
  /\ closed => closed'
  /\ UNCHANGED <<nextStreamID, streamsM, acceptCh, chClosed, own>>
  /\ inflight' \subseteq inflight
  /\ frame' \in {frame, FrameDone(t)}
  /\ streams' \in [StreamIds -> {"absent", "live", "nil"}]
  /\ sclosed' \in [StreamIds -> BOOLEAN]
  /\ \A s \in StreamIds :
       \/ streams'[s] = streams[s]
       \/ streams'[s] = "nil" /\ Closing(t) /\ s = StreamOf(t) /\ label = "csDecr"
  /\ \A s \in StreamIds : sclosed'[s] = sclosed[s] \/ (sclosed'[s] /\ streams[s] = "live")
  /\ label \in {"csSend", "csNil"} =>
       /\ t \in Deplexers \cup Openers \cup RemoteIds
       /\ frame' = frame
       /\ StreamOf(t) \in StreamIds
       /\ Closing(t) \/ (~sclosed[StreamOf(t)] /\ streams[StreamOf(t)] = "live")
       /\ sclosed'[StreamOf(t)]

(* Such a step keeps the invariant. *)
LEMMA MovesKeeps ==
  ASSUME IInv, NEW t \in Threads, NEW label, Moves(t, label)
  PROVE  IInv'
<1> USE Kinds
<1>1. /\ \A u \in Threads \ {t} : pc'[u] = pc[u]
      /\ pc'[t] = label
  BY DEF Moves, Goto, IInv, Shape
<1>2. \A d \in Deplexers : frame'[d] = frame[d] \/ (d = t /\ frame'[d] = NoOne)
  BY DEF Moves, FrameDone
<1>3. Shape'
  <2>1. frame' \in [Deplexers -> (StreamIds \X {0, 1}) \cup {NoOne}]
    BY DEF Moves, FrameDone, IInv, Shape
  <2>2. pc' \in [Threads -> Labels]
    BY DEF Moves, Goto, IInv, Shape
  <2> QED
    BY <2>1, <2>2 DEF Moves, IInv, Shape
<1>4. Guarded'
  BY <1>1 DEF Moves, IInv, Guarded, NoSendOnClosedChannel
<1>5. Closing(t) => sclosed[StreamOf(t)] /\ streams[StreamOf(t)] = "live"
  BY DEF IInv, ClosesAlone
<1>6. Onward
  BY DEF Moves, Onward, IInv, Shape
<1>7. \A s \in StreamIds : Made(s)' <=> Made(s)
  BY <1>5, <1>6, MadeStays DEF Moves, Made
<1>8. MapSound' /\ NoRemoteStreamSurvives'
  BY <1>5 DEF Moves, IInv, Shape, MapSound, NoRemoteStreamSurvives
<1>9. IdsDistinct'
  BY <1>1 DEF Moves, IInv, IdsDistinct
<1>10. OwnMade'
  <2>1. \A o \in Openers : own[o] # NoOne => own[o] \in StreamIds
    BY DEF IInv, Shape
  <2> QED
    BY <1>1, <1>7, <2>1 DEF Moves, IInv, OwnMade
<1>11. OnlyMade'
  <2>1. WireMade' /\ QueueMade'
    BY <1>7 DEF Moves, IInv, Shape, OnlyMade, WireMade, QueueMade
  <2>2. FramesMade'
    BY <1>2, <1>7 DEF IInv, Shape, OnlyMade, FramesMade
  <2>3. ServedMade'
    BY <1>1, <1>7 DEF Moves, IInv, OnlyMade, ServedMade
  <2> QED
    BY <2>1, <2>2, <2>3 DEF OnlyMade
<1>12. FramesHeld' /\ Roles'
  BY <1>1, <1>2 DEF Moves, IInv, FramesHeld, Roles
<1>13. Unserved'
  <2>1. \A i \in 1 .. Len(acceptCh) : acceptCh[i] \in Threads /\ acceptCh[i] # t
    BY DEF Moves, IInv, Shape, Unserved
  <2> QED
    BY <1>1, <2>1 DEF Moves, IInv, Unserved
<1>14. SentOnce'
  <2>1. ASSUME NEW d \in Deplexers, pc'[d] = "chSend"
        PROVE  pc[d] = "chSend" /\ frame'[d] = frame[d] /\ frame[d][1] \in Threads \ {t}
    BY <1>1, <1>2, <2>1 DEF Moves, IInv, FramesHeld, SentOnce
  <2> QED
    BY <1>1, <2>1 DEF Moves, IInv, SentOnce
<1>15. ClosesAlone'
  <2>1. ASSUME NEW u \in Threads, Closing(u)'
        PROVE  /\ StreamOf(u)' = StreamOf(u)
               /\ Closing(u) \/ (u = t /\ ~sclosed[StreamOf(t)])
               /\ u # t => Closing(u)
    <3>1. CASE u = t
      BY <1>1, <2>1, <3>1 DEF Moves, Closing, StreamOf
    <3>2. CASE u # t
      BY <1>1, <1>2, <2>1, <3>2 DEF Moves, Closing, StreamOf
    <3> QED
      BY <3>1, <3>2
  <2>2. ASSUME NEW u \in Threads, Closing(u)'
        PROVE  sclosed'[StreamOf(u)] /\ streams'[StreamOf(u)] = "live"
    <3>1. CASE u = t
      BY <1>1, <1>5, <2>2, <3>1 DEF Moves, Closing
    <3>2. CASE u # t
      <4>1. Closing(u) /\ sclosed[StreamOf(u)] /\ streams[StreamOf(u)] = "live"
        BY <2>1, <2>2, <3>2 DEF IInv, ClosesAlone
      <4>2. StreamOf(u) \in StreamIds
        BY <2>2, <3>2, <4>1 DEF IInv, Shape, Roles, Closing, StreamOf, FramesHeld, IdsDistinct
      <4>3. ~(Closing(t) /\ StreamOf(u) = StreamOf(t))
        BY <3>2, <4>1 DEF IInv, ClosesAlone
      <4> QED
        BY <4>1, <4>2, <4>3 DEF Moves
    <3> QED
      BY <3>1, <3>2
  <2>3. ASSUME NEW u \in Threads, NEW v \in Threads, Closing(u)', Closing(v)',
               StreamOf(u) = StreamOf(v)
        PROVE  u = v
    BY <2>1, <2>3 DEF IInv, ClosesAlone
  <2> QED
    BY <2>1, <2>2, <2>3 DEF ClosesAlone
<1> QED
  BY <1>3, <1>4, <1>8, <1>9, <1>10, <1>11, <1>12, <1>13, <1>14, <1>15 DEF IInv

(* Deplexers: a frame that closes the session, one that is dropped, the    *)
(* increment for a new stream, and a Read that fails.                      *)
LEMMA DeplexerMoves ==
  ASSUME IInv, NEW d \in Deplexers,
         \/ RecvFin(d) \/ RecvIncr(d) \/ ReadError(d)
         \/ \E f \in inflight \ {Fin} : RecvDropped(d, f)
  PROVE  IInv'
<1> USE Kinds
<1>1. CASE RecvFin(d) \/ ReadError(d)
  <2>1. PICK label \in {"passiveSweep", "read", "done"} : Goto(d, label) /\ closed'
    BY <1>1 DEF RecvFin, ReadError, CASSession
  <2>2. /\ pc[d] = "read"
        /\ UNCHANGED <<nextStreamID, streamsM, streams, sclosed, acceptCh, chClosed, own, frame>>
        /\ inflight' \subseteq inflight
    BY <1>1 DEF RecvFin, ReadError, confVars, streamVars, chVars, netVars
  <2>3. Moves(d, label)
    BY <2>1, <2>2 DEF Moves, Labels, IInv, Shape
  <2> QED
    BY <2>3, MovesKeeps
<1>2. CASE RecvIncr(d)
  <2>1. Moves(d, "recvFrame")
    BY <1>2 DEF RecvIncr, Moves, Labels, IInv, Shape, FramesHeld, confVars, streamVars, chVars,
                netVars
  <2> QED
    BY <2>1, MovesKeeps
<1>3. ASSUME NEW f \in inflight \ {Fin}, RecvDropped(d, f) PROVE IInv'
  <2>1. Goto(d, "read")
    BY <1>3 DEF RecvDropped, TakeFrame, Goto, IInv, Shape
  <2>2. Moves(d, "read")
    BY <1>3, <2>1 DEF RecvDropped, TakeFrame, Moves, Labels, IInv, Shape, confVars, chVars
  <2> QED
    BY <2>2, MovesKeeps
<1> QED
  BY <1>1, <1>2, <1>3

(* closeStream's CompareAndSwap on the stream of goroutine t: who finds it *)
(* open goes on.                                                           *)
LEMMA CASStreamCloses ==
  ASSUME IInv, NEW t \in Threads, NEW s \in StreamIds, NEW next, CASStream(t, s, next),
         ~sclosed[s] => streams[s] = "live"
  PROVE  /\ sclosed' \in [StreamIds -> BOOLEAN]
         /\ \A x \in StreamIds : sclosed'[x] = sclosed[x] \/ (sclosed'[x] /\ streams[x] = "live")
         /\ \/ Goto(t, next) /\ ~sclosed[s] /\ sclosed'[s]
            \/ \E label \in {"read", "idle", "done"} : Goto(t, label)
<1>1. AfterClose(t) \in {"read", "idle", "done"}
  BY DEF AfterClose
<1> QED
  BY Zenon, <1>1 DEF CASStream, IInv, Shape

(* recvFrame, which may close its stream. *)
LEMMA RecvFrameKeeps ==
  ASSUME IInv, NEW d \in Deplexers, RecvFrame(d)
  PROVE  IInv'
<1> USE Kinds
<1> DEFINE s == frame[d][1]
<1>1. /\ s = StreamOf(d) /\ s \in StreamIds /\ frame[d] # NoOne
      /\ ~sclosed[s] => streams[s] = "live"
  <2>1. pc[d] = "recvFrame" /\ s = StreamOf(d)
    BY DEF RecvFrame, StreamOf
  <2> QED
    BY <2>1, StreamOfMade DEF IInv, FramesHeld
<1>2. /\ sclosed' \in [StreamIds -> BOOLEAN]
      /\ \A x \in StreamIds : sclosed'[x] = sclosed[x] \/ (sclosed'[x] /\ streams[x] = "live")
      /\ \/ Goto(d, "csNil") /\ ~sclosed[s] /\ sclosed'[s]
         \/ \E label \in {"read", "idle", "done"} : Goto(d, label)
  <2>1. CASE CASStream(d, s, "csNil")
    BY <1>1, <2>1, CASStreamCloses
  <2>2. CASE Goto(d, "read") /\ UNCHANGED sclosed
    BY <2>2 DEF IInv, Shape
  <2> QED
    BY <2>1, <2>2 DEF RecvFrame
<1>3. PICK label \in {"csNil", "read", "idle", "done"} :
        Goto(d, label) /\ (label = "csNil" => ~sclosed[s] /\ sclosed'[s])
  BY <1>2
<1>4. frame' = IF label = "csNil" THEN frame ELSE FrameDone(d)
  BY <1>3 DEF RecvFrame, Goto, IInv, Shape
<1>5. Moves(d, label)
  BY <1>1, <1>2, <1>3, <1>4 DEF RecvFrame, Moves, Labels, IInv, Shape, confVars, chVars
<1> QED
  BY <1>5, MovesKeeps

(* Stream.Close by the goroutine that uses the stream. *)
LEMMA StreamCloseKeeps ==
  ASSUME IInv, NEW u \in Openers \cup RemoteIds, StreamClose(u)
  PROVE  IInv'
<1> USE Kinds
<1>1. u \in Threads /\ u \notin Deplexers /\ pc[u] = "using"
  BY DEF StreamClose
<1>2. StreamOf(u) \in StreamIds /\ (~sclosed[StreamOf(u)] => streams[StreamOf(u)] = "live")
  BY <1>1, StreamOfMade
<1>3. /\ sclosed' \in [StreamIds -> BOOLEAN]
      /\ \A x \in StreamIds : sclosed'[x] = sclosed[x] \/ (sclosed'[x] /\ streams[x] = "live")
      /\ \/ Goto(u, "csSend") /\ ~sclosed[StreamOf(u)] /\ sclosed'[StreamOf(u)]
         \/ \E label \in {"read", "idle", "done"} : Goto(u, label)
  BY <1>1, <1>2, CASStreamCloses DEF StreamClose
<1>4. PICK label \in {"csSend", "read", "idle", "done"} :
        Goto(u, label) /\ (label = "csSend" => ~sclosed[StreamOf(u)] /\ sclosed'[StreamOf(u)])
  BY <1>3
<1>5. Moves(u, label)
  BY <1>1, <1>2, <1>3, <1>4 DEF StreamClose, Moves, Labels, IInv, Shape, confVars, chVars,
                                netVars
<1> QED
  BY <1>1, <1>5, MovesKeeps

(* The steps of a close but the sweep. *)
LEMMA CloseKeeps ==
  ASSUME IInv, NEW t \in Threads,
         \/ CloseStreamSend(t) \/ CloseStreamNil(t) \/ CloseStreamDecr(t)
         \/ SessionClose(t) \/ SendNotice(t) \/ CloseAll(t)
  PROVE  IInv'
<1> USE Kinds
<1>a. AfterClose(t) \in {"read", "idle", "done"}
  BY DEF AfterClose
<1>1. CASE CloseStreamSend(t)
  <2>1. /\ t \in Openers \cup RemoteIds /\ t \notin Deplexers
        /\ StreamOf(t) \in StreamIds /\ sclosed[StreamOf(t)] /\ Closing(t)
    BY <1>1 DEF CloseStreamSend, IInv, Shape, FramesHeld, Roles, IdsDistinct, ClosesAlone,
                Closing, StreamOf
  <2>2. PICK label \in {"csNil", "passiveSweep", "done"} :
          /\ Goto(t, label)
          /\ closed => closed'
          /\ label = "passiveSweep" => closed'
    BY <1>1 DEF CloseStreamSend, CASSession
  <2>3. Moves(t, label)
    BY <1>1, <2>1, <2>2 DEF CloseStreamSend, Moves, Labels, IInv, Shape, confVars, streamVars,
                            chVars, netVars
  <2> QED
    BY <2>3, MovesKeeps
<1>2. CASE CloseStreamNil(t)
  <2>1. /\ streams' \in [StreamIds -> {"absent", "live", "nil"}]
        /\ \A s \in StreamIds : \/ streams'[s] = streams[s]
                                \/ streams'[s] = "nil" /\ Closing(t) /\ s = StreamOf(t)
    BY Zenon, <1>2 DEF CloseStreamNil, Closing, IInv, Shape
  <2>2. Moves(t, "csDecr")
    BY <1>2, <2>1 DEF CloseStreamNil, Moves, Labels, IInv, Shape, confVars, chVars, netVars
  <2> QED
    BY <2>2, MovesKeeps
<1>3. CASE CloseStreamDecr(t)
  <2>1. PICK label \in {"Close", "read", "idle", "done"} : Goto(t, label)
    BY <1>3, <1>a DEF CloseStreamDecr
  <2>2. Moves(t, label)
    BY <1>3, <2>1 DEF CloseStreamDecr, Moves, Labels, IInv, Shape, confVars, streamVars,
                      chVars, netVars
  <2> QED
    BY <2>2, MovesKeeps
<1>4. CASE SessionClose(t)
  <2>1. PICK label \in {"sweep", "read", "idle", "done"} : Goto(t, label) /\ closed'
    BY <1>4, <1>a DEF SessionClose, CASSession
  <2>2. Moves(t, label)
    BY <1>4, <2>1 DEF SessionClose, Moves, Labels, IInv, Shape, confVars, streamVars,
                      chVars, netVars
  <2> QED
    BY <2>2, MovesKeeps
<1>5. CASE SendNotice(t) \/ CloseAll(t)
  <2>1. PICK label \in {"closeAll", "read", "idle", "done"} : Goto(t, label)
    BY <1>5, <1>a DEF SendNotice, CloseAll
  <2>2. Moves(t, label)
    BY <1>5, <2>1 DEF SendNotice, CloseAll, Moves, Labels, IInv, Shape, confVars, streamVars,
                      chVars, netVars
  <2> QED
    BY <2>2, MovesKeeps
<1> QED
  BY <1>1, <1>2, <1>3, <1>4, <1>5

(* The remaining moves: a refused opener, the accepter, a timer that fires. *)
LEMMA IdleKeeps ==
  ASSUME IInv, NEW t \in Threads,
         \/ OpenRefused(t) \/ Accept(t) \/ AcceptBroken(t)
         \/ \E e \in DOMAIN timers : CheckTimeout(t, e)
  PROVE  IInv'
<1>1. PICK label \in {"done", "acceptRecv", "Close", "idle"} :
        Goto(t, label) /\ (pc[t] = "open" => label = "done")
  BY DEF OpenRefused, Accept, AcceptBroken, CheckTimeout
<1>2. Moves(t, label)
  BY <1>1 DEF OpenRefused, Accept, AcceptBroken, CheckTimeout, Moves, Labels, IInv, Shape,
              confVars, streamVars, chVars, netVars
<1> QED
  BY <1>2, MovesKeeps

(* A step in which nobody wins a compare-and-swap, and the streams being   *)
(* closed stay in the map.                                                 *)
LEMMA ClosesAloneStays ==
  ASSUME IInv,
         \A u \in Threads : Closing(u)' => Closing(u) /\ StreamOf(u)' = StreamOf(u),
         \A s \in StreamIds : sclosed[s] => sclosed'[s],
         \A s \in StreamIds : streams[s] = "live" /\ sclosed[s] => streams'[s] = "live"
  PROVE  ClosesAlone'
<1>1. ASSUME NEW u \in Threads, Closing(u)
      PROVE  StreamOf(u) \in StreamIds
  BY <1>1, Kinds DEF IInv, Shape, Roles, Closing, StreamOf, FramesHeld, IdsDistinct
<1> QED
  BY <1>1 DEF IInv, ClosesAlone

(* A frame of a stream that is in the map. *)
LEMMA RecvExistingKeeps ==
  ASSUME IInv, NEW d \in Deplexers, NEW f \in inflight \ {Fin}, RecvExisting(d, f)
  PROVE  IInv'
<1> USE Kinds DEF TakeFrame, RecvExisting, confVars, chVars
<1>1. f \in StreamIds \X {0, 1} /\ f[1] \in StreamIds /\ f # NoOne /\ Made(f[1])
  BY DEF IInv, Shape, Frames, Made
<1>2. \A u \in Threads : pc'[u] = IF u = d THEN "recvFrame" ELSE pc[u]
  BY DEF Goto, IInv, Shape
<1>3. \A e \in Deplexers : frame'[e] = IF e = d THEN f ELSE frame[e]
  BY DEF IInv, Shape
<1>4. \A s : Made(s)' = Made(s)
  BY DEF Made
<1>5. Shape'
  BY <1>1 DEF IInv, Shape, Goto, Labels
<1>6. Guarded' /\ MapSound' /\ IdsDistinct' /\ NoRemoteStreamSurvives'
  BY <1>2 DEF IInv, Guarded, NoSendOnClosedChannel, MapSound, IdsDistinct,
              NoRemoteStreamSurvives
<1>7. OwnMade' /\ OnlyMade'
  BY <1>1, <1>2, <1>3, <1>4 DEF IInv, OwnMade, OnlyMade, WireMade, FramesMade, QueueMade,
                                ServedMade
<1>8. FramesHeld' /\ Roles' /\ SentOnce'
  BY <1>1, <1>2, <1>3 DEF IInv, FramesHeld, Roles, SentOnce
<1>9. Unserved'
  BY <1>2 DEF IInv, Shape, Unserved
<1>10. ClosesAlone'
  BY <1>2, <1>3, ClosesAloneStays DEF Closing, StreamOf
<1> QED
  BY <1>5, <1>6, <1>7, <1>8, <1>9, <1>10 DEF IInv

(* The first frame of a stream: it is the remote's, for the frames of one  *)
(* opened here only come after it was stored; and it was never closed, for *)
(* a closed stream only leaves the map when the session is closed.         *)
LEMMA RecvNewIsNew ==
  ASSUME IInv, NEW d \in Deplexers, NEW f \in inflight \ {Fin}, RecvNew(d, f)
  PROVE  /\ f \in StreamIds \X {0, 1} /\ f # NoOne
         /\ f[1] \in RemoteIds /\ ~chClosed /\ ~Made(f[1])
<1> USE Kinds DEF TakeFrame, RecvNew
<1>1. f \in StreamIds \X {0, 1} /\ f # NoOne /\ f[1] \in StreamIds
  BY DEF IInv, Shape, Frames
<1>2. ~chClosed
  BY DEF IInv, Guarded
<1>3. ~Made(f[1])
  BY <1>1, <1>2 DEF IInv, MapSound, Made
<1>4. f[1] \notin LocalIds
  BY <1>3 DEF IInv, OnlyMade, WireMade
<1> QED
  BY <1>1, <1>2, <1>3, <1>4

(* It is stored, and streamsM kept. *)
LEMMA RecvNewKeeps ==
  ASSUME IInv, NEW d \in Deplexers, NEW f \in inflight \ {Fin}, RecvNew(d, f)
  PROVE  IInv'
<1> USE Kinds
<1>1. /\ f \in StreamIds \X {0, 1} /\ f # NoOne
      /\ f[1] \in RemoteIds /\ ~chClosed /\ ~Made(f[1])
  BY RecvNewIsNew
<1> USE DEF TakeFrame, RecvNew, confVars, chVars
<1>2. \A u \in Threads : pc'[u] = IF u = d THEN "chSend" ELSE pc[u]
  BY DEF Goto, IInv, Shape
<1>3. \A e \in Deplexers : frame'[e] = IF e = d THEN f ELSE frame[e]
  BY DEF IInv, Shape
<1>4. \A s \in StreamIds : streams'[s] = IF s = f[1] THEN "live" ELSE streams[s]
  BY DEF IInv, Shape
<1>5. \A s \in StreamIds : Made(s)' <=> Made(s) \/ s = f[1]
  BY <1>4 DEF Made
<1>6. Shape'
  BY <1>1 DEF IInv, Shape, Goto, Labels
<1>7. Guarded' /\ MapSound' /\ IdsDistinct' /\ NoRemoteStreamSurvives'
  BY <1>1, <1>2, <1>4 DEF IInv, Guarded, NoSendOnClosedChannel, MapSound, IdsDistinct,
                          NoRemoteStreamSurvives
<1>8. OwnMade'
  <2>1. \A o \in Openers : own[o] # NoOne => own[o] \in LocalIds
    BY DEF IInv, Shape
  <2> QED
    BY <1>1, <1>2, <1>5, <2>1 DEF IInv, OwnMade
<1>9. OnlyMade'
  <2>1. WireMade' /\ ServedMade'
    BY <1>2, <1>5 DEF IInv, OnlyMade, WireMade, ServedMade
  <2>2. QueueMade'
    BY <1>5 DEF IInv, Shape, OnlyMade, QueueMade
  <2>3. FramesMade'
    BY <1>1, <1>3, <1>5 DEF IInv, Shape, OnlyMade, FramesMade
  <2> QED
    BY <2>1, <2>2, <2>3 DEF OnlyMade
<1>10. FramesHeld' /\ Roles'
  BY <1>1, <1>2, <1>3 DEF IInv, FramesHeld, Roles
<1>11. Unserved'
  BY <1>2 DEF IInv, Shape, Unserved
<1>12. SentOnce'
  <2>1. pc[f[1]] = "none" /\ \A i \in 1 .. Len(acceptCh) : acceptCh[i] # f[1]
    BY <1>1 DEF IInv, OnlyMade, ServedMade, QueueMade
  <2>2. \A e \in Deplexers : pc'[e] = "chSend" => e = d
    BY <1>2 DEF IInv, Guarded
  <2> QED
    BY <1>1, <1>2, <1>3, <2>1, <2>2 DEF SentOnce
<1>13. ClosesAlone'
  BY <1>2, <1>3, <1>4, ClosesAloneStays DEF Closing, StreamOf
<1> QED
  BY <1>6, <1>7, <1>8, <1>9, <1>10, <1>11, <1>12, <1>13 DEF IInv

(* The channel send, after which streamsM is free. *)
LEMMA ChSendKeeps ==
  ASSUME IInv, NEW d \in Deplexers, ChSend(d)
  PROVE  IInv'
<1> USE Kinds DEF ChSend, confVars, netVars
<1> DEFINE s == frame[d][1]
<1>1. /\ frame[d] # NoOne /\ s \in RemoteIds /\ Made(s) /\ pc[s] = "none"
      /\ \A i \in 1 .. Len(acceptCh) : acceptCh[i] # s
  BY DEF IInv, OnlyMade, FramesHeld, FramesMade, SentOnce
<1>2. \A u \in Threads : pc'[u] = IF u = d THEN "incr" ELSE pc[u]
  BY DEF Goto, IInv, Shape
<1>3. \A x : Made(x)' = Made(x)
  BY DEF Made
<1>4. /\ acceptCh' \in Seq(RemoteIds) /\ Len(acceptCh') = Len(acceptCh) + 1
      /\ \A i \in 1 .. Len(acceptCh') :
           acceptCh'[i] = IF i = Len(acceptCh) + 1 THEN s ELSE acceptCh[i]
  BY <1>1 DEF IInv, Shape
<1>5. Shape'
  BY <1>4 DEF IInv, Shape, Goto, Labels
<1>6. streamsM = d /\ \A e \in Deplexers : pc'[e] # "chSend"
  BY <1>2 DEF IInv, Guarded
<1>7. Guarded' /\ MapSound' /\ IdsDistinct' /\ NoRemoteStreamSurvives'
  BY <1>2, <1>6 DEF IInv, Guarded, NoSendOnClosedChannel, MapSound, IdsDistinct,
                    NoRemoteStreamSurvives
<1>8. OwnMade'
  BY <1>2, <1>3 DEF IInv, OwnMade
<1>9. OnlyMade'
  <2>1. QueueMade'
    <3>1. Len(acceptCh) \in Nat
      BY DEF IInv, Shape
    <3> QED
      BY <1>1, <1>3, <1>4, <3>1 DEF IInv, OnlyMade, QueueMade
  <2> QED
    BY <1>2, <1>3, <2>1 DEF IInv, OnlyMade, WireMade, FramesMade, ServedMade
<1>10. FramesHeld' /\ Roles' /\ SentOnce'
  BY <1>1, <1>2, <1>6 DEF IInv, FramesHeld, Roles, SentOnce
<1>11. Unserved'
  <2>1. Len(acceptCh) \in Nat /\ \A i \in 1 .. Len(acceptCh) : acceptCh[i] \in RemoteIds
    BY DEF IInv, Shape
  <2> QED
    BY <1>1, <1>2, <1>4, <2>1 DEF IInv, Unserved
<1>12. ClosesAlone'
  BY <1>2, ClosesAloneStays DEF Closing, StreamOf
<1> QED
  BY <1>5, <1>7, <1>8, <1>9, <1>10, <1>11, <1>12 DEF IInv

(* OpenStream takes an id nobody else was given. *)
LEMMA OpenStreamKeeps ==
  ASSUME IInv, NEW o \in Openers, OpenStream(o)
  PROVE  IInv'
<1> USE Kinds
<1>1. own[o] = NoOne /\ nextStreamID # NoOne /\ nextStreamID \in LocalIds
  BY DEF OpenStream, IInv, Shape, IdsDistinct, LocalIds
<1>2. PICK id \in {NoOne, nextStreamID}, label \in {"done", "openStore"} :
        /\ \A p \in Openers : own'[p] = IF p = o THEN id ELSE own[p]
        /\ \A u \in Threads : pc'[u] = IF u = o THEN label ELSE pc[u]
        /\ id # NoOne <=> label = "openStore"
  <2>1. CASE singleplex /\ nextStreamID > 1
    BY <1>1, <2>1 DEF OpenStream, Goto, IInv, Shape
  <2>2. CASE ~(singleplex /\ nextStreamID > 1)
    BY <1>1, <2>2 DEF OpenStream, Goto, IInv, Shape
  <2> QED
    BY <2>1, <2>2
<1> USE DEF OpenStream, streamVars, chVars, netVars
<1>3. \A x : Made(x)' = Made(x)
  BY DEF Made
<1>4. Shape'
  <2>1. own' \in [Openers -> LocalIds \cup {NoOne}]
    BY <1>1 DEF IInv, Shape
  <2>2. pc' \in [Threads -> Labels]
    BY DEF IInv, Shape, Goto, Labels
  <2> QED
    BY <2>1, <2>2 DEF IInv, Shape
<1>5. Guarded' /\ MapSound' /\ NoRemoteStreamSurvives'
  BY <1>2 DEF IInv, Guarded, NoSendOnClosedChannel, MapSound, NoRemoteStreamSurvives
<1>6. \A p \in Openers : own[p] # NoOne => own[p] \in Nat /\ own[p] < nextStreamID
  BY DEF IInv, Shape, IdsDistinct, LocalIds
<1>7. IdsDistinct'
  <2>1. \A p \in Openers : own'[p] # NoOne => own'[p] < nextStreamID'
    BY <1>2, <1>6 DEF IInv, Shape
  <2>2. \A p, q \in Openers : own'[p] = own'[q] /\ own'[p] # NoOne => p = q
    BY <1>2, <1>6 DEF IInv, Shape, IdsDistinct
  <2> QED
    BY <1>2, <2>1, <2>2 DEF IInv, IdsDistinct
<1>8. OwnMade'
  <2>1. \A x \in LocalIds : Made(x) => x < nextStreamID
    BY DEF IInv, OwnMade
  <2>2. \A x \in LocalIds : Made(x)' => x < nextStreamID'
    BY <1>3, <2>1 DEF IInv, Shape, LocalIds
  <2>3. ~Made(nextStreamID)
    BY <1>1, <2>1 DEF IInv, Shape
  <2> QED
    BY <1>2, <1>3, <2>2, <2>3 DEF IInv, OwnMade
<1>9. OnlyMade' /\ FramesHeld' /\ Roles' /\ SentOnce'
  BY <1>2, <1>3 DEF IInv, OnlyMade, WireMade, FramesMade, QueueMade, ServedMade, FramesHeld,
                    Roles, SentOnce
<1>10. Unserved'
  BY <1>2 DEF IInv, Shape, Unserved
<1>11. ClosesAlone'
  BY <1>2, ClosesAloneStays DEF Closing, StreamOf
<1> QED
  BY <1>4, <1>5, <1>7, <1>8, <1>9, <1>10, <1>11 DEF IInv

(* The id an opener is about to store was never in the map. *)
LEMMA OpenStoreIsNew ==
  ASSUME IInv, NEW o \in Openers, pc[o] = "openStore"
  PROVE  own[o] \in LocalIds /\ ~Made(own[o])
BY DEF IInv, Shape, IdsDistinct, OwnMade

(* OpenStream puts it there. *)
LEMMA OpenStoreKeeps ==
  ASSUME IInv, NEW o \in Openers, OpenStore(o)
  PROVE  IInv'
<1> USE Kinds DEF OpenStore, confVars, chVars, netVars
<1>1. own[o] \in LocalIds /\ ~Made(own[o])
  BY OpenStoreIsNew
<1>2. \A u \in Threads : pc'[u] = IF u = o THEN "openIncr" ELSE pc[u]
  BY DEF Goto, IInv, Shape
<1>3. \A s \in StreamIds : streams'[s] = IF s = own[o] THEN "live" ELSE streams[s]
  BY DEF IInv, Shape
<1>4. \A s \in StreamIds : Made(s)' <=> Made(s) \/ s = own[o]
  BY <1>3 DEF Made
<1>5. Shape'
  BY Zenon DEF IInv, Shape, Goto, Labels
<1>6. Guarded' /\ MapSound' /\ IdsDistinct' /\ NoRemoteStreamSurvives'
  BY <1>1, <1>2, <1>3 DEF IInv, Guarded, NoSendOnClosedChannel, MapSound, IdsDistinct,
                          NoRemoteStreamSurvives
<1>7. OwnMade'
  <2>1. \A p \in Openers : own[p] # NoOne => own[p] \in StreamIds
    BY DEF IInv, Shape
  <2> QED
    BY <1>1, <1>2, <1>4, <2>1 DEF IInv, IdsDistinct, OwnMade
<1>8. OnlyMade'
  <2>1. WireMade' /\ ServedMade'
    BY <1>2, <1>4 DEF IInv, OnlyMade, WireMade, ServedMade
  <2>2. QueueMade' /\ FramesMade'
    BY <1>4 DEF IInv, Shape, OnlyMade, QueueMade, FramesMade
  <2> QED
    BY <2>1, <2>2 DEF OnlyMade
<1>9. FramesHeld' /\ Roles' /\ SentOnce'
  BY <1>2 DEF IInv, FramesHeld, Roles, SentOnce
<1>10. Unserved'
  BY <1>2 DEF IInv, Shape, Unserved
<1>11. ClosesAlone'
  BY <1>2, <1>3, ClosesAloneStays DEF Closing, StreamOf
<1> QED
  BY <1>5, <1>6, <1>7, <1>8, <1>9, <1>10, <1>11 DEF IInv

(* What is written to the stream brings the remote's answer. *)
LEMMA OpenIncrKeeps ==
  ASSUME IInv, NEW o \in Openers, OpenIncr(o)
  PROVE  IInv'
<1> USE Kinds DEF OpenIncr, confVars, streamVars, chVars
<1>1. own[o] \in LocalIds /\ Made(own[o])
  BY DEF IInv, Shape, IdsDistinct, OwnMade
<1>2. \A u \in Threads : pc'[u] = IF u = o THEN "using" ELSE pc[u]
  BY DEF Goto, IInv, Shape
<1>3. \A f \in inflight' : f \in inflight \/ (f \in StreamIds \X {0, 1} /\ f[1] = own[o])
  BY <1>1 DEF FramesOf
<1>4. \A x : Made(x)' = Made(x)
  BY DEF Made
<1>5. Shape'
  <2>1. inflight' \subseteq Frames
    BY <1>3 DEF IInv, Shape, Frames
  <2> QED
    BY <2>1 DEF IInv, Shape, Goto, Labels
<1>6. Guarded' /\ MapSound' /\ IdsDistinct' /\ NoRemoteStreamSurvives'
  BY <1>2 DEF IInv, Guarded, NoSendOnClosedChannel, MapSound, IdsDistinct,
              NoRemoteStreamSurvives
<1>7. OwnMade' /\ OnlyMade'
  BY <1>1, <1>2, <1>3, <1>4 DEF IInv, OwnMade, OnlyMade, WireMade, FramesMade, QueueMade,
                                ServedMade
<1>8. FramesHeld' /\ Roles' /\ SentOnce'
  BY <1>2 DEF IInv, FramesHeld, Roles, SentOnce
<1>9. Unserved'
  BY <1>2 DEF IInv, Shape, Unserved
<1>10. ClosesAlone'
  BY <1>2, ClosesAloneStays DEF Closing, StreamOf
<1> QED
  BY <1>5, <1>6, <1>7, <1>8, <1>9, <1>10 DEF IInv

(* The stream at the head of the channel gets its goroutine, or the        *)
(* session is given up.                                                    *)
LEMMA AcceptRecvKeeps ==
  ASSUME IInv, NEW a \in Accepters, AcceptRecv(a)
  PROVE  IInv'
<1> USE Kinds DEF AcceptRecv, confVars, streamVars, netVars
<1> DEFINE s == Head(acceptCh)
<1>1. /\ s \in RemoteIds /\ s = acceptCh[1] /\ 1 \in 1 .. Len(acceptCh)
      /\ acceptCh' \in Seq(RemoteIds) /\ Len(acceptCh) \in Nat
      /\ Len(acceptCh') = Len(acceptCh) - 1
      /\ \A i \in 1 .. Len(acceptCh') : /\ i + 1 \in 1 .. Len(acceptCh)
                                        /\ acceptCh'[i] = acceptCh[i + 1]
                                        /\ acceptCh'[i] \in RemoteIds
  <2>1. acceptCh \in Seq(RemoteIds) /\ acceptCh # << >> /\ acceptCh' = Tail(acceptCh)
    BY DEF IInv, Shape
  <2> QED
    BY <2>1
<1> HIDE DEF s
<1>2. Made(s) /\ pc[s] = "none"
  BY <1>1 DEF IInv, OnlyMade, QueueMade, Unserved
<1>3. /\ pc' \in [Threads -> Labels]
      /\ \A t \in Threads : \/ pc'[t] = pc[t]
                            \/ t = a /\ pc'[t] \in {"accept", "Close"}
                            \/ t = s /\ pc'[t] = "using"
  <2>1. CASE pc' = [pc EXCEPT ![a] = "accept", ![s] = "using"]
    <3>1. /\ pc \in [Threads -> Labels] /\ "accept" \in Labels /\ "using" \in Labels
      BY DEF IInv, Shape, Labels
    <3>2. pc' \in [Threads -> Labels]
      BY Zenon, <2>1, <3>1
    <3> QED
      BY <1>1, <2>1, <3>1, <3>2
  <2>2. CASE Goto(a, "Close")
    BY <2>2 DEF Goto, IInv, Shape, Labels
  <2> QED
    BY <2>1, <2>2 DEF s
<1>4. \A t \in Deplexers \cup Openers : pc'[t] = pc[t]
  BY <1>1, <1>3
<1>5. \A x : Made(x)' = Made(x)
  BY DEF Made
<1>6. Shape'
  BY <1>1, <1>3 DEF IInv, Shape
<1>7. Guarded' /\ MapSound' /\ IdsDistinct' /\ NoRemoteStreamSurvives'
  BY <1>3, <1>4 DEF IInv, Guarded, NoSendOnClosedChannel, MapSound, IdsDistinct,
                    NoRemoteStreamSurvives
<1>8. OwnMade' /\ FramesHeld' /\ Roles'
  BY <1>1, <1>3, <1>4, <1>5 DEF IInv, OwnMade, FramesHeld, Roles
<1>9. OnlyMade'
  <2>1. QueueMade'
    BY <1>1, <1>5 DEF IInv, OnlyMade, QueueMade
  <2>2. ServedMade'
    BY <1>2, <1>3, <1>5 DEF IInv, OnlyMade, ServedMade
  <2> QED
    BY <1>5, <2>1, <2>2 DEF IInv, OnlyMade, WireMade, FramesMade
<1>10. Unserved'
  <2>1. ASSUME NEW i \in 1 .. Len(acceptCh')
        PROVE  pc'[acceptCh'[i]] = "none"
    <3>1. acceptCh[i + 1] # s
      BY <1>1, <2>1 DEF IInv, Unserved
    <3> QED
      BY <1>1, <1>3, <2>1, <3>1 DEF IInv, Unserved
  <2>2. ASSUME NEW i \in 1 .. Len(acceptCh'), NEW j \in 1 .. Len(acceptCh'),
               acceptCh'[i] = acceptCh'[j]
        PROVE  i = j
    <3>1. i + 1 = j + 1
      BY <1>1, <2>2 DEF IInv, Unserved
    <3> QED
      BY <3>1
  <2> QED
    BY <2>1, <2>2 DEF Unserved
<1>11. SentOnce'
  <2>1. ASSUME NEW d \in Deplexers, pc'[d] = "chSend"
        PROVE  /\ pc'[frame[d][1]] = "none"
               /\ \A i \in 1 .. Len(acceptCh') : acceptCh'[i] # frame[d][1]
    <3>1. /\ frame[d][1] \in RemoteIds /\ pc[frame[d][1]] = "none"
          /\ \A i \in 1 .. Len(acceptCh) : acceptCh[i] # frame[d][1]
      BY <1>4, <2>1 DEF IInv, SentOnce, FramesHeld
    <3> QED
      BY <1>1, <1>3, <3>1
  <2> QED
    BY <2>1 DEF SentOnce
<1>12. ClosesAlone'
  BY <1>3, ClosesAloneStays DEF Closing, StreamOf
<1> QED
  BY <1>6, <1>7, <1>8, <1>9, <1>10, <1>11, <1>12 DEF IInv

(* The sweep finds streamsM free, so no deplexer is about to send; every   *)
(* live stream has been closed when it is through.                         *)
LEMMA SweepKeeps ==
  ASSUME IInv, NEW t \in Threads, CloseSessionSweep(t)
  PROVE  IInv'
<1> USE Kinds
<1>1. PICK label \in {"notice", "closeAll"} :
        \A u \in Threads : pc'[u] = IF u = t THEN label ELSE pc[u]
  BY DEF CloseSessionSweep, Goto, IInv, Shape
<1>2. /\ chClosed' /\ closed
      /\ \A s \in StreamIds : sclosed'[s] <=> sclosed[s] \/ streams[s] = "live"
      /\ \A s \in StreamIds :
           streams'[s] = IF streams[s] = "live" /\ ~sclosed[s] THEN "absent" ELSE streams[s]
  BY Zenon DEF CloseSessionSweep, Swept, Live, IInv, Guarded
<1>3. UNCHANGED <<nextStreamID, closed, streamsM, acceptCh, inflight, frame, own>>
  BY DEF CloseSessionSweep, confVars, netVars
<1>4. pc[t] \in {"sweep", "passiveSweep"} /\ streamsM = NoOne
  BY DEF CloseSessionSweep
<1>5. Shape'
  BY <1>3 DEF CloseSessionSweep, IInv, Shape, Goto, Labels
<1>6. \A s \in StreamIds : Made(s)' <=> Made(s)
  BY <1>2 DEF IInv, Shape, Made
<1>7. Guarded'
  BY <1>1, <1>2, <1>3, <1>4 DEF IInv, Guarded, NoSendOnClosedChannel
<1>8. MapSound' /\ NoRemoteStreamSurvives'
  BY <1>2 DEF IInv, Shape, MapSound, NoRemoteStreamSurvives
<1>9. IdsDistinct' /\ FramesHeld' /\ Roles' /\ SentOnce'
  BY <1>1, <1>3, <1>4 DEF IInv, IdsDistinct, FramesHeld, Roles, SentOnce
<1>10. OwnMade'
  <2>1. \A o \in Openers : own[o] # NoOne => own[o] \in StreamIds
    BY DEF IInv, Shape
  <2> QED
    BY <1>1, <1>3, <1>4, <1>6, <2>1 DEF IInv, OwnMade
<1>11. OnlyMade'
  <2>1. WireMade' /\ ServedMade'
    BY <1>1, <1>3, <1>4, <1>6 DEF IInv, OnlyMade, WireMade, ServedMade
  <2>2. QueueMade' /\ FramesMade'
    BY <1>3, <1>6 DEF IInv, Shape, OnlyMade, QueueMade, FramesMade
  <2> QED
    BY <2>1, <2>2 DEF OnlyMade
<1>12. Unserved'
  BY <1>1, <1>3, <1>4 DEF IInv, Shape, Unserved
<1>13. ClosesAlone'
  BY <1>1, <1>2, <1>3, <1>4, ClosesAloneStays DEF Closing, StreamOf
<1> QED
  BY <1>5, <1>7, <1>8, <1>9, <1>10, <1>11, <1>12, <1>13 DEF IInv
-----------------------------------------------------------------------------
(* A step that leaves the variables of the invariant alone. *)
LEMMA StutterKeeps ==
  ASSUME IInv,
         UNCHANGED <<nextStreamID, closed, streamsM, streams, sclosed, acceptCh, chClosed,
                     inflight, pc, frame, own>>
  PROVE  IInv'
<1>1. \A s : Made(s)' = Made(s)
  BY DEF Made
<1>2. OwnMade' /\ OnlyMade'
  BY <1>1 DEF IInv, OwnMade, OnlyMade, WireMade, FramesMade, QueueMade, ServedMade
<1>3. ClosesAlone'
  BY ClosesAloneStays DEF Closing, StreamOf
<1> QED
  BY <1>2, <1>3 DEF IInv, Shape, Guarded, NoSendOnClosedChannel, MapSound, IdsDistinct,
                    FramesHeld, Roles, Unserved, SentOnce, NoRemoteStreamSurvives

(* Every step keeps the invariant. *)
LEMMA NextIInv == IInv /\ [Next]_vars => IInv'
<1> SUFFICES ASSUME IInv, [Next]_vars PROVE IInv'
  OBVIOUS
<1> USE Kinds
<1>1. ASSUME NEW d \in Deplexers, DeplexerStep(d) PROVE IInv'
  BY <1>1, DeplexerMoves, RecvExistingKeeps, RecvNewKeeps, ChSendKeeps, RecvFrameKeeps
     DEF DeplexerStep
<1>2. ASSUME NEW d \in Deplexers, ConnDies(d) PROVE IInv'
  BY <1>2, StutterKeeps DEF ConnDies, confVars, streamVars, chVars
<1>3. ASSUME NEW o \in Openers, OpenerStep(o) PROVE IInv'
  BY <1>3, IdleKeeps, OpenStreamKeeps, OpenStoreKeeps, OpenIncrKeeps DEF OpenerStep
<1>4. ASSUME NEW a \in Accepters, AccepterStep(a) PROVE IInv'
  BY <1>4, IdleKeeps, AcceptRecvKeeps DEF AccepterStep
<1>5. ASSUME NEW u \in Openers \cup RemoteIds, StreamClose(u) PROVE IInv'
  BY <1>5, StreamCloseKeeps
<1>6. ASSUME NEW c \in Closers, SessionClose(c) PROVE IInv'
  BY <1>6, CloseKeeps
<1>7. ASSUME NEW t \in Timers, TimerStep(t) PROVE IInv'
  BY <1>7, IdleKeeps DEF TimerStep
<1>8. ASSUME NEW t \in Threads, CloseStep(t) PROVE IInv'
  BY <1>8, CloseKeeps, SweepKeeps DEF CloseStep
<1>9. CASE UNCHANGED vars
  BY <1>9, StutterKeeps DEF vars
<1> QED
  BY <1>1, <1>2, <1>3, <1>4, <1>5, <1>6, <1>7, <1>8, <1>9 DEF Next

(* The invariant of every session. *)
LEMMA Invariant == Spec => []IInv
BY InitIInv, NextIInv, PTL DEF Spec

(* No deplexer sends on the accept channel once closeSession has closed    *)
(* it: the channel is closed with streamsM held, and after closed is set.  *)
THEOREM ChannelSafe == Spec => []NoSendOnClosedChannel
BY Invariant, PTL DEF IInv, Guarded

(* closeSession leaves no stream of the remote open. *)
THEOREM RemoteStreamsClosed == Spec => []NoRemoteStreamSurvives
BY Invariant, PTL DEF IInv

(* Only a deplexer and an opener put streams in the map, and the stream    *)
(* they put there was not closed before: the id of a closed stream never   *)
(* names another.                                                          *)
THEOREM ClosedStaysClosed == Spec => NoResurrection
<1> DEFINE Gone(s) == sclosed[s] /\ streams[s] # "live"
<1>1. ASSUME IInv, [Next]_vars, NEW s \in StreamIds, Gone(s)
      PROVE  streams'[s] # "live"
  <2> USE Kinds
  <2>1. ASSUME NEW d \in Deplexers, NEW f \in inflight \ {Fin}, RecvNew(d, f)
        PROVE  streams'[s] # "live"
    <3>1. s # f[1]
      BY <1>1, <2>1, RecvNewIsNew DEF Made
    <3> QED
      BY <1>1, <2>1, <3>1 DEF RecvNew, IInv, Shape
  <2>2. ASSUME NEW o \in Openers, OpenStore(o)
        PROVE  streams'[s] # "live"
    <3>1. s # own[o]
      BY <1>1, <2>2, OpenStoreIsNew DEF OpenStore, Made
    <3> QED
      BY <1>1, <2>2, <3>1 DEF OpenStore, IInv, Shape
  <2>3. ASSUME NEW t \in Threads, CloseStreamNil(t) \/ CloseSessionSweep(t)
        PROVE  streams'[s] # "live"
    BY <1>1, <2>3 DEF CloseStreamNil, CloseSessionSweep, IInv, Shape
  <2>4. CASE UNCHANGED streams
    BY <1>1, <2>4
  <2>5. \/ UNCHANGED streams
        \/ \E d \in Deplexers : \E f \in inflight \ {Fin} : RecvNew(d, f)
        \/ \E o \in Openers : OpenStore(o)
        \/ \E t \in Threads : CloseStreamNil(t) \/ CloseSessionSweep(t)
    <3>1. CASE UNCHANGED vars
      BY <3>1 DEF vars
    <3>2. ASSUME NEW d \in Deplexers, DeplexerStep(d) \/ ConnDies(d)
          PROVE  UNCHANGED streams \/ \E f \in inflight \ {Fin} : RecvNew(d, f)
      BY <3>2 DEF DeplexerStep, ConnDies, RecvFin, RecvDropped, RecvExisting, ChSend, RecvIncr,
                  RecvFrame, ReadError, streamVars
    <3>3. ASSUME NEW o \in Openers, OpenerStep(o)
          PROVE  UNCHANGED streams \/ OpenStore(o)
      BY <3>3 DEF OpenerStep, OpenRefused, OpenStream, OpenIncr, streamVars
    <3>4. ASSUME NEW t, AccepterStep(t) \/ StreamClose(t) \/ SessionClose(t) \/ TimerStep(t)
          PROVE  UNCHANGED streams
      BY <3>4 DEF AccepterStep, Accept, AcceptRecv, AcceptBroken, StreamClose, SessionClose,
                  TimerStep, CheckTimeout, streamVars
    <3>5. ASSUME NEW t \in Threads, CloseStep(t)
          PROVE  UNCHANGED streams \/ CloseStreamNil(t) \/ CloseSessionSweep(t)
      BY <3>5 DEF CloseStep, CloseStreamSend, CloseStreamDecr, SessionClose, SendNotice,
                  CloseAll, streamVars
    <3> QED
      BY <1>1, <3>1, <3>2, <3>3, <3>4, <3>5 DEF Next
  <2> QED
    BY <2>1, <2>2, <2>3, <2>4, <2>5
<1>2. IInv /\ [Next]_vars
        => [\A s \in StreamIds : Gone(s) => streams'[s] # "live"]_vars
  BY <1>1
<1> QED
  BY <1>2, Invariant, PTL DEF Spec, NoResurrection
-----------------------------------------------------------------------------
(* The count of active streams is exact. *)
INSTANCE FiniteSetTheorems

(* The sets that are counted are finite. *)
LEMMA Finite ==
  /\ IsFiniteSet(Live) /\ IsFiniteSet(PendingDecr) /\ IsFiniteSet(PendingIncr)
  /\ Cardinality(Live) \in Nat /\ Cardinality(PendingDecr) \in Nat
  /\ Cardinality(PendingIncr) \in Nat
<1>1. IsFiniteSet(RemoteIds)
  BY FS_Subset, Kinds
<1>2. IsFiniteSet(StreamIds)
  <2>1. IsFiniteSet(LocalIds)
    BY FS_Interval DEF LocalIds
  <2> QED
    BY Zenon, <1>1, <2>1, FS_Union DEF StreamIds
<1>3. /\ Live \in SUBSET StreamIds
      /\ PendingDecr \in SUBSET Threads /\ PendingIncr \in SUBSET Threads
  BY DEF Live, PendingDecr, PendingIncr
<1>4. IsFiniteSet(Live) /\ IsFiniteSet(PendingDecr) /\ IsFiniteSet(PendingIncr)
  BY <1>2, <1>3, FS_Subset
<1> QED
  BY <1>4, FS_CardinalityType

(* What is counted. *)
Number == Cardinality(Live) + Cardinality(PendingDecr) - Cardinality(PendingIncr)

(* It is a number. *)
LEMMA NumberType == Number \in Int /\ Number' \in Int
<1>1. Number \in Int
  BY Finite DEF Number
<1>2. (Number \in Int)'
  BY <1>1, PTL
<1> QED
  BY <1>1, <1>2

(* The count follows what it counts. *)
LEMMA CountFollows ==
  ASSUME CountAgrees,
         \/ activeStreamCount' = (activeStreamCount + (Number' - Number)) % CountMod
         \/ Number' = Number /\ UNCHANGED activeStreamCount
  PROVE  CountAgrees'
<1>1. /\ Number \in Int /\ Number' \in Int /\ CountMod \in Nat \ {0}
      /\ activeStreamCount = Number % CountMod
  BY NumberType DEF CountAgrees, Number
<1>2. activeStreamCount' = Number' % CountMod
  <2>1. CASE activeStreamCount' = (activeStreamCount + (Number' - Number)) % CountMod
    BY Zenon, <1>1, <2>1, ModFollows
  <2>2. CASE Number' = Number /\ UNCHANGED activeStreamCount
    BY <1>1, <2>2
  <2> QED
    BY <2>1, <2>2
<1> QED
  BY <1>2 DEF CountAgrees, Number

(* Where a goroutine has an increment to make. *)
IncrAt == {"chSend", "incr", "openIncr"}

(* What a move does to the increments and decrements to come. *)
LEMMA PendingMoves ==
  ASSUME IInv, NEW t \in Threads, NEW label, Goto(t, label)
  PROVE  /\ (pc[t] \in IncrAt <=> label \in IncrAt)
              => Cardinality(PendingIncr') = Cardinality(PendingIncr)
         /\ pc[t] \notin IncrAt /\ label \in IncrAt
              => Cardinality(PendingIncr') = Cardinality(PendingIncr) + 1
         /\ pc[t] \in IncrAt /\ label \notin IncrAt
              => Cardinality(PendingIncr') = Cardinality(PendingIncr) - 1
         /\ (pc[t] = "csDecr" <=> label = "csDecr")
              => Cardinality(PendingDecr') = Cardinality(PendingDecr)
         /\ pc[t] # "csDecr" /\ label = "csDecr"
              => Cardinality(PendingDecr') = Cardinality(PendingDecr) + 1
         /\ pc[t] = "csDecr" /\ label # "csDecr"
              => Cardinality(PendingDecr') = Cardinality(PendingDecr) - 1
<1>1. \A u \in Threads : pc'[u] = IF u = t THEN label ELSE pc[u]
  BY DEF Goto, IInv, Shape
<1>2. PendingIncr' = IF label \in IncrAt THEN PendingIncr \cup {t} ELSE PendingIncr \ {t}
  BY <1>1 DEF PendingIncr, IncrAt
<1>3. PendingDecr' = IF label = "csDecr" THEN PendingDecr \cup {t} ELSE PendingDecr \ {t}
  BY <1>1 DEF PendingDecr
<1>4. (t \in PendingIncr <=> pc[t] \in IncrAt) /\ (t \in PendingDecr <=> pc[t] = "csDecr")
  BY DEF PendingIncr, PendingDecr, IncrAt
<1>5. /\ Cardinality(PendingIncr \cup {t})
           = IF t \in PendingIncr THEN Cardinality(PendingIncr) ELSE Cardinality(PendingIncr) + 1
      /\ Cardinality(PendingIncr \ {t})
           = IF t \in PendingIncr THEN Cardinality(PendingIncr) - 1 ELSE Cardinality(PendingIncr)
  BY Zenon, Finite, FS_AddElement, FS_RemoveElement
<1>6. /\ Cardinality(PendingDecr \cup {t})
           = IF t \in PendingDecr THEN Cardinality(PendingDecr) ELSE Cardinality(PendingDecr) + 1
      /\ Cardinality(PendingDecr \ {t})
           = IF t \in PendingDecr THEN Cardinality(PendingDecr) - 1 ELSE Cardinality(PendingDecr)
  BY Zenon, Finite, FS_AddElement, FS_RemoveElement
<1> QED
  BY <1>2, <1>3, <1>4, <1>5, <1>6

(* What a change of one entry does to the number of live ones. *)
LEMMA LiveChanges ==
  ASSUME IInv, NEW s \in StreamIds, NEW v \in {"live", "nil"},
         streams' = [streams EXCEPT ![s] = v]
  PROVE  /\ streams[s] # "live" /\ v = "live" => Cardinality(Live') = Cardinality(Live) + 1
         /\ streams[s] = "live" /\ v = "nil" => Cardinality(Live') = Cardinality(Live) - 1
<1>1. \A x \in StreamIds : streams'[x] = IF x = s THEN v ELSE streams[x]
  BY DEF IInv, Shape
<1>2. Live' = IF v = "live" THEN Live \cup {s} ELSE Live \ {s}
  BY <1>1 DEF Live
<1>3. s \in Live <=> streams[s] = "live"
  BY DEF Live
<1> QED
  BY Zenon, <1>2, <1>3, Finite, FS_AddElement, FS_RemoveElement

(* A step that moves one goroutine to where it owes the count no more and  *)
(* no less, and leaves the map and the count alone.                        *)
LEMMA QuietMove ==
  ASSUME IInv, CountAgrees, NEW t \in Threads, NEW label, Goto(t, label),
         pc[t] \in IncrAt <=> label \in IncrAt, pc[t] = "csDecr" <=> label = "csDecr",
         UNCHANGED <<streams, activeStreamCount>>
  PROVE  CountAgrees'
<1>1. Live' = Live
  BY DEF Live
<1> QED
  BY <1>1, PendingMoves, CountFollows DEF Number

(* The steps of a deplexer that do so. *)
LEMMA DeplexerQuiet ==
  ASSUME IInv, CountAgrees, NEW d \in Deplexers,
         \/ RecvFin(d) \/ ChSend(d) \/ RecvFrame(d) \/ ReadError(d)
         \/ \E f \in inflight \ {Fin} : RecvDropped(d, f) \/ RecvExisting(d, f)
  PROVE  CountAgrees'
<1> USE Kinds DEF IncrAt
<1>a. AfterClose(d) = "read"
  BY DEF AfterClose
<1>1. UNCHANGED <<streams, activeStreamCount>>
  BY DEF RecvFin, ChSend, RecvFrame, ReadError, RecvDropped, RecvExisting, TakeFrame,
         streamVars
<1>2. CASE RecvFin(d) \/ ReadError(d)
  <2>1. PICK label \in {"passiveSweep", "read", "done"} : Goto(d, label) /\ pc[d] = "read"
    BY <1>2 DEF RecvFin, ReadError, CASSession
  <2> QED
    BY <1>1, <2>1, QuietMove
<1>3. CASE ChSend(d)
  BY <1>1, <1>3, QuietMove DEF ChSend
<1>4. CASE RecvFrame(d)
  <2>1. PICK label \in {"csNil", "read"} : Goto(d, label) /\ pc[d] = "recvFrame"
    BY <1>4, <1>a DEF RecvFrame, CASStream
  <2> QED
    BY <1>1, <2>1, QuietMove
<1>5. ASSUME NEW f \in inflight \ {Fin}, RecvDropped(d, f) \/ RecvExisting(d, f)
      PROVE  CountAgrees'
  <2>1. PICK label \in {"read", "recvFrame"} : Goto(d, label) /\ pc[d] = "read"
    BY <1>5 DEF RecvDropped, RecvExisting, TakeFrame, Goto, IInv, Shape
  <2> QED
    BY <1>1, <2>1, QuietMove
<1> QED
  BY <1>2, <1>3, <1>4, <1>5

(* Those of the other goroutines. *)
LEMMA OthersQuiet ==
  ASSUME IInv, CountAgrees, NEW t \in Threads,
         \/ OpenRefused(t) \/ OpenStream(t) \/ Accept(t) \/ AcceptBroken(t)
         \/ StreamClose(t) \/ CloseStreamSend(t) \/ SessionClose(t) \/ SendNotice(t)
         \/ CloseAll(t) \/ TimerStep(t)
  PROVE  CountAgrees'
<1> USE DEF IncrAt
<1>a. AfterClose(t) \in {"read", "idle", "done"}
  BY DEF AfterClose
<1>1. UNCHANGED <<streams, activeStreamCount>>
  BY DEF OpenRefused, OpenStream, Accept, AcceptBroken, StreamClose, CloseStreamSend,
         SessionClose, SendNotice, CloseAll, TimerStep, CheckTimeout, streamVars
<1>2. pc[t] \notin IncrAt \cup {"csDecr"}
  BY DEF OpenRefused, OpenStream, Accept, AcceptBroken, StreamClose, CloseStreamSend,
         SessionClose, SendNotice, CloseAll, TimerStep, CheckTimeout
<1>3. PICK label \in Labels \ (IncrAt \cup {"csDecr"}) : Goto(t, label)
  BY <1>a DEF OpenRefused, OpenStream, Accept, AcceptBroken, StreamClose, CloseStreamSend,
         SessionClose, SendNotice, CloseAll, TimerStep, CheckTimeout, CASStream, CASSession,
         Labels
<1> QED
  BY <1>1, <1>2, <1>3, QuietMove

(* The accepter's step moves the goroutine of the stream as well. *)
LEMMA AcceptRecvCounts ==
  ASSUME IInv, CountAgrees, NEW a \in Accepters, AcceptRecv(a)
  PROVE  CountAgrees'
<1> USE Kinds
<1>1. Head(acceptCh) \in RemoteIds /\ pc[Head(acceptCh)] = "none"
  <2>1. acceptCh \in Seq(RemoteIds) /\ acceptCh # << >> /\ Unserved
    BY DEF IInv, Shape, AcceptRecv
  <2>2. Head(acceptCh) = acceptCh[1] /\ 1 \in 1 .. Len(acceptCh) /\ acceptCh[1] \in RemoteIds
    BY <2>1
  <2> QED
    BY <2>1, <2>2 DEF Unserved
<1>2. \A t \in Threads : \/ pc'[t] = pc[t]
                         \/ /\ pc[t] \in {"acceptRecv", "none"}
                            /\ pc'[t] \in {"accept", "Close", "using"}
  <2>1. CASE Goto(a, "Close")
    BY <2>1 DEF AcceptRecv, Goto, IInv, Shape
  <2>2. CASE pc' = [pc EXCEPT ![a] = "accept", ![Head(acceptCh)] = "using"]
    BY <1>1, <2>2 DEF AcceptRecv, IInv, Shape
  <2> QED
    BY <2>1, <2>2 DEF AcceptRecv
<1>3. PendingIncr' = PendingIncr /\ PendingDecr' = PendingDecr
  BY <1>2 DEF PendingIncr, PendingDecr
<1>4. Live' = Live /\ UNCHANGED activeStreamCount
  BY DEF Live, AcceptRecv, streamVars
<1> QED
  BY <1>3, <1>4, CountFollows DEF Number

(* A stream is stored before it is counted. *)
LEMMA StoredThenCounted ==
  ASSUME IInv, CountAgrees, NEW t \in Deplexers \cup Openers,
         \/ \E f \in inflight \ {Fin} : t \in Deplexers /\ RecvNew(t, f)
         \/ t \in Openers /\ OpenStore(t)
         \/ RecvIncr(t) \/ OpenIncr(t)
  PROVE  CountAgrees'
<1> USE Kinds DEF IncrAt
<1>1. ASSUME NEW f \in inflight \ {Fin}, t \in Deplexers, RecvNew(t, f) PROVE CountAgrees'
  <2>1. f[1] \in StreamIds /\ streams[f[1]] # "live"
    BY Zenon, <1>1, RecvNewIsNew DEF RecvNew
  <2>2. Cardinality(Live') = Cardinality(Live) + 1
    BY Zenon, <1>1, <2>1, LiveChanges DEF RecvNew
  <2>3. /\ Cardinality(PendingIncr') = Cardinality(PendingIncr) + 1
        /\ Cardinality(PendingDecr') = Cardinality(PendingDecr)
    <3>1. Goto(t, "chSend") /\ pc[t] = "read"
      BY Zenon, <1>1 DEF RecvNew, TakeFrame
    <3> QED
      BY <3>1, PendingMoves
  <2> QED
    <3>1. Number' = Number
      BY <2>2, <2>3, Finite DEF Number
    <3> QED
      <4>1. UNCHANGED activeStreamCount
        BY Zenon, <1>1 DEF RecvNew, TakeFrame
      <4> QED
        BY Zenon, <3>1, <4>1, CountFollows
<1>2. CASE t \in Openers /\ OpenStore(t)
  <2>1. own[t] \in StreamIds /\ streams[own[t]] # "live"
    BY <1>2, OpenStoreIsNew DEF OpenStore, Made
  <2>2. Cardinality(Live') = Cardinality(Live) + 1
    BY Zenon, <1>2, <2>1, LiveChanges DEF OpenStore
  <2>3. /\ Cardinality(PendingIncr') = Cardinality(PendingIncr) + 1
        /\ Cardinality(PendingDecr') = Cardinality(PendingDecr)
    <3>1. Goto(t, "openIncr") /\ pc[t] = "openStore"
      BY Zenon, <1>2 DEF OpenStore
    <3> QED
      BY <3>1, PendingMoves
  <2> QED
    <3>1. Number' = Number
      BY <2>2, <2>3, Finite DEF Number
    <3> QED
      <4>1. UNCHANGED activeStreamCount
        BY Zenon, <1>2 DEF OpenStore
      <4> QED
        BY Zenon, <3>1, <4>1, CountFollows
<1>3. CASE RecvIncr(t) \/ OpenIncr(t)
  <2>1. /\ Cardinality(PendingIncr') = Cardinality(PendingIncr) - 1
        /\ Cardinality(PendingDecr') = Cardinality(PendingDecr)
    <3>1. \E label \in {"recvFrame", "using"} : Goto(t, label) /\ pc[t] \in {"incr", "openIncr"}
      BY Zenon, <1>3 DEF RecvIncr, OpenIncr
    <3> QED
      BY <3>1, PendingMoves
  <2>2. Live' = Live /\ activeStreamCount' = (activeStreamCount + 1) % CountMod
    BY <1>3 DEF RecvIncr, OpenIncr, Live, streamVars, Plus
  <2> QED
    <3>1. Number' - Number = 1
      BY <2>1, <2>2, Finite DEF Number
    <3> QED
      BY <2>2, <3>1, CountFollows
<1> QED
  BY <1>1, <1>2, <1>3

(* A stream leaves the map before it is counted down, by the one goroutine *)
(* that won it; the sweep does both at once for the streams nobody won.    *)
LEMMA LeavesThenCounted ==
  ASSUME IInv, CountAgrees, NEW t \in Threads,
         CloseStreamNil(t) \/ CloseStreamDecr(t) \/ CloseSessionSweep(t)
  PROVE  CountAgrees'
<1> USE Kinds DEF IncrAt
<1>1. CASE CloseStreamNil(t)
  <2>1. StreamOf(t) \in StreamIds /\ streams[StreamOf(t)] = "live"
    <3>1. pc[t] = "csNil" /\ t \in Deplexers \cup Openers \cup RemoteIds /\ Closing(t)
      BY <1>1 DEF CloseStreamNil, IInv, Roles, Closing
    <3> QED
      BY <3>1, StreamOfMade DEF IInv, ClosesAlone
  <2>2. Cardinality(Live') = Cardinality(Live) - 1
    <3>1. PICK s \in StreamIds : streams[s] = "live" /\ streams' = [streams EXCEPT ![s] = "nil"]
      BY Zenon, <1>1, <2>1 DEF CloseStreamNil
    <3> QED
      BY Zenon, <3>1, LiveChanges
  <2>3. /\ Cardinality(PendingIncr') = Cardinality(PendingIncr)
        /\ Cardinality(PendingDecr') = Cardinality(PendingDecr) + 1
    <3>1. Goto(t, "csDecr") /\ pc[t] = "csNil"
      BY Zenon, <1>1 DEF CloseStreamNil
    <3> QED
      BY <3>1, PendingMoves
  <2> QED
    <3>1. Number' = Number
      BY <2>2, <2>3, Finite DEF Number
    <3> QED
      <4>1. UNCHANGED activeStreamCount
        BY Zenon, <1>1 DEF CloseStreamNil
      <4> QED
        BY Zenon, <3>1, <4>1, CountFollows
<1>2. CASE CloseStreamDecr(t)
  <2>1. PICK label \in {"Close", "read", "idle", "done"} : Goto(t, label) /\ pc[t] = "csDecr"
    BY <1>2 DEF CloseStreamDecr, AfterClose
  <2>2. /\ Cardinality(PendingIncr') = Cardinality(PendingIncr)
        /\ Cardinality(PendingDecr') = Cardinality(PendingDecr) - 1
    BY <2>1, PendingMoves
  <2>3. Live' = Live /\ activeStreamCount' = (activeStreamCount - 1) % CountMod
    BY <1>2 DEF CloseStreamDecr, Live, streamVars, Minus
  <2>4. activeStreamCount \in Int
    BY Finite DEF CountAgrees
  <2>5. Number' - Number = 0 - 1
    BY <2>2, <2>3, Finite DEF Number
  <2>6. activeStreamCount - 1 = activeStreamCount + (Number' - Number)
    BY <2>4, <2>5
  <2> QED
    BY <2>3, <2>6, CountFollows
<1>3. CASE CloseSessionSweep(t)
  <2>1. Live' = Live \ Swept /\ Live \cap Swept = Swept
    BY <1>3 DEF CloseSessionSweep, Swept, Live
  <2>2. IsFiniteSet(Swept)
    BY Finite, FS_Subset DEF Swept
  <2>3. Cardinality(Live') = Cardinality(Live) - Cardinality(Swept) /\ Cardinality(Swept) \in Nat
    BY Zenon, <2>1, <2>2, Finite, FS_Difference, FS_CardinalityType
  <2>4. PICK label \in {"notice", "closeAll"} :
          Goto(t, label) /\ pc[t] \in {"passiveSweep", "sweep"}
    BY <1>3 DEF CloseSessionSweep
  <2>5. /\ Cardinality(PendingIncr') = Cardinality(PendingIncr)
        /\ Cardinality(PendingDecr') = Cardinality(PendingDecr)
    BY <2>4, PendingMoves
  <2>6. activeStreamCount' = (activeStreamCount - Cardinality(Swept)) % CountMod
    BY <1>3 DEF CloseSessionSweep, Minus
  <2>7. activeStreamCount \in Int
    BY Finite DEF CountAgrees
  <2>8. Number' - Number = 0 - Cardinality(Swept)
    BY <2>3, <2>5, Finite DEF Number
  <2>9. activeStreamCount - Cardinality(Swept) = activeStreamCount + (Number' - Number)
    BY <2>3, <2>7, <2>8
  <2> QED
    BY <2>6, <2>9, CountFollows
<1> QED
  BY <1>1, <1>2, <1>3

(* The count of active streams is exact but for what the goroutines still  *)
(* owe it, modulo 2^32, whatever the number of streams and goroutines.     *)
THEOREM CountExact == Spec => []CountAgrees
<1>1. Init => CountAgrees
  <2> SUFFICES ASSUME Init PROVE CountAgrees
    OBVIOUS
  <2>1. \A t \in Threads : pc[t] \in {"read", "open", "accept", "idle", "none"}
    BY DEF Init
  <2>2. Live = {} /\ PendingDecr = {} /\ PendingIncr = {}
    BY <2>1 DEF Init, Live, PendingDecr, PendingIncr
  <2>3. 0 % CountMod = 0
    OBVIOUS
  <2> QED
    BY <2>2, <2>3, FS_EmptySet DEF Init, CountAgrees
<1>2. IInv /\ CountAgrees /\ [Next]_vars => CountAgrees'
  <2> SUFFICES ASSUME IInv, CountAgrees, [Next]_vars PROVE CountAgrees'
    OBVIOUS
  <2> USE Kinds
  <2>1. ASSUME NEW d \in Deplexers, DeplexerStep(d) PROVE CountAgrees'
    BY <2>1, DeplexerQuiet, StoredThenCounted DEF DeplexerStep
  <2>2. ASSUME UNCHANGED <<streams, pc, activeStreamCount>> PROVE CountAgrees'
    BY <2>2 DEF CountAgrees, Live, PendingDecr, PendingIncr
  <2>3. ASSUME NEW d \in Deplexers, ConnDies(d) PROVE CountAgrees'
    BY <2>2, <2>3 DEF ConnDies, streamVars
  <2>4. ASSUME NEW o \in Openers, OpenerStep(o) PROVE CountAgrees'
    BY <2>4, OthersQuiet, StoredThenCounted DEF OpenerStep
  <2>5. ASSUME NEW a \in Accepters, AccepterStep(a) PROVE CountAgrees'
    BY <2>5, OthersQuiet, AcceptRecvCounts DEF AccepterStep
  <2>6. ASSUME NEW t \in Threads, StreamClose(t) \/ SessionClose(t) \/ TimerStep(t)
        PROVE  CountAgrees'
    BY <2>6, OthersQuiet
  <2>7. ASSUME NEW t \in Threads, CloseStep(t) PROVE CountAgrees'
    BY <2>7, OthersQuiet, LeavesThenCounted DEF CloseStep
  <2>8. CASE UNCHANGED vars
    BY <2>2, <2>8 DEF vars
  <2> QED
    BY <2>1, <2>3, <2>4, <2>5, <2>6, <2>7, <2>8 DEF Next
<1> QED
  BY <1>1, <1>2, Invariant, PTL DEF Spec

(* What TypeOK says beyond Shape and CountAgrees. *)
Rest ==
  /\ singleplex \in BOOLEAN /\ closed \in BOOLEAN /\ chClosed \in BOOLEAN /\ broken \in BOOLEAN
  /\ nextStreamID \in 1 .. MaxOpen + 1
  /\ streamsM \in Deplexers \cup {NoOne}
  /\ timers \in [0 .. Cardinality(StreamIds) -> Nat]
  /\ conns \subseteq Deplexers
  /\ got \in [StreamIds -> SUBSET {0, 1}]

(* Every step keeps it: ids stop at the bound, streamsM passes only to     *)
(* deplexers, and a timer is taken only when one is pending.               *)
LEMMA RestKept == IInv /\ Rest /\ [Next]_vars => Rest'
<1> SUFFICES ASSUME IInv, Rest, [Next]_vars PROVE Rest'
  OBVIOUS
<1> USE Kinds DEF Rest
<1>1. ASSUME NEW d \in Deplexers, DeplexerStep(d) PROVE Rest'
  <2>1. CASE RecvFin(d) \/ ReadError(d)
    BY <2>1 DEF RecvFin, ReadError, CASSession, confVars, streamVars, chVars, netVars
  <2>2. ASSUME NEW f \in inflight \ {Fin}, RecvDropped(d, f) \/ RecvExisting(d, f) \/ RecvNew(d, f)
        PROVE  Rest'
    BY <2>2 DEF RecvDropped, RecvExisting, RecvNew, TakeFrame, confVars, chVars
  <2>3. CASE ChSend(d) \/ RecvIncr(d)
    BY <2>3 DEF ChSend, RecvIncr, confVars, streamVars, chVars, netVars
  <2>4. CASE RecvFrame(d)
    <3>1. frame[d] \in StreamIds \X {0, 1}
      BY <2>4 DEF RecvFrame, IInv, Shape, FramesHeld
    <3>2. got' \in [StreamIds -> SUBSET {0, 1}]
      BY <2>4, <3>1 DEF RecvFrame
    <3>3. UNCHANGED <<singleplex, nextStreamID, closed, streamsM, chClosed, timers, broken, conns>>
      BY <2>4, Zenon DEF RecvFrame, confVars, chVars
    <3> QED
      BY <3>2, <3>3
  <2> QED
    BY <1>1, <2>1, <2>2, <2>3, <2>4 DEF DeplexerStep
<1>2. ASSUME NEW d \in Deplexers, ConnDies(d) PROVE Rest'
  BY <1>2 DEF ConnDies, confVars, streamVars, chVars
<1>3. ASSUME NEW o \in Openers, OpenerStep(o) PROVE Rest'
  <2>1. CASE OpenStream(o)
    BY <2>1 DEF OpenStream, streamVars, chVars, netVars
  <2>2. CASE OpenRefused(o) \/ OpenStore(o) \/ OpenIncr(o)
    BY <2>2 DEF OpenRefused, OpenStore, OpenIncr, confVars, streamVars, chVars, netVars
  <2> QED
    BY <1>3, <2>1, <2>2 DEF OpenerStep
<1>4. ASSUME NEW t, AccepterStep(t) \/ StreamClose(t) \/ SessionClose(t) PROVE Rest'
  BY <1>4 DEF AccepterStep, Accept, AcceptRecv, AcceptBroken, StreamClose, SessionClose,
              CASSession, confVars, streamVars, chVars, netVars
<1>5. ASSUME NEW t, NEW e \in DOMAIN timers, CheckTimeout(t, e) PROVE Rest'
  <2>1. timers' \in [0 .. Cardinality(StreamIds) -> Nat]
    BY <1>5 DEF CheckTimeout
  <2> QED
    BY <1>5, <2>1 DEF CheckTimeout, confVars, streamVars, chVars, netVars
<1>6. ASSUME NEW t \in Threads, CloseStep(t) PROVE Rest'
  <2>1. CASE CloseStreamDecr(t)
    <3>1. timers' \in [0 .. Cardinality(StreamIds) -> Nat]
      BY <2>1 DEF CloseStreamDecr, ArmTimer
    <3> QED
      BY <2>1, <3>1 DEF CloseStreamDecr, confVars, streamVars, chVars, netVars
  <2>2. CASE CloseStreamSend(t) \/ CloseStreamNil(t)
    BY <2>2 DEF CloseStreamSend, CloseStreamNil, CASSession, confVars, streamVars, chVars, netVars
  <2>3. CASE CloseSessionSweep(t) \/ SendNotice(t) \/ CloseAll(t)
    BY <2>3 DEF CloseSessionSweep, SendNotice, CloseAll, confVars, streamVars, chVars, netVars
  <2> QED
    BY <1>4, <1>6, <2>1, <2>2, <2>3 DEF CloseStep
<1>7. CASE UNCHANGED vars
  BY <1>7 DEF vars
<1> QED
  BY <1>1, <1>2, <1>3, <1>4, <1>5, <1>6, <1>7 DEF Next, TimerStep

(* The state of a session is well typed: ids stay within the bound and the *)
(* count within 32 bits.                                                   *)
THEOREM TypeCorrect == Spec => []TypeOK
<1>1. Init => Rest
  <2> SUFFICES ASSUME Init PROVE Rest
    OBVIOUS
  <2>1. /\ singleplex \in Singleplexes /\ closed = FALSE /\ chClosed = FALSE /\ broken = FALSE
        /\ nextStreamID = 1 /\ streamsM = NoOne /\ conns = Deplexers
        /\ timers = [e \in 0 .. Cardinality(StreamIds) |-> IF e = 0 THEN 1 ELSE 0]
        /\ got = [s \in StreamIds |-> {}]
    BY Zenon DEF Init
  <2>2. singleplex \in BOOLEAN /\ closed \in BOOLEAN /\ chClosed \in BOOLEAN /\ broken \in BOOLEAN
    BY <2>1, Zenon
  <2>3. /\ timers \in [0 .. Cardinality(StreamIds) -> Nat]
        /\ got \in [StreamIds -> SUBSET {0, 1}]
    BY <2>1
  <2>4. nextStreamID \in 1 .. MaxOpen + 1
    BY <2>1
  <2> QED
    BY <2>1, <2>2, <2>3, <2>4, Zenon DEF Rest
<1>2. IInv /\ CountAgrees /\ Rest => TypeOK
  <2> SUFFICES ASSUME IInv, CountAgrees, Rest PROVE TypeOK
    OBVIOUS
  <2>1. activeStreamCount \in 0 .. CountMod - 1
    <3>1. activeStreamCount = Number % CountMod
      BY DEF CountAgrees, Number
    <3> QED
      BY <3>1, NumberType
  <2> QED
    BY <2>1 DEF IInv, Shape, Frames, Rest, TypeOK
<1> QED
  BY <1>1, <1>2, RestKept, Invariant, CountExact, PTL DEF Spec
=============================================================================
