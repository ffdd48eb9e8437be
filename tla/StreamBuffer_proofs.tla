------------------------ MODULE StreamBuffer_proofs ------------------------
(***************************************************************************)
(* StreamBuffer is correct for any number of connections, closers and      *)
(* frames and for any buffer limit: the reader gets the payloads in order, *)
(* a close by the remote truncates nothing, and the buffer implements      *)
(* OrderedStream.                                                          *)
(***************************************************************************)
EXTENDS StreamBuffer, SequenceTheorems, TLAPS

USE NDataAssumption, NLateAssumption, LimitAssumption,
    ThreadsAssumption

(* Frames a deplexer has taken off the wire but not yet put in the heap or *)
(* in the pipe.                                                            *)
Holding(d) == pc[d] \in {"lock", "pipe"}

(* recvM is held exactly by the deplexer between its lock and its return. *)
LockInv ==
  \A d \in Deplexers : pc[d] \in {"pipe", "drain"} <=> recvM = d

(* A deplexer never stands at a closer's label, nor the reverse. *)
RoleInv ==
  /\ \A d \in Deplexers : pc[d] \notin {"open", "done"}
  /\ \A c \in Closers : pc[c] \in {"open", "recvClose", "done"}

(* Every frame is in one place only, and none that waits was overtaken. *)
FrameInv ==
  /\ inflight \cap sh = {}
  /\ \A f \in inflight \cup sh : f >= nextRecvSeq
  /\ \A d \in Deplexers : Holding(d) =>
       /\ cur[d] \notin inflight \cup sh
       /\ cur[d] >= nextRecvSeq
       /\ \A e \in Deplexers : Holding(e) /\ cur[e] = cur[d] => e = d
  /\ \A d \in Deplexers : pc[d] = "pipe" =>
       cur[d] = nextRecvSeq /\ ~Closing(cur[d])

(* Only the frame that is next, once it is a closing frame, closes the     *)
(* stream from the remote's side.                                          *)
CloseInv ==
  /\ \A d \in Deplexers : pc[d] = "close" => nextRecvSeq = NData
  /\ closedBy = "remote" => nextRecvSeq = NData
  /\ pipeClosed => closedBy # "nobody"
  /\ \A t \in Threads : pc[t] = "recvClose" => closedBy # "nobody"

(* What was read, followed by what is buffered, is a prefix of what was    *)
(* sent; it stops short of nextRecvSeq only when this side closed the pipe *)
(* and the frames that came later were dropped.                            *)
DataInv ==
  /\ \A i \in 1 .. Len(out) : out[i] = i - 1
  /\ \A i \in 1 .. Len(buf) : buf[i] = Len(out) + i - 1
  /\ Len(out) + Len(buf) <= nextRecvSeq
  /\ ~pipeClosed \/ closedBy # "local" => Len(out) + Len(buf) = nextRecvSeq
  /\ eof => pipeClosed /\ buf = << >>

IInv ==
  /\ TypeOK
  /\ LockInv
  /\ RoleInv
  /\ FrameInv
  /\ CloseInv
  /\ DataInv
-----------------------------------------------------------------------------
(* TypeOK in two parts, for provers that reason apart about truth values. *)
Flags ==
  /\ pipeClosed \in BOOLEAN
  /\ reading \in BOOLEAN
  /\ eof \in BOOLEAN

Shapes ==
  /\ inflight \subseteq Frames
  /\ cur \in [Deplexers -> Frames]
  /\ pc \in [Threads -> {"read", "lock", "pipe", "drain", "close", "recvClose",
                         "open", "done"}]
  /\ recvM \in Deplexers \cup {Free}
  /\ nextRecvSeq \in 0 .. NData
  /\ sh \subseteq Frames
  /\ buf \in Seq(0 .. NData - 1)
  /\ closedBy \in {"nobody", "remote", "local"}
  /\ out \in Seq(0 .. NData - 1)

(* TypeOK is its Boolean part and the rest: the provers take each apart.   *)
LEMMA TypeParts == TypeOK <=> Flags /\ Shapes
  BY Zenon DEF TypeOK, Flags, Shapes

(* Every step keeps the Boolean variables Boolean.                         *)
LEMMA FlagsStep == Flags /\ [Next]_vars => Flags'
<1> SUFFICES ASSUME Flags, [Next]_vars PROVE Flags'
  OBVIOUS
<1>1. ASSUME NEW d \in Deplexers, DeplexerStep(d) PROVE Flags'
  BY <1>1, Zenon DEF Flags, DeplexerStep, RecvFrame, IgnoreFrame, WriteInOrder,
     WriteOutOfOrder, PopHeap, WriteReturns, PipeWrite, PassiveClose,
     RecvBufClose
<1>2. ASSUME NEW c \in Closers, CloserStep(c) PROVE Flags'
  BY <1>2, Zenon DEF Flags, CloserStep, Close, RecvBufClose
<1>3. CASE ReaderStep \/ Quit \/ Finished \/ UNCHANGED vars
  BY <1>3, Zenon DEF Flags, ReaderStep, Read, ReadEOF, Quit, Finished, vars
<1> QED
  BY <1>1, <1>2, <1>3, Zenon DEF Next

(* The initial state satisfies the invariant. *)
LEMMA InitIInv == Init => IInv
<1> SUFFICES ASSUME Init PROVE IInv
  OBVIOUS
<1>1. TypeOK
  <2>1. Flags
    BY Zenon DEF Flags, Init
  <2>2. Shapes
    BY DEF Shapes, Init, Frames
  <2> QED
    BY <2>1, <2>2, TypeParts, Zenon
<1>2. LockInv /\ RoleInv
  BY DEF LockInv, RoleInv, Init, Threads
<1>3. FrameInv
  BY DEF FrameInv, Init, Frames, Holding, Threads
<1>4. CloseInv
  <2>1. pipeClosed => closedBy # "nobody"
    BY Zenon DEF Init
  <2> QED
    BY Zenon, <2>1 DEF CloseInv, Init, Threads
<1>5. DataInv
  <2>1. eof => pipeClosed /\ buf = << >>
    BY Zenon DEF Init
  <2> QED
    BY <2>1 DEF DataInv, Init
<1> QED
  BY <1>1, <1>2, <1>3, <1>4, <1>5, Zenon DEF IInv

(* The invariant but for the flags, which FlagsStep settles. *)
Core == Shapes /\ LockInv /\ RoleInv /\ FrameInv /\ CloseInv /\ DataInv

(* Appending the frame that is next keeps the buffer a run of the stream. *)
LEMMA AppendRun ==
  ASSUME NEW s \in Seq(0 .. NData - 1), NEW b \in Nat, NEW x \in 0 .. NData - 1,
         \A i \in 1 .. Len(s) : s[i] = b + i - 1,
         x = b + Len(s)
  PROVE  /\ Append(s, x) \in Seq(0 .. NData - 1)
         /\ Len(Append(s, x)) = Len(s) + 1
         /\ \A i \in 1 .. Len(Append(s, x)) : Append(s, x)[i] = b + i - 1
  OBVIOUS

(* What is left of a sequence when its first n elements are taken. *)
LEMMA RestOfSeq ==
  ASSUME NEW S, NEW s \in Seq(S), NEW n \in 1 .. Len(s)
  PROVE  /\ SubSeq(s, n + 1, Len(s)) \in Seq(S)
         /\ Len(SubSeq(s, n + 1, Len(s))) = Len(s) - n
         /\ \A i \in 1 .. Len(s) - n : SubSeq(s, n + 1, Len(s))[i] = s[n + i]
<1>1. Len(s) \in Nat /\ n \in Nat /\ n <= Len(s)
  BY LenProperties
<1> QED
  BY <1>1, SubSeqProperties

(* Read moves the first n units of the buffer to the end of what was read. *)
LEMMA MoveRun ==
  ASSUME out \in Seq(0 .. NData - 1), buf \in Seq(0 .. NData - 1),
         NEW n \in 1 .. Len(buf),
         out' = out \o SubSeq(buf, 1, n),
         buf' = SubSeq(buf, n + 1, Len(buf)),
         \A i \in 1 .. Len(out) : out[i] = i - 1,
         \A i \in 1 .. Len(buf) : buf[i] = Len(out) + i - 1
  PROVE  /\ out' \in Seq(0 .. NData - 1)
         /\ buf' \in Seq(0 .. NData - 1)
         /\ Len(out') = Len(out) + n
         /\ Len(buf') = Len(buf) - n
         /\ \A i \in 1 .. Len(out') : out'[i] = i - 1
         /\ \A i \in 1 .. Len(buf') : buf'[i] = Len(out') + i - 1
<1> DEFINE a == SubSeq(buf, 1, n)
<1>1. Len(out) \in Nat /\ Len(buf) \in Nat /\ n \in Nat /\ n <= Len(buf)
  BY LenProperties
<1>2. a \in Seq(0 .. NData - 1) /\ Len(a) = n /\ \A i \in 1 .. n : a[i] = buf[i]
  BY <1>1, SubSeqProperties, SMTT(60)
<1>3. /\ buf' \in Seq(0 .. NData - 1)
      /\ Len(buf') = Len(buf) - n
      /\ \A i \in 1 .. Len(buf) - n : buf'[i] = buf[n + i]
  <2>1. /\ SubSeq(buf, n + 1, Len(buf)) \in Seq(0 .. NData - 1)
        /\ Len(SubSeq(buf, n + 1, Len(buf))) = Len(buf) - n
        /\ \A i \in 1 .. Len(buf) - n : SubSeq(buf, n + 1, Len(buf))[i] = buf[n + i]
    BY ZenonT(60), RestOfSeq
  <2>2. buf' = SubSeq(buf, n + 1, Len(buf))
    OBVIOUS
  <2> QED
    BY ONLY <2>1, <2>2
<1>4. /\ out' \in Seq(0 .. NData - 1)
      /\ Len(out') = Len(out) + n
      /\ \A i \in 1 .. Len(out) + n :
           out'[i] = IF i <= Len(out) THEN out[i] ELSE a[i - Len(out)]
  BY <1>2, ConcatProperties, SMTT(60)
<1> HIDE DEF a
<1>5. ASSUME NEW i \in 1 .. Len(out') PROVE out'[i] = i - 1
  <2>1. i \in Nat /\ i >= 1 /\ i <= Len(out) + n
    BY <1>1, <1>4
  <2>2. CASE i <= Len(out)
    <3>1. out'[i] = out[i]
      BY <2>1, <2>2, <1>1, <1>4
    <3>2. i \in 1 .. Len(out)
      BY <2>1, <2>2, <1>1
    <3> QED
      BY <3>1, <3>2
  <2>3. CASE i > Len(out)
    <3>1. i - Len(out) \in 1 .. n /\ i - Len(out) \in 1 .. Len(buf)
      BY <2>1, <2>3, <1>1
    <3>2. out'[i] = a[i - Len(out)]
      BY <2>1, <2>3, <1>1, <1>4
    <3>3. buf[i - Len(out)] = Len(out) + (i - Len(out)) - 1
      BY <3>1
    <3> QED
      BY <3>1, <3>2, <3>3, <2>1, <1>1, <1>2
  <2> QED
    BY <2>1, <2>2, <2>3, <1>1
<1>6. ASSUME NEW i \in 1 .. Len(buf') PROVE buf'[i] = Len(out') + i - 1
  <2>1. i \in Nat /\ i \in 1 .. Len(buf) - n /\ n + i \in 1 .. Len(buf)
    BY <1>1, <1>3
  <2>2. buf'[i] = buf[n + i] /\ buf[n + i] = Len(out) + (n + i) - 1
    BY <2>1, <1>3
  <2> QED
    BY <2>1, <2>2, <1>1, <1>4
<1> QED
  BY Zenon, <1>3, <1>4, <1>5, <1>6

(* Every step keeps the invariant. *)
LEMMA CoreStep == Core /\ [Next]_vars => Core'
<1> SUFFICES ASSUME Core, [Next]_vars PROVE Core'
  OBVIOUS
<1> USE DEF Goto, Threads, Frames, Closing
<1>1. ASSUME NEW d \in Deplexers, NEW f \in inflight, RecvFrame(d, f) PROVE Core'
  <2>1. Shapes'
    BY <1>1 DEF Core, Shapes, RecvFrame
  <2>2. LockInv'
    BY <1>1 DEF Core, LockInv, Shapes, RecvFrame
  <2>3. RoleInv'
    BY <1>1 DEF Core, RoleInv, Shapes, RecvFrame
  <2>4. FrameInv'
    BY <1>1 DEF Core, FrameInv, Holding, LockInv, Shapes, RecvFrame
  <2>5. CloseInv'
    BY <1>1 DEF Core, CloseInv, LockInv, RoleInv, FrameInv, Shapes, RecvFrame
  <2>6. DataInv'
    BY <1>1 DEF Core, DataInv, FrameInv, CloseInv, Shapes, RecvFrame
  <2> QED
    BY <2>1, <2>2, <2>3, <2>4, <2>5, <2>6 DEF Core
<1>2. ASSUME NEW d \in Deplexers, NEW f \in inflight, IgnoreFrame(d, f) PROVE Core'
  <2>1. Shapes'
    BY <1>2 DEF Core, Shapes, IgnoreFrame
  <2>2. LockInv'
    BY <1>2 DEF Core, LockInv, Shapes, IgnoreFrame
  <2>3. RoleInv'
    BY <1>2 DEF Core, RoleInv, Shapes, IgnoreFrame
  <2>4. FrameInv'
    BY <1>2 DEF Core, FrameInv, Holding, LockInv, Shapes, IgnoreFrame
  <2>5. CloseInv'
    BY <1>2 DEF Core, CloseInv, LockInv, RoleInv, FrameInv, Shapes, IgnoreFrame
  <2>6. DataInv'
    BY <1>2 DEF Core, DataInv, FrameInv, CloseInv, Shapes, IgnoreFrame
  <2> QED
    BY <2>1, <2>2, <2>3, <2>4, <2>5, <2>6 DEF Core
<1>3. ASSUME NEW d \in Deplexers, WriteInOrder(d) PROVE Core'
  <2>1. Shapes'
    BY Zenon, <1>3 DEF Core, Shapes, WriteInOrder, Handle, IsNext
  <2>2. LockInv'
    BY <1>3 DEF Core, LockInv, Shapes, WriteInOrder, Handle, IsNext
  <2>3. RoleInv'
    BY <1>3 DEF Core, RoleInv, Shapes, WriteInOrder, Handle, IsNext
  <2>4. FrameInv'
    BY <1>3 DEF Core, FrameInv, Holding, LockInv, Shapes, WriteInOrder, Handle, IsNext
  <2>5. CloseInv'
    BY <1>3 DEF Core, CloseInv, LockInv, RoleInv, FrameInv, Shapes, WriteInOrder, Handle, IsNext
  <2>6. DataInv'
    BY <1>3 DEF Core, DataInv, FrameInv, CloseInv, Shapes, WriteInOrder, Handle, IsNext
  <2> QED
    BY <2>1, <2>2, <2>3, <2>4, <2>5, <2>6 DEF Core
<1>4. ASSUME NEW d \in Deplexers, WriteOutOfOrder(d) PROVE Core'
  <2>1. CASE cur[d] < nextRecvSeq
    <3>1. pc' = [pc EXCEPT ![d] = "read"] /\ recvM' = recvM /\ sh' = sh
      BY <1>4, <2>1, Zenon DEF WriteOutOfOrder
    <3> QED
      BY <1>4, <3>1 DEF Core, Shapes, LockInv, RoleInv, FrameInv, Holding,
         CloseInv, DataInv, WriteOutOfOrder
  <2>2. CASE ~(cur[d] < nextRecvSeq)
    <3>1. /\ pc' = [pc EXCEPT ![d] = "drain"]
          /\ recvM' = d
          /\ sh' = sh \cup {cur[d]}
      BY <1>4, <2>2, Zenon DEF WriteOutOfOrder
    <3>2. cur[d] \in Frames
      BY DEF Core, Shapes
    <3>3. Shapes'
      <4>1. sh' \subseteq Frames
        BY <3>1, <3>2, Zenon DEF Core, Shapes
      <4> QED
        BY <1>4, <3>1, <4>1 DEF Core, Shapes, WriteOutOfOrder
    <3>4. LockInv' /\ RoleInv'
      BY <1>4, <3>1 DEF Core, Shapes, LockInv, RoleInv, WriteOutOfOrder
    <3>5. FrameInv'
      <4>1. /\ pc[d] = "lock" /\ inflight' = inflight /\ cur' = cur
            /\ nextRecvSeq' = nextRecvSeq
            /\ cur[d] >= nextRecvSeq /\ cur[d] \notin inflight \cup sh
            /\ \A e \in Deplexers : Holding(e) /\ cur[e] = cur[d] => e = d
        BY <1>4 DEF Core, FrameInv, Holding, WriteOutOfOrder
      <4>2. \A e \in Deplexers : (Holding(e))' => Holding(e) /\ e # d
        BY <3>1 DEF Core, Shapes, Holding
      <4>3. \A e \in Deplexers : pc'[e] = "pipe" => pc[e] = "pipe"
        BY <3>1 DEF Core, Shapes
      <4> QED
        BY <3>1, <4>1, <4>2, <4>3 DEF Core, FrameInv
    <3>6. CloseInv' /\ DataInv'
      BY <1>4, <3>1 DEF Core, Shapes, CloseInv, DataInv, WriteOutOfOrder
    <3> QED
      BY <3>3, <3>4, <3>5, <3>6 DEF Core
  <2> QED
    BY <2>1, <2>2
<1>5. ASSUME NEW d \in Deplexers, PopHeap(d) PROVE Core'
  <2>1. Shapes'
    BY Zenon, <1>5 DEF Core, Shapes, PopHeap, Handle, TopIsNext
  <2>2. LockInv'
    BY <1>5 DEF Core, LockInv, Shapes, PopHeap, Handle, TopIsNext
  <2>3. RoleInv'
    BY <1>5 DEF Core, RoleInv, Shapes, PopHeap, Handle, TopIsNext
  <2>4. FrameInv'
    BY <1>5 DEF Core, FrameInv, Holding, LockInv, Shapes, PopHeap, Handle, TopIsNext
  <2>5. CloseInv'
    BY <1>5 DEF Core, CloseInv, LockInv, RoleInv, FrameInv, Shapes, PopHeap, Handle, TopIsNext
  <2>6. DataInv'
    BY <1>5 DEF Core, DataInv, FrameInv, CloseInv, Shapes, PopHeap, Handle, TopIsNext
  <2> QED
    BY <2>1, <2>2, <2>3, <2>4, <2>5, <2>6 DEF Core
<1>6. ASSUME NEW d \in Deplexers, WriteReturns(d) PROVE Core'
  <2>1. Shapes'
    BY <1>6 DEF Core, Shapes, WriteReturns
  <2>2. LockInv'
    BY <1>6 DEF Core, LockInv, Shapes, WriteReturns
  <2>3. RoleInv'
    BY <1>6 DEF Core, RoleInv, Shapes, WriteReturns
  <2>4. FrameInv'
    BY <1>6 DEF Core, FrameInv, Holding, LockInv, Shapes, WriteReturns
  <2>5. CloseInv'
    BY <1>6 DEF Core, CloseInv, LockInv, RoleInv, FrameInv, Shapes, WriteReturns
  <2>6. DataInv'
    BY <1>6 DEF Core, DataInv, FrameInv, CloseInv, Shapes, WriteReturns
  <2> QED
    BY <2>1, <2>2, <2>3, <2>4, <2>5, <2>6 DEF Core
<1>7. ASSUME NEW d \in Deplexers, PipeWrite(d) PROVE Core'
  <2>a. /\ cur[d] = nextRecvSeq
        /\ nextRecvSeq \in 0 .. NData - 1
        /\ Len(out) \in Nat /\ Len(buf) \in Nat
    BY <1>7 DEF Core, PipeWrite, FrameInv, Shapes
  <2>b. \/ pipeClosed /\ buf' = buf
        \/ ~pipeClosed /\ buf' = Append(buf, cur[d])
    BY <1>7, Zenon DEF PipeWrite
  <2>c. ~pipeClosed => nextRecvSeq = Len(out) + Len(buf)
    BY DEF Core, DataInv
  <2>d. pipeClosed => closedBy = "local"
    BY <2>a DEF Core, CloseInv, Shapes
  <2>e. buf' \in Seq(0 .. NData - 1)
    <3>1. buf \in Seq(0 .. NData - 1) /\ cur[d] \in 0 .. NData - 1
      BY <2>a DEF Core, Shapes
    <3> QED
      BY <2>b, <3>1, AppendProperties
  <2>1. Shapes'
    BY <1>7, <2>a, <2>e DEF Core, Shapes, PipeWrite
  <2>2. LockInv' /\ RoleInv'
    BY <1>7 DEF Core, LockInv, RoleInv, Shapes, PipeWrite
  <2>3. FrameInv'
    BY <1>7 DEF Core, FrameInv, Holding, LockInv, Shapes, PipeWrite
  <2>4. CloseInv'
    BY <1>7, <2>a DEF Core, CloseInv, LockInv, RoleInv, Shapes, PipeWrite
  <2>5. DataInv'
    <3>1. CASE pipeClosed /\ buf' = buf
      BY <1>7, <2>a, <2>d, <3>1 DEF Core, DataInv, Shapes, PipeWrite
    <3>2. CASE ~pipeClosed /\ buf' = Append(buf, cur[d])
      <4>1. /\ buf \in Seq(0 .. NData - 1)
            /\ \A i \in 1 .. Len(buf) : buf[i] = Len(out) + i - 1
        BY DEF Core, Shapes, DataInv
      <4>2. /\ Len(buf') = Len(buf) + 1
            /\ \A i \in 1 .. Len(buf') : buf'[i] = Len(out) + i - 1
        BY <2>a, <2>c, <3>2, <4>1, AppendRun
      <4> QED
        BY <1>7, <2>a, <2>c, <3>2, <4>2 DEF Core, DataInv, Shapes, PipeWrite
    <3> QED
      BY <2>b, <3>1, <3>2
  <2> QED
    BY <2>1, <2>2, <2>3, <2>4, <2>5 DEF Core
<1>8. ASSUME NEW d \in Deplexers, PassiveClose(d) PROVE Core'
  <2>1. Shapes'
    BY Zenon, <1>8 DEF Core, Shapes, PassiveClose, CASClosed
  <2>2. LockInv'
    BY <1>8 DEF Core, LockInv, Shapes, PassiveClose, CASClosed
  <2>3. RoleInv'
    BY <1>8 DEF Core, RoleInv, Shapes, PassiveClose, CASClosed
  <2>4. FrameInv'
    BY <1>8 DEF Core, FrameInv, Holding, LockInv, Shapes, PassiveClose, CASClosed
  <2>5. CloseInv'
    BY <1>8 DEF Core, CloseInv, LockInv, RoleInv, FrameInv, Shapes, PassiveClose, CASClosed
  <2>6. DataInv'
    BY <1>8 DEF Core, DataInv, FrameInv, CloseInv, Shapes, PassiveClose, CASClosed
  <2> QED
    BY <2>1, <2>2, <2>3, <2>4, <2>5, <2>6 DEF Core
<1>9. ASSUME NEW c \in Closers, Close(c) PROVE Core'
  <2>1. Shapes'
    BY Zenon, <1>9 DEF Core, Shapes, Close, CASClosed
  <2>2. LockInv'
    BY <1>9 DEF Core, LockInv, Shapes, Close, CASClosed
  <2>3. RoleInv'
    BY <1>9 DEF Core, RoleInv, Shapes, Close, CASClosed
  <2>4. FrameInv'
    BY <1>9 DEF Core, FrameInv, Holding, LockInv, Shapes, Close, CASClosed
  <2>5. CloseInv'
    BY <1>9 DEF Core, CloseInv, LockInv, RoleInv, FrameInv, Shapes, Close, CASClosed
  <2>6. DataInv'
    BY <1>9 DEF Core, DataInv, FrameInv, CloseInv, Shapes, Close, CASClosed
  <2> QED
    BY <2>1, <2>2, <2>3, <2>4, <2>5, <2>6 DEF Core
<1>10. ASSUME NEW t \in Threads, RecvBufClose(t) PROVE Core'
  <2>1. Shapes'
    BY <1>10 DEF Core, Shapes, RecvBufClose
  <2>2. LockInv'
    BY <1>10 DEF Core, LockInv, Shapes, RecvBufClose
  <2>3. RoleInv'
    BY <1>10 DEF Core, RoleInv, Shapes, RecvBufClose
  <2>4. FrameInv'
    BY <1>10 DEF Core, FrameInv, Holding, LockInv, Shapes, RecvBufClose
  <2>5. CloseInv'
    BY <1>10 DEF Core, CloseInv, LockInv, RoleInv, FrameInv, Shapes, RecvBufClose
  <2>6. DataInv'
    BY <1>10 DEF Core, DataInv, FrameInv, CloseInv, Shapes, RecvBufClose
  <2> QED
    BY <2>1, <2>2, <2>3, <2>4, <2>5, <2>6 DEF Core
<1>11. ASSUME NEW n \in 1 .. Len(buf), Read(n) PROVE Core'
  <2>1. /\ out \in Seq(0 .. NData - 1) /\ buf \in Seq(0 .. NData - 1)
        /\ out' = out \o SubSeq(buf, 1, n)
        /\ buf' = SubSeq(buf, n + 1, Len(buf))
    BY <1>11 DEF Core, Shapes, Read
  <2>2. /\ out' \in Seq(0 .. NData - 1) /\ buf' \in Seq(0 .. NData - 1)
        /\ Len(out') = Len(out) + n /\ Len(buf') = Len(buf) - n
        /\ \A i \in 1 .. Len(out') : out'[i] = i - 1
        /\ \A i \in 1 .. Len(buf') : buf'[i] = Len(out') + i - 1
    <3>1. /\ \A i \in 1 .. Len(out) : out[i] = i - 1
          /\ \A i \in 1 .. Len(buf) : buf[i] = Len(out) + i - 1
      BY DEF Core, DataInv
    <3> QED
      BY Zenon, <2>1, <3>1, MoveRun
  <2>3. Shapes' /\ LockInv' /\ RoleInv' /\ FrameInv' /\ CloseInv'
    BY Zenon, <1>11, <2>2 DEF Core, Shapes, LockInv, RoleInv, FrameInv, Holding,
       CloseInv, Read
  <2>4. DataInv'
    <3>1. Len(out) \in Nat /\ Len(buf) \in Nat
      BY <2>1
    <3>2. ~eof'
      BY <1>11, Zenon DEF Read
    <3>3. nextRecvSeq' = nextRecvSeq /\ closedBy' = closedBy
          /\ (pipeClosed' <=> pipeClosed)
      BY <1>11, Zenon DEF Read
    <3>4. Len(out') + Len(buf') = Len(out) + Len(buf)
      BY <2>2, <3>1
    <3> QED
      BY <2>2, <3>2, <3>3, <3>4 DEF Core, DataInv
  <2> QED
    BY <2>3, <2>4 DEF Core
<1>12. CASE ReadEOF
  <2>1. (eof => pipeClosed /\ buf = << >>)'
    BY <1>12, Zenon DEF ReadEOF
  <2>2. (Shapes /\ LockInv /\ RoleInv /\ FrameInv /\ CloseInv)'
    BY <1>12 DEF Core, Shapes, LockInv, RoleInv, FrameInv, Holding, CloseInv,
       ReadEOF
  <2> QED
    BY <1>12, <2>1, <2>2 DEF Core, DataInv, ReadEOF
<1>13. CASE Quit \/ Finished \/ UNCHANGED vars
  <2>1. UNCHANGED <<inflight, cur, pc, recvM, nextRecvSeq, sh, buf, pipeClosed,
                    closedBy, out, eof>>
    BY <1>13, Zenon DEF Quit, Finished, vars
  <2> QED
    BY <2>1 DEF Core, Shapes, LockInv, RoleInv, FrameInv, Holding, CloseInv,
       DataInv
<1> QED
  BY <1>1, <1>2, <1>3, <1>4, <1>5, <1>6, <1>7, <1>8, <1>9, <1>10, <1>11,
     <1>12, <1>13, Zenon DEF Next, DeplexerStep, CloserStep, ReaderStep
-----------------------------------------------------------------------------
(* The inductive invariant holds in every reachable state. *)
THEOREM Invariance == Spec => []IInv
<1>1. IInv <=> Flags /\ Core
  BY Zenon DEF IInv, Core, TypeOK, Flags, Shapes
<1>2. Init => Flags /\ Core
  BY <1>1, InitIInv, Zenon
<1>3. (Flags /\ Core) /\ [Next]_vars => (Flags /\ Core)'
  BY FlagsStep, CoreStep, Zenon
<1> QED
  BY <1>1, <1>2, <1>3, PTL DEF Spec

(* Type correctness of the stream buffer's state. *)
THEOREM TypeCorrect == Spec => []TypeOK
<1>1. IInv => TypeOK
  BY Zenon DEF IInv
<1> QED
  BY <1>1, Invariance, PTL

(* streamBuffer.Write and Read never lose, repeat or reorder a unit.       *)
(* DataInv says so of what is still buffered too, and FrameInv is what     *)
(* makes the frame taken next the one that DataInv needs.                  *)
THEOREM ReadsInOrder == Spec => []InOrder
<1>1. IInv => InOrder
  BY Zenon DEF IInv, DataInv, InOrder
<1> QED
  BY <1>1, Invariance, PTL

(* A stream the remote closed is read to its last unit before io.EOF. *)
THEOREM RemoteCloseIsComplete == Spec => []RemoteCloseDeliversAll
<1>1. IInv => RemoteCloseDeliversAll
  <2> SUFFICES ASSUME IInv, eof, closedBy = "remote" PROVE Len(out) = NData
    BY DEF RemoteCloseDeliversAll
  <2>1. nextRecvSeq = NData /\ Len(out) + Len(buf) = nextRecvSeq /\ buf = << >>
    BY DEF IInv, CloseInv, DataInv
  <2>2. Len(out) \in Nat /\ Len(buf) = 0
    BY <2>1 DEF IInv, TypeOK
  <2> QED
    BY <2>1, <2>2
<1> QED
  BY <1>1, Invariance, PTL

(* The stale-frame error of streamBuffer.Write is never met. *)
THEOREM FramesNeverStale == Spec => []NoStaleFrame
<1>1. IInv => NoStaleFrame
  BY DEF IInv, FrameInv, Holding, NoStaleFrame
<1> QED
  BY <1>1, Invariance, PTL

(* recvBufferSizeLimit bounds the unread data but for one frame: only one  *)
(* deplexer at a time is between the test of the limit and the append.     *)
THEOREM BufferStaysBounded == Spec => []BufferBounded
<1>1. Init => BufferBounded
  BY DEF Init, BufferBounded
<1>2. ASSUME IInv, BufferBounded, [Next]_vars PROVE BufferBounded'
  <2>1. buf \in Seq(0 .. NData - 1)
    BY <1>2, Zenon DEF IInv, TypeOK
  <2>2. ASSUME NEW d \in Deplexers, PipeWrite(d) PROVE BufferBounded'
    <3>1. \/ buf' = buf
          \/ Len(buf) <= Limit /\ buf' = Append(buf, cur[d])
      BY <2>2, Zenon DEF PipeWrite, CanWrite
    <3> QED
      BY <1>2, <2>1, <3>1 DEF BufferBounded
  <2>3. ASSUME NEW n \in 1 .. Len(buf), Read(n) PROVE BufferBounded'
    <3>1. Len(buf') = Len(buf) - n
      BY <2>1, <2>3, RestOfSeq DEF Read
    <3>2. Len(buf) \in Nat /\ n \in Nat
      BY <2>1
    <3> QED
      BY <1>2, <3>1, <3>2 DEF BufferBounded
  <2>4. CASE buf' = buf
    BY <1>2, <2>4 DEF BufferBounded
  <2> QED
    BY <1>2, <2>2, <2>3, <2>4, Zenon DEF Next, DeplexerStep, CloserStep,
       ReaderStep, RecvFrame, IgnoreFrame, WriteInOrder, WriteOutOfOrder,
       PopHeap, WriteReturns, PassiveClose, Close, RecvBufClose, ReadEOF,
       Quit, Finished, vars
<1> QED
  BY <1>1, <1>2, Invariance, PTL DEF Spec

(* Every step of the buffer is a step of OrderedStream or none: a Read     *)
(* delivers the units that follow, the CompareAndSwap won on this side     *)
(* aborts, io.EOF ends the stream.                                         *)
LEMMA StepRefines == IInv /\ IInv' /\ [Next]_vars => [Promise!Next]_(Promise!vars)
<1> SUFFICES ASSUME IInv, IInv', [Next]_vars
             PROVE  Promise!Next \/ Promise!vars' = Promise!vars
  OBVIOUS
<1>1. ASSUME NEW n \in 1 .. Len(buf), Read(n) PROVE Promise!Next
  <2>1. /\ out \in Seq(0 .. NData - 1) /\ buf \in Seq(0 .. NData - 1)
        /\ nextRecvSeq \in 0 .. NData
    BY DEF IInv, TypeOK
  <2>2. out' = out \o SubSeq(buf, 1, n) /\ ~eof /\ eof' = eof /\ closedBy' = closedBy
    BY <1>1, Zenon DEF Read
  <2>3. /\ Len(out) \in Nat /\ Len(buf) \in Nat /\ n \in Nat
        /\ n <= Len(buf) /\ Len(out) + Len(buf) <= NData
    BY <2>1 DEF IInv, DataInv
  <2>4. SubSeq(buf, 1, n) = [i \in 1 .. n |-> Len(out) + i - 1]
    <3>1. \A i \in 1 .. n : buf[i] = Len(out) + i - 1
      BY <2>3 DEF IInv, DataInv
    <3> QED
      BY <2>1, <2>3, <3>1
  <2>5. n \in 1 .. NData - Len(out)
    BY <2>3
  <2>6. Promise!Deliver
    BY <2>2, <2>4, <2>5, Zenon DEF Promise!Deliver
  <2> QED
    BY <2>6, Zenon DEF Promise!Next
<1>2. CASE ReadEOF
  <2>1. ~eof /\ eof' = TRUE /\ out' = out /\ closedBy' = closedBy
    BY <1>2, Zenon DEF ReadEOF
  <2>2. closedBy = "local" \/ Len(out) = NData
    <3>1. pipeClosed /\ buf = << >>
      BY <1>2, Zenon DEF ReadEOF
    <3>2. /\ closedBy = "remote" => nextRecvSeq = NData
          /\ closedBy # "nobody"
          /\ closedBy # "local" => Len(out) + Len(buf) = nextRecvSeq
      BY <3>1 DEF IInv, CloseInv, DataInv
    <3>3. closedBy \in {"nobody", "remote", "local"} /\ Len(out) \in Nat
      BY DEF IInv, TypeOK
    <3> QED
      BY <3>1, <3>2, <3>3
  <2>3. Promise!End
    BY <2>1, <2>2, Zenon DEF Promise!End
  <2> QED
    BY <2>3, Zenon DEF Promise!Next
<1>3. ASSUME NEW c \in Closers, Close(c)
      PROVE  Promise!Next \/ Promise!vars' = Promise!vars
  <2>1. out' = out /\ eof' = eof
    BY <1>3, Zenon DEF Close
  <2>2. CASE closedBy = "nobody" /\ closedBy' = "local"
    BY <2>1, <2>2 DEF Promise!Next, Promise!Abort
  <2>3. CASE closedBy' = closedBy
    BY <2>1, <2>3, Zenon DEF Promise!vars
  <2> QED
    BY <1>3, <2>2, <2>3, Zenon DEF Close, CASClosed
<1>4. ASSUME NEW d \in Deplexers, PassiveClose(d)
      PROVE  Promise!vars' = Promise!vars
  <2>1. out' = out /\ eof' = eof
    BY <1>4, Zenon DEF PassiveClose
  <2>2. (closedBy' = "local") = (closedBy = "local")
    BY <1>4 DEF PassiveClose, CASClosed
  <2> QED
    BY <2>1, <2>2, Zenon DEF Promise!vars
<1>5. CASE UNCHANGED <<out, eof, closedBy>>
  BY <1>5, Zenon DEF Promise!vars
<1> QED
  BY <1>1, <1>2, <1>3, <1>4, <1>5, Zenon DEF Next, DeplexerStep, CloserStep,
     ReaderStep, RecvFrame, IgnoreFrame, WriteInOrder, WriteOutOfOrder, PopHeap,
     WriteReturns, PipeWrite, RecvBufClose, Quit, Finished, vars

(* The stream buffer implements OrderedStream: whatever the interleaving   *)
(* of deplexers, closers and reader, the reader meets the promised stream. *)
THEOREM Refinement == Spec => ImplementsOrderedStream
<1>1. Init => Promise!Init
  BY DEF Init, Promise!Init
<1> QED
  BY <1>1, StepRefines, Invariance, PTL
     DEF Spec, ImplementsOrderedStream, Promise!Spec
=============================================================================
