---------------------------- MODULE StreamBuffer ----------------------------
(***************************************************************************)
(* The receive side of one ordered stream: streamBuffer (the heap that     *)
(* sorts frames), the streamBufferedPipe below it, and the three kinds of  *)
(* goroutine that meet there: the switchboard's deplexers, which write     *)
(* frames; the goroutine that reads; and whoever closes the stream.        *)
(*                                                                         *)
(* A frame is its sequence number.  Frames 0 .. NData-1 carry one unit of  *)
(* payload each, named by the frame's number; frame NData is the closing   *)
(* frame of Stream.Close; the NLate frames after it were sent by a         *)
(* ReadFrom that had passed its isClosed check, and carry the Closing mark *)
(* too.  uniformSpread gives every frame a random connection, so frames    *)
(* reach the buffer in any order.                                          *)
(*                                                                         *)
(* The pipe's own mutex is held only for the length of one step, and every *)
(* change of the pipe is followed by a Broadcast, so a goroutine waiting   *)
(* on rwCond is one whose step is not enabled yet.  recvM is held across a *)
(* blocking pipe write and is a variable.                                  *)
(***************************************************************************)
EXTENDS Integers, Sequences

CONSTANTS
  Deplexers,          \* one goroutine per underlying connection
  Closers,            \* goroutines that may call Stream.Close or closeSession
  NData,              \* data frames the remote end sends
  NLate,              \* frames it sends after its closing frame
  Limit,              \* recvBufferSizeLimit
  Free                \* nobody holds recvM

ASSUME NDataAssumption == NData \in Nat
ASSUME NLateAssumption == NLate \in Nat
ASSUME LimitAssumption == Limit \in Nat
ASSUME ThreadsAssumption ==
  /\ Deplexers \cap Closers = {}
  /\ Free \notin Deplexers

VARIABLES
  inflight,           \* frames on the wire
  cur,                \* the frame each deplexer is working on
  pc,                 \* where each goroutine is
  recvM,              \* holder of streamBuffer.recvM
  nextRecvSeq,
  sh,                 \* the sorter heap, as the set of its frames
  buf,                \* streamBufferedPipe.buf
  pipeClosed,         \* streamBufferedPipe.closed
  closedBy,           \* Stream.closed, and which side won the CompareAndSwap
  reading,            \* the reader still calls Read
  out,                \* history: the units Read has returned
  eof                 \* Read has returned io.EOF

vars == <<inflight, cur, pc, recvM, nextRecvSeq, sh, buf, pipeClosed,
          closedBy, reading, out, eof>>

Threads == Deplexers \cup Closers
Frames == 0 .. NData + NLate
Closing(f) == f >= NData

TypeOK ==
  /\ inflight \subseteq Frames
  /\ cur \in [Deplexers -> Frames]
  /\ pc \in [Threads -> {"read", "lock", "pipe", "drain", "close", "recvClose",
                         "open", "done"}]
  /\ recvM \in Deplexers \cup {Free}
  /\ nextRecvSeq \in 0 .. NData
  /\ sh \subseteq Frames
  /\ buf \in Seq(0 .. NData - 1)
  /\ pipeClosed \in BOOLEAN
  /\ closedBy \in {"nobody", "remote", "local"}
  /\ reading \in BOOLEAN
  /\ out \in Seq(0 .. NData - 1)
  /\ eof \in BOOLEAN

Init ==
  /\ inflight = Frames
  /\ cur = [d \in Deplexers |-> 0]
  /\ pc = [t \in Threads |-> IF t \in Deplexers THEN "read" ELSE "open"]
  /\ recvM = Free
  /\ nextRecvSeq = 0
  /\ sh = {}
  /\ buf = << >>
  /\ pipeClosed = FALSE
  /\ closedBy = "nobody"
  /\ reading = TRUE
  /\ out = << >>
  /\ eof = FALSE

Goto(t, label) == pc' = [pc EXCEPT ![t] = label]
-----------------------------------------------------------------------------
(* A deplexer reads frame f and finds the stream in the session's map. *)
RecvFrame(d, f) ==
  /\ pc[d] = "read"
  /\ f \in inflight
  /\ inflight' = inflight \ {f}
  /\ cur' = [cur EXCEPT ![d] = f]
  /\ Goto(d, "lock")
  /\ UNCHANGED <<recvM, nextRecvSeq, sh, buf, pipeClosed, closedBy, reading,
                 out, eof>>

(* A deplexer reads frame f after the stream's entry was set to nil. *)
IgnoreFrame(d, f) ==
  /\ pc[d] = "read"
  /\ f \in inflight
  /\ closedBy # "nobody"
  /\ inflight' = inflight \ {f}
  /\ UNCHANGED <<cur, pc, recvM, nextRecvSeq, sh, buf, pipeClosed, closedBy,
                 reading, out, eof>>

(* Frame f is the next in order: a closing frame makes Write return        *)
(* (toBeClosed) and drop recvM, a data frame goes on to the pipe.          *)
Handle(d, f) ==
  /\ cur' = [cur EXCEPT ![d] = f]
  /\ \/ Closing(f) /\ Goto(d, "close") /\ recvM' = Free
     \/ ~Closing(f) /\ Goto(d, "pipe") /\ recvM' = d

(* Mutants of the in-order test: the sequence number is not looked at; a   *)
(* closing frame is taken at once; the comparison is >=.                   *)
IsNext_AnySeq(f) == sh = {}
IsNext_ClosingFirst(f) == sh = {} /\ (f = nextRecvSeq \/ Closing(f))
IsNext_OrLater(f) == sh = {} /\ f >= nextRecvSeq

(* The in-order case is tried before the heap is touched; after it the     *)
(* loop over the heap finds the heap empty.                                *)
IsNext(f) == sh = {} /\ f = nextRecvSeq

WriteInOrder(d) ==
  /\ pc[d] = "lock"
  /\ recvM = Free
  /\ IsNext(cur[d])
  /\ Handle(d, cur[d])
  /\ UNCHANGED <<inflight, nextRecvSeq, sh, buf, pipeClosed, closedBy, reading,
                 out, eof>>

(* Otherwise a frame older than nextRecvSeq is refused with an error, and  *)
(* any other one is pushed on the heap.                                    *)
WriteOutOfOrder(d) ==
  /\ pc[d] = "lock"
  /\ recvM = Free
  /\ ~IsNext(cur[d])
  /\ IF cur[d] < nextRecvSeq
       THEN Goto(d, "read") /\ UNCHANGED <<recvM, sh>>
       ELSE Goto(d, "drain") /\ recvM' = d /\ sh' = sh \cup {cur[d]}
  /\ UNCHANGED <<inflight, cur, nextRecvSeq, buf, pipeClosed, closedBy, reading,
                 out, eof>>

(* sh[0], the least frame of the heap, is the one wanted next. *)
TopIsNext ==
  \E f \in sh : f = nextRecvSeq /\ \A g \in sh : f <= g

PopHeap(d) ==
  /\ pc[d] = "drain"
  /\ TopIsNext
  /\ sh' = sh \ {nextRecvSeq}
  /\ Handle(d, nextRecvSeq)
  /\ UNCHANGED <<inflight, nextRecvSeq, buf, pipeClosed, closedBy, reading, out,
                 eof>>

(* Mutant: the loop over the heap may stop before its top is out of order. *)
WriteReturns_Early(d) ==
  /\ pc[d] = "drain"
  /\ Goto(d, "read")
  /\ recvM' = Free
  /\ UNCHANGED <<inflight, cur, nextRecvSeq, sh, buf, pipeClosed, closedBy,
                 reading, out, eof>>

(* Mutant: recvM is not released. *)
WriteReturns_KeepsLock(d) ==
  /\ pc[d] = "drain"
  /\ ~TopIsNext
  /\ Goto(d, "read")
  /\ UNCHANGED <<inflight, cur, recvM, nextRecvSeq, sh, buf, pipeClosed, closedBy,
                 reading, out, eof>>

(* Write returns (false, nil). *)
WriteReturns(d) ==
  /\ pc[d] = "drain"
  /\ ~TopIsNext
  /\ Goto(d, "read")
  /\ recvM' = Free
  /\ UNCHANGED <<inflight, cur, nextRecvSeq, sh, buf, pipeClosed, closedBy,
                 reading, out, eof>>

(* Mutant: the limit is never looked at. *)
CanWrite_NoLimit == TRUE

(* streamBufferedPipe.Write waits while the buffer is over its limit; on a *)
(* closed pipe it returns io.ErrClosedPipe, which streamBuffer.Write drops.*)
CanWrite == pipeClosed \/ Len(buf) <= Limit

PipeWrite(d) ==
  /\ pc[d] = "pipe"
  /\ CanWrite
  /\ buf' = IF pipeClosed THEN buf ELSE Append(buf, cur[d])
  /\ nextRecvSeq' = nextRecvSeq + 1
  /\ Goto(d, "drain")
  /\ UNCHANGED <<inflight, cur, recvM, sh, pipeClosed, closedBy, reading, out,
                 eof>>
-----------------------------------------------------------------------------
(* closeStream: the CompareAndSwap on Stream.closed, by the deplexer that  *)
(* was told toBeClosed or by a goroutine of this side.                     *)
CASClosed(t, side, label) ==
  \/ /\ closedBy = "nobody"
     /\ closedBy' = side
     /\ Goto(t, "recvClose")
  \/ /\ closedBy # "nobody"
     /\ Goto(t, label)
     /\ UNCHANGED closedBy

PassiveClose(d) ==
  /\ pc[d] = "close"
  /\ CASClosed(d, "remote", "read")
  /\ UNCHANGED <<inflight, cur, recvM, nextRecvSeq, sh, buf, pipeClosed,
                 reading, out, eof>>

Close(c) ==
  /\ pc[c] = "open"
  /\ CASClosed(c, "local", "done")
  /\ UNCHANGED <<inflight, cur, recvM, nextRecvSeq, sh, buf, pipeClosed,
                 reading, out, eof>>

(* streamBuffer.Close needs recvM before it can close the pipe. *)
RecvBufClose(t) ==
  /\ pc[t] = "recvClose"
  /\ recvM = Free
  /\ pipeClosed' = TRUE
  /\ Goto(t, IF t \in Deplexers THEN "read" ELSE "done")
  /\ UNCHANGED <<inflight, cur, recvM, nextRecvSeq, sh, buf, closedBy, reading,
                 out, eof>>
-----------------------------------------------------------------------------
(* streamBufferedPipe.Read with a target that takes n units. *)
Read(n) ==
  /\ reading /\ ~eof
  /\ n \in 1 .. Len(buf)
  /\ out' = out \o SubSeq(buf, 1, n)
  /\ buf' = SubSeq(buf, n + 1, Len(buf))
  /\ UNCHANGED <<inflight, cur, pc, recvM, nextRecvSeq, sh, pipeClosed,
                 closedBy, reading, eof>>

(* Mutant: a closed pipe is reported before its data is read. *)
ReadEOF_DropsRest ==
  /\ reading /\ ~eof
  /\ pipeClosed
  /\ eof' = TRUE
  /\ UNCHANGED <<inflight, cur, pc, recvM, nextRecvSeq, sh, buf, pipeClosed,
                 closedBy, reading, out>>

ReadEOF ==
  /\ reading /\ ~eof
  /\ pipeClosed /\ buf = << >>
  /\ eof' = TRUE
  /\ UNCHANGED <<inflight, cur, pc, recvM, nextRecvSeq, sh, buf, pipeClosed,
                 closedBy, reading, out>>

(* The reader's loop ends for a reason of its own (its write failed). *)
Quit ==
  /\ reading /\ ~eof
  /\ reading' = FALSE
  /\ UNCHANGED <<inflight, cur, pc, recvM, nextRecvSeq, sh, buf, pipeClosed,
                 closedBy, out, eof>>

(* Every frame was read, every goroutine is back and the reader is done. *)
Finished ==
  /\ inflight = {}
  /\ \A t \in Threads : pc[t] \in {"read", "done"}
  /\ eof \/ ~reading
  /\ UNCHANGED vars
-----------------------------------------------------------------------------
DeplexerStep(d) ==
  \/ \E f \in inflight : RecvFrame(d, f) \/ IgnoreFrame(d, f)
  \/ WriteInOrder(d) \/ WriteOutOfOrder(d)
  \/ PopHeap(d) \/ WriteReturns(d) \/ PipeWrite(d)
  \/ PassiveClose(d) \/ RecvBufClose(d)

CloserStep(c) == Close(c) \/ RecvBufClose(c)

ReaderStep == ReadEOF \/ \E n \in 1 .. Len(buf) : Read(n)

Next ==
  \/ \E d \in Deplexers : DeplexerStep(d)
  \/ \E c \in Closers : CloserStep(c)
  \/ ReaderStep
  \/ Quit
  \/ Finished

Spec == Init /\ [][Next]_vars

(* Goroutines that can run do run, connections deliver what was written to *)
(* them, and a reader that has not quit keeps reading (common.Copy loops   *)
(* until an error).  Nobody is obliged to close the stream or to quit.     *)
Fairness ==
  /\ \A d \in Deplexers : WF_vars(DeplexerStep(d))
  /\ \A c \in Closers : WF_vars(RecvBufClose(c))
  /\ WF_vars(ReaderStep)

FairSpec == Spec /\ Fairness
-----------------------------------------------------------------------------
(* Read returns the payloads in the order they were written to the stream, *)
(* whatever connection and deplexer each frame came through: no unit is    *)
(* lost, repeated or overtaken (streamBuffer.Write).                       *)
InOrder == \A i \in 1 .. Len(out) : out[i] = i - 1

(* When the end of the stream was decided by the remote's closing frame,   *)
(* the reader has had every unit sent before it: a closing frame that      *)
(* overtakes data, or a Close with data still buffered, truncates nothing. *)
RemoteCloseDeliversAll == eof /\ closedBy = "remote" => Len(out) = NData

(* The "seq is smaller than nextRecvSeq" error is never met on a stream    *)
(* whose sender numbers its frames once each, so no frame a deplexer holds *)
(* is thrown away as stale.                                                *)
NoStaleFrame == \A d \in Deplexers : pc[d] = "lock" => cur[d] >= nextRecvSeq

(* Unread data stays within one frame of recvBufferSizeLimit, with any     *)
(* number of deplexers writing at once.                                    *)
BufferBounded == Len(buf) <= Limit + 1

(* The reader of a stream the remote has closed reaches io.EOF, unless it  *)
(* stops reading, whatever the interleaving of deplexers and of a Close on *)
(* this side.                                                              *)
ReaderReachesEOF == <>(eof \/ ~reading)

(* Once a goroutine of this side has won the CompareAndSwap of closeStream *)
(* or closeSession its recvBuf.Close returns, with one exception: the      *)
(* reader has stopped reading, and a deplexer holds recvM while it waits   *)
(* for room in the pipe.  closeSession says of this call "will not block". *)
RecvBufCloseReturns ==
  \A c \in Closers :
    pc[c] = "recvClose"
      ~> (pc[c] = "done" \/ (~reading /\ \E d \in Deplexers : recvM = d /\ pc[d] = "pipe"))

(* The buffer implements the promise of OrderedStream to its reader. *)
Promise == INSTANCE OrderedStream WITH aborted <- (closedBy = "local")
ImplementsOrderedStream == Promise!Spec
=============================================================================
