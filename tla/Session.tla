------------------------------- MODULE Session -------------------------------
(***************************************************************************)
(* multiplex.Session: the map of streams, the accept channel, the atomic   *)
(* count of active streams, the inactivity timer, and the ways a session   *)
(* and its streams are closed, run by the goroutines that meet there:      *)
(*   Deplexers   one per underlying connection, run recvDataFromRemote;    *)
(*   Openers     client goroutines, OpenStream and later Stream.Close;     *)
(*   Accepter    serveSession's loop around Accept;                        *)
(*   RemoteIds   the goroutine serving each accepted stream;               *)
(*   Closers     goroutines that call Session.Close;                       *)
(*   Timers      goroutines time.AfterFunc starts to run checkTimeout.     *)
(*                                                                         *)
(* A stream the remote opened sends a data frame (0) and a closing frame   *)
(* (1), over any connection, in any order; its receive buffer says         *)
(* toBeClosed once both have been written (module StreamBuffer).  Fin is   *)
(* the frame with which the remote may close the session.  The switchboard *)
(* is reduced to its broken flag and the set of connections still open     *)
(* (module Switchboard).                                                   *)
(*                                                                         *)
(* A step ends where the code next touches state another goroutine can     *)
(* change: an atomic operation, taking streamsM, a channel operation.  A   *)
(* failed send is merged with the CompareAndSwap of the passiveClose it    *)
(* calls, and the last write to a receive buffer with the CompareAndSwap   *)
(* of the closeStream it calls, since nothing undoes their conditions.     *)
(***************************************************************************)
EXTENDS Integers, Sequences, FiniteSets

CONSTANTS
  Deplexers, Openers, Accepters, Closers, Timers,
  RemoteIds,          \* streams opened by the remote
  MaxOpen,            \* bound: OpenStream hands out the ids 1 .. MaxOpen
  AcceptBacklog,      \* capacity of acceptCh
  CountMod,           \* 2^32, the modulus of activeStreamCount
  Singleplexes,       \* values of SessionConfig.Singleplex considered
  MayDie,             \* connections may break
  MayFailDial,        \* serveSession may give the session up
  Fin,                \* the remote's closingSession frame
  NoOne

LocalIds == 1 .. MaxOpen
StreamIds == LocalIds \cup RemoteIds
Threads == Deplexers \cup Openers \cup Accepters \cup Closers \cup Timers
             \cup RemoteIds
FramesOf(s) == {s} \X {0, 1}

ASSUME SessionBounds ==
  /\ MaxOpen \in Nat
  /\ AcceptBacklog \in Nat \ {0}
  /\ CountMod \in Nat \ {0, 1}
  /\ Singleplexes \subseteq BOOLEAN
  /\ MayDie \in BOOLEAN /\ MayFailDial \in BOOLEAN
ASSUME SessionThreads ==
  /\ NoOne \notin Threads \cup LocalIds
  /\ LocalIds \cap Threads = {}
  /\ RemoteIds \cap (Deplexers \cup Openers \cup Accepters \cup Closers \cup Timers) = {}
  /\ Deplexers \cap (Openers \cup Accepters \cup Closers \cup Timers) = {}
  /\ Openers \cap (Accepters \cup Closers \cup Timers) = {}
  /\ Accepters \cap (Closers \cup Timers) = {}
  /\ Closers \cap Timers = {}
  /\ IsFiniteSet(Threads)
  /\ {Fin, NoOne} \cap (StreamIds \X {0, 1}) = {}

VARIABLES
  singleplex,         \* SessionConfig.Singleplex, never changed
  closed,             \* Session.closed
  nextStreamID,
  activeStreamCount,
  streamsM,           \* holder of streamsM
  streams,            \* each id: "absent", a "live" *Stream, or "nil"
  sclosed,            \* Stream.closed of each stream
  acceptCh, chClosed, \* the accept channel, and whether it was closed
  timers,             \* pending AfterFuncs, by the number of streams made before
  broken,             \* switchboard.broken
  conns,              \* connections still open
  inflight,           \* frames on the wire
  got,                \* frames written to each receive buffer
  pc,                 \* where each goroutine is
  frame,              \* the frame each deplexer is handling
  own                 \* the stream id each opener was given

vars == <<singleplex, closed, nextStreamID, activeStreamCount, streamsM,
          streams, sclosed, acceptCh, chClosed, timers, broken, conns, inflight,
          got, pc, frame, own>>

confVars == <<singleplex, nextStreamID>>
streamVars == <<streamsM, streams, sclosed>>
chVars == <<acceptCh, chClosed>>
netVars == <<broken, conns, inflight, got>>

(* Streams ever put in the map of a session that is still open. *)
Created == {s \in StreamIds : streams[s] # "absent"}
Live == {s \in StreamIds : streams[s] = "live"}

Labels == {"read", "chSend", "incr", "recvFrame", "open", "openStore",
           "openIncr", "accept", "acceptRecv", "none", "using", "csSend",
           "csNil", "csDecr", "idle", "Close", "sweep", "passiveSweep",
           "notice", "closeAll", "done"}

TypeOK ==
  /\ singleplex \in BOOLEAN
  /\ closed \in BOOLEAN
  /\ nextStreamID \in 1 .. MaxOpen + 1
  /\ activeStreamCount \in 0 .. CountMod - 1
  /\ streamsM \in Deplexers \cup {NoOne}
  /\ streams \in [StreamIds -> {"absent", "live", "nil"}]
  /\ sclosed \in [StreamIds -> BOOLEAN]
  /\ acceptCh \in Seq(RemoteIds)
  /\ chClosed \in BOOLEAN
  /\ timers \in [0 .. Cardinality(StreamIds) -> Nat]
  /\ broken \in BOOLEAN
  /\ conns \subseteq Deplexers
  /\ inflight \subseteq (StreamIds \X {0, 1}) \cup {Fin}
  /\ got \in [StreamIds -> SUBSET {0, 1}]
  /\ pc \in [Threads -> Labels]
  /\ frame \in [Deplexers -> (StreamIds \X {0, 1}) \cup {NoOne}]
  /\ own \in [Openers -> LocalIds \cup {NoOne}]

Init ==
  /\ singleplex \in Singleplexes
  /\ closed = FALSE
  /\ nextStreamID = 1
  /\ activeStreamCount = 0
  /\ streamsM = NoOne
  /\ streams = [s \in StreamIds |-> "absent"]
  /\ sclosed = [s \in StreamIds |-> FALSE]
  /\ acceptCh = << >>
  /\ chClosed = FALSE
  /\ timers = [e \in 0 .. Cardinality(StreamIds) |-> IF e = 0 THEN 1 ELSE 0]
  /\ broken = FALSE
  /\ conns = Deplexers
  /\ inflight \in {RemoteIds \X {0, 1}, (RemoteIds \X {0, 1}) \cup {Fin}}
  /\ got = [s \in StreamIds |-> {}]
  /\ pc = [t \in Threads |-> CASE t \in Deplexers -> "read"
                               [] t \in Openers -> "open"
                               [] t \in Accepters -> "accept"
                               [] t \in Closers \cup Timers -> "idle"
                               [] OTHER -> "none"]
  /\ frame = [d \in Deplexers |-> NoOne]
  /\ own = [o \in Openers |-> NoOne]

Goto(t, label) == pc' = [pc EXCEPT ![t] = label]

(* Where a goroutine goes on when the close it ran returns. *)
AfterClose(t) ==
  CASE t \in Deplexers -> "read"
    [] t \in Timers -> "idle"
    [] OTHER -> "done"

(* The stream a goroutine is working on. *)
StreamOf(t) ==
  CASE t \in Deplexers -> frame[t][1]
    [] t \in Openers -> own[t]
    [] OTHER -> t

(* A deplexer is through with its frame. *)
FrameDone(t) == [d \in Deplexers |-> IF d = t THEN NoOne ELSE frame[d]]

(* Mutant: the count is no unsigned number and goes below zero. *)
Minus_NoWrap(n) == activeStreamCount - n

(* atomic.AddUint32, up and down *)
Plus(n) == (activeStreamCount + n) % CountMod
Minus(n) == (activeStreamCount - n) % CountMod

(* closeSession's CompareAndSwap: the winner goes on to the sweep, anybody *)
(* else is told errRepeatSessionClosing and is done.                       *)
CASSession(t, sweep, otherwise) ==
  /\ closed' = TRUE
  /\ Goto(t, IF closed THEN otherwise ELSE sweep)

(* closeStream's CompareAndSwap on stream s. *)
CASStream(t, s, next) ==
  /\ sclosed' = [sclosed EXCEPT ![s] = TRUE]
  /\ Goto(t, IF sclosed[s] THEN AfterClose(t) ELSE next)
-----------------------------------------------------------------------------
(* recvDataFromRemote, a closingSession frame. *)
RecvFin(d) ==
  /\ pc[d] = "read" /\ d \in conns
  /\ Fin \in inflight
  /\ inflight' = inflight \ {Fin}
  /\ CASSession(d, "passiveSweep", "read")
  /\ UNCHANGED <<confVars, activeStreamCount, streamVars, chVars, timers,
                 broken, conns, got, frame, own>>

(* Any other frame is looked up with streamsM held. *)
TakeFrame(d, f) ==
  /\ pc[d] = "read" /\ d \in conns
  /\ f \in inflight \ {Fin}
  /\ streamsM = NoOne
  /\ inflight' = inflight \ {f}
  /\ UNCHANGED <<confVars, closed, activeStreamCount, sclosed, chVars,
                 timers, broken, conns, got, own>>

(* The session is closed, or the stream existed and is closed. *)
RecvDropped(d, f) ==
  /\ TakeFrame(d, f)
  /\ closed \/ streams[f[1]] = "nil"
  /\ UNCHANGED <<streamsM, streams, pc, frame>>

RecvExisting(d, f) ==
  /\ TakeFrame(d, f)
  /\ ~closed /\ streams[f[1]] = "live"
  /\ frame' = [frame EXCEPT ![d] = f]
  /\ Goto(d, "recvFrame")
  /\ UNCHANGED <<streamsM, streams>>

(* Mutant: a nil entry is taken for no entry. *)
RecvNew_NilIsNew(d, f) ==
  /\ TakeFrame(d, f)
  /\ ~closed /\ streams[f[1]] # "live"
  /\ streams' = [streams EXCEPT ![f[1]] = "live"]
  /\ streamsM' = d
  /\ frame' = [frame EXCEPT ![d] = f]
  /\ Goto(d, "chSend")

(* A new stream is stored, and streamsM is kept for the channel send. *)
RecvNew(d, f) ==
  /\ TakeFrame(d, f)
  /\ ~closed /\ streams[f[1]] = "absent"
  /\ streams' = [streams EXCEPT ![f[1]] = "live"]
  /\ streamsM' = d
  /\ frame' = [frame EXCEPT ![d] = f]
  /\ Goto(d, "chSend")

(* acceptCh <- newStream: blocks, with streamsM held, on a full channel. *)
ChSend(d) ==
  /\ pc[d] = "chSend"
  /\ Len(acceptCh) < AcceptBacklog
  /\ acceptCh' = Append(acceptCh, frame[d][1])
  /\ streamsM' = NoOne
  /\ Goto(d, "incr")
  /\ UNCHANGED <<confVars, closed, activeStreamCount, streams, sclosed,
                 chClosed, timers, netVars, frame, own>>

RecvIncr(d) ==
  /\ pc[d] = "incr"
  /\ activeStreamCount' = Plus(1)
  /\ Goto(d, "recvFrame")
  /\ UNCHANGED <<confVars, closed, streamVars, chVars, timers, netVars,
                 frame, own>>

(* recvFrame: toBeClosed once the closing frame and all before it are in,  *)
(* and then closeStream, passively.                                        *)
RecvFrame(d) ==
  LET s == frame[d][1]
      now == got[s] \cup {frame[d][2]}
  IN
  /\ pc[d] = "recvFrame"
  /\ got' = [got EXCEPT ![s] = now]
  /\ \/ now = {0, 1} /\ CASStream(d, s, "csNil")
     \/ now # {0, 1} /\ Goto(d, "read") /\ UNCHANGED sclosed
  /\ frame' = IF pc'[d] = "csNil" THEN frame ELSE FrameDone(d)
  /\ UNCHANGED <<confVars, closed, activeStreamCount, streamsM, streams,
                 chVars, timers, broken, conns, inflight, own>>

(* A connection breaks; its deplexer finds out at its next Read. *)
ConnDies(d) ==
  /\ MayDie
  /\ d \in conns
  /\ conns' = conns \ {d}
  /\ UNCHANGED <<confVars, closed, activeStreamCount, streamVars, chVars,
                 timers, broken, inflight, got, pc, frame, own>>

ReadError(d) ==
  /\ pc[d] = "read" /\ d \notin conns
  /\ CASSession(d, "passiveSweep", "done")
  /\ UNCHANGED <<confVars, activeStreamCount, streamVars, chVars, timers,
                 netVars, frame, own>>
-----------------------------------------------------------------------------
(* OpenStream, up to the id: a closed session, or a second stream of a     *)
(* singleplexed one, is refused.                                           *)
OpenRefused(o) ==
  /\ pc[o] = "open"
  /\ closed
  /\ Goto(o, "done")
  /\ UNCHANGED <<confVars, closed, activeStreamCount, streamVars, chVars,
                 timers, netVars, frame, own>>

OpenStream(o) ==
  /\ pc[o] = "open"
  /\ ~closed
  /\ nextStreamID <= MaxOpen
  /\ nextStreamID' = nextStreamID + 1
  /\ \/ /\ singleplex /\ nextStreamID > 1
        /\ Goto(o, "done")
        /\ UNCHANGED own
     \/ /\ ~(singleplex /\ nextStreamID > 1)
        /\ own' = [own EXCEPT ![o] = nextStreamID]
        /\ Goto(o, "openStore")
  /\ UNCHANGED <<singleplex, closed, activeStreamCount, streamVars, chVars, timers,
                 netVars, frame>>

OpenStore(o) ==
  /\ pc[o] = "openStore"
  /\ streamsM = NoOne
  /\ streams' = [streams EXCEPT ![own[o]] = "live"]
  /\ Goto(o, "openIncr")
  /\ UNCHANGED <<confVars, closed, activeStreamCount, streamsM, sclosed,
                 chVars, timers, netVars, frame, own>>

(* OpenStream returns; what is written to the stream brings the remote's   *)
(* answer and its closing frame.                                           *)
OpenIncr(o) ==
  /\ pc[o] = "openIncr"
  /\ activeStreamCount' = Plus(1)
  /\ inflight' = inflight \cup FramesOf(own[o])
  /\ Goto(o, "using")
  /\ UNCHANGED <<confVars, closed, streamVars, chVars, timers, broken,
                 conns, got, frame, own>>

Accept(a) ==
  /\ pc[a] = "accept"
  /\ Goto(a, IF closed THEN "done" ELSE "acceptRecv")
  /\ UNCHANGED <<confVars, closed, activeStreamCount, streamVars, chVars,
                 timers, netVars, frame, own>>

(* The stream received gets a goroutine of its own, unless the dial to the *)
(* proxied service fails and serveSession closes the whole session.        *)
AcceptRecv(a) ==
  /\ pc[a] = "acceptRecv"
  /\ acceptCh # << >>
  /\ acceptCh' = Tail(acceptCh)
  /\ \/ pc' = [pc EXCEPT ![a] = "accept", ![Head(acceptCh)] = "using"]
     \/ MayFailDial /\ Goto(a, "Close")
  /\ UNCHANGED <<confVars, closed, activeStreamCount, streamVars, chClosed,
                 timers, netVars, frame, own>>

AcceptBroken(a) ==
  /\ pc[a] = "acceptRecv"
  /\ acceptCh = << >> /\ chClosed
  /\ Goto(a, "done")
  /\ UNCHANGED <<confVars, closed, activeStreamCount, streamVars, chVars,
                 timers, netVars, frame, own>>
-----------------------------------------------------------------------------
(* Stream.Close by the goroutine that uses the stream. *)
StreamClose(u) ==
  /\ pc[u] = "using"
  /\ CASStream(u, StreamOf(u), "csSend")
  /\ UNCHANGED <<confVars, closed, activeStreamCount, streamsM, streams,
                 chVars, timers, netVars, frame, own>>

(* switchboard.send: fails on a broken switchboard, or when the connection *)
(* it picked has broken; either way passiveClose is called.                *)
SendOk == ~broken
SendFails == broken \/ conns # Deplexers

(* closeStream tells the remote; when that fails it returns at once. *)
CloseStreamSend(t) ==
  /\ pc[t] = "csSend"
  /\ \/ SendOk /\ Goto(t, "csNil") /\ UNCHANGED closed
     \/ SendFails /\ CASSession(t, "passiveSweep", "done")
  /\ UNCHANGED <<confVars, activeStreamCount, streamVars, chVars, timers,
                 netVars, frame, own>>

CloseStreamNil(t) ==
  /\ pc[t] = "csNil"
  /\ streamsM = NoOne
  /\ streams' = [streams EXCEPT ![StreamOf(t)] = "nil"]
  /\ Goto(t, "csDecr")
  /\ UNCHANGED <<confVars, closed, activeStreamCount, streamsM, sclosed,
                 chVars, timers, netVars, frame, own>>

(* Mutant: only the timer of MakeSession is ever armed. *)
ArmTimer_Never == UNCHANGED timers

(* time.AfterFunc(InactivityTimeout, checkTimeout) *)
ArmTimer ==
  timers' = [timers EXCEPT ![Cardinality(Created)] = @ + 1]

(* Mutant: the end of the only stream of a singleplexed session leaves it  *)
(* open.                                                                   *)
CloseStreamDecr_NoClose(t) ==
  /\ pc[t] = "csDecr"
  /\ activeStreamCount' = Minus(1)
  /\ UNCHANGED timers
  /\ Goto(t, AfterClose(t))
  /\ frame' = FrameDone(t)
  /\ UNCHANGED <<confVars, closed, streamVars, chVars, netVars, own>>

CloseStreamDecr(t) ==
  /\ pc[t] = "csDecr"
  /\ activeStreamCount' = Minus(1)
  /\ IF activeStreamCount' = 0 /\ ~singleplex THEN ArmTimer ELSE UNCHANGED timers
  /\ Goto(t, IF activeStreamCount' = 0 /\ singleplex THEN "Close"
                                                     ELSE AfterClose(t))
  /\ frame' = FrameDone(t)
  /\ UNCHANGED <<confVars, closed, streamVars, chVars, netVars, own>>
-----------------------------------------------------------------------------
(* A timer armed when e streams had been made fires. *)
CheckTimeout(t, e) ==
  /\ pc[t] = "idle"
  /\ timers[e] > 0
  /\ timers' = [timers EXCEPT ![e] = @ - 1]
  /\ Goto(t, IF activeStreamCount = 0 /\ ~closed THEN "Close" ELSE "idle")
  /\ UNCHANGED <<confVars, closed, activeStreamCount, streamVars, chVars,
                 netVars, frame, own>>

(* Session.Close by checkTimeout, by serveSession, by the end of the       *)
(* stream of a singleplexed session, or by any other goroutine.            *)
SessionClose(t) ==
  /\ pc[t] = "Close" \/ (t \in Closers /\ pc[t] = "idle")
  /\ CASSession(t, "sweep", AfterClose(t))
  /\ UNCHANGED <<confVars, activeStreamCount, streamVars, chVars, timers,
                 netVars, frame, own>>

(* Mutant: streams nobody has accepted yet are not looked at. *)
Swept_AcceptedOnly ==
  {s \in Live : ~sclosed[s] /\ \A i \in 1 .. Len(acceptCh) : acceptCh[i] # s}

(* closeSession with streamsM: the channel and every open stream. *)
Swept == {s \in Live : ~sclosed[s]}

(* Mutants: the sweep does not take streamsM; it forgets to count down. *)
CloseSessionSweep_NoLock(t) ==
  /\ pc[t] \in {"passiveSweep", "sweep"}
  /\ chClosed' = TRUE
  /\ sclosed' = [s \in StreamIds |-> sclosed[s] \/ s \in Swept]
  /\ streams' = [s \in StreamIds |-> IF s \in Swept THEN "absent" ELSE streams[s]]
  /\ activeStreamCount' = Minus(Cardinality(Swept))
  /\ Goto(t, IF pc[t] = "sweep" THEN "notice" ELSE "closeAll")
  /\ UNCHANGED <<confVars, closed, streamsM, acceptCh, timers, netVars,
                 frame, own>>

CloseSessionSweep_NoDecr(t) ==
  /\ pc[t] \in {"passiveSweep", "sweep"}
  /\ streamsM = NoOne
  /\ chClosed' = TRUE
  /\ sclosed' = [s \in StreamIds |-> sclosed[s] \/ s \in Swept]
  /\ streams' = [s \in StreamIds |-> IF s \in Swept THEN "absent" ELSE streams[s]]
  /\ Goto(t, IF pc[t] = "sweep" THEN "notice" ELSE "closeAll")
  /\ UNCHANGED <<confVars, closed, activeStreamCount, streamsM, acceptCh,
                 timers, netVars, frame, own>>

CloseSessionSweep(t) ==
  /\ pc[t] \in {"passiveSweep", "sweep"}
  /\ streamsM = NoOne
  /\ chClosed' = TRUE
  /\ sclosed' = [s \in StreamIds |-> sclosed[s] \/ s \in Swept]
  /\ streams' = [s \in StreamIds |-> IF s \in Swept THEN "absent" ELSE streams[s]]
  /\ activeStreamCount' = Minus(Cardinality(Swept))
  /\ Goto(t, IF pc[t] = "sweep" THEN "notice" ELSE "closeAll")
  /\ UNCHANGED <<confVars, closed, streamsM, acceptCh, timers, netVars,
                 frame, own>>

(* Close tells the remote; when that fails it returns without closeAll. *)
SendNotice(t) ==
  /\ pc[t] = "notice"
  /\ \/ SendOk /\ Goto(t, "closeAll")
     \/ SendFails /\ Goto(t, AfterClose(t))
  /\ UNCHANGED <<confVars, closed, activeStreamCount, streamVars, chVars,
                 timers, netVars, frame, own>>

CloseAll(t) ==
  /\ pc[t] = "closeAll"
  /\ broken' = TRUE
  /\ conns' = {}
  /\ Goto(t, AfterClose(t))
  /\ UNCHANGED <<confVars, closed, activeStreamCount, streamVars, chVars,
                 timers, inflight, got, frame, own>>
-----------------------------------------------------------------------------
(* The steps of a close that has been entered. *)
CloseStep(t) ==
  \/ CloseStreamSend(t) \/ CloseStreamNil(t) \/ CloseStreamDecr(t)
  \/ pc[t] = "Close" /\ SessionClose(t)
  \/ CloseSessionSweep(t) \/ SendNotice(t) \/ CloseAll(t)

DeplexerStep(d) ==
  \/ RecvFin(d)
  \/ \E f \in inflight \ {Fin} :
        RecvDropped(d, f) \/ RecvExisting(d, f) \/ RecvNew(d, f)
  \/ ChSend(d) \/ RecvIncr(d) \/ RecvFrame(d) \/ ReadError(d)

OpenerStep(o) ==
  OpenRefused(o) \/ OpenStream(o) \/ OpenStore(o) \/ OpenIncr(o)

AccepterStep(a) == Accept(a) \/ AcceptRecv(a) \/ AcceptBroken(a)

TimerStep(t) == \E e \in DOMAIN timers : CheckTimeout(t, e)

Next ==
  \/ \E d \in Deplexers : DeplexerStep(d) \/ ConnDies(d)
  \/ \E o \in Openers : OpenerStep(o)
  \/ \E a \in Accepters : AccepterStep(a)
  \/ \E u \in Openers \cup RemoteIds : StreamClose(u)
  \/ \E c \in Closers : SessionClose(c)
  \/ \E t \in Timers : TimerStep(t)
  \/ \E t \in Threads : CloseStep(t)

Spec == Init /\ [][Next]_vars

(* Goroutines that can run do run and sync.Mutex lets no waiter starve;    *)
(* connections deliver what was written to them; time passes, so a pending *)
(* timer fires.  Opening, closing and breaking are never obligatory.       *)
Fairness ==
  /\ \A d \in Deplexers : WF_vars(DeplexerStep(d))
  /\ \A o \in Openers : WF_vars(OpenStore(o) \/ OpenIncr(o))
  /\ \A a \in Accepters : WF_vars(AccepterStep(a))
  /\ \A t \in Timers : WF_vars(TimerStep(t))
  /\ \A t \in Threads : WF_vars(CloseStep(t))

FairSpec == Spec /\ Fairness
-----------------------------------------------------------------------------
(* A deplexer never sends on acceptCh after closeSession closed it (a      *)
(* panic that would end the process): recvDataFromRemote looks at closed   *)
(* with streamsM held, and the channel is closed with streamsM held.       *)
NoSendOnClosedChannel ==
  \A d \in Deplexers : pc[d] = "chSend" => ~chClosed

(* No stream the remote opened is left behind by closeSession: once the    *)
(* accept channel is closed each of them has been closed, so its reader    *)
(* gets io.EOF.                                                            *)
NoRemoteStreamSurvives ==
  chClosed => \A s \in RemoteIds : streams[s] = "live" => sclosed[s]

(* The count of active streams, read modulo 2^32, is the number of live    *)
(* entries of the map plus the decrements and minus the increments that    *)
(* are still to come, through every race of openers, closers and the       *)
(* sweep of closeSession.                                                  *)
PendingIncr == {t \in Threads : pc[t] \in {"chSend", "incr", "openIncr"}}
PendingDecr == {t \in Threads : pc[t] = "csDecr"}
CountAgrees ==
  activeStreamCount =
    (Cardinality(Live) + Cardinality(PendingDecr) - Cardinality(PendingIncr))
      % CountMod

(* A closed stream never comes back: once it has left the map its id names *)
(* no other stream, so a frame that arrives late is not taken for the      *)
(* first of a new stream.                                                  *)
NoResurrection ==
  [][\A s \in StreamIds :
       sclosed[s] /\ streams[s] # "live" => streams'[s] # "live"]_vars

(* A session without active streams closes itself unless a stream is       *)
(* opened: whenever the last stream goes, an inactivity timer is pending.  *)
IdleSessionCloses == (~closed /\ Live = {}) ~> (closed \/ Live # {})

(* Closing a session takes its course: whoever set Session.closed gets     *)
(* streamsM and finishes.                                                  *)
CloseReturns ==
  \A t \in Threads : pc[t] \in {"sweep", "passiveSweep"} ~> chClosed

(* The one stream of a singleplexed session takes the session with it. *)
SingleplexCloses ==
  \A s \in StreamIds : (singleplex /\ sclosed[s]) ~> closed
=============================================================================
