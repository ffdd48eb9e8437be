------------------------------- MODULE Client -------------------------------
(***************************************************************************)
(* The client: RouteUDP and RouteTCP, which give each proxy client a       *)
(* stream, over sessions that MakeSession dials.  A peer is the address of *)
(* a UDP proxy client, or an accepted TCP connection.  Init picks the      *)
(* configuration: UDP or TCP, singleplexed or not, and the transport.      *)
(*                                                                         *)
(* Of a session the piper sees: whether OpenStream finds it closed, whether*)
(* a stream was there for closeSession's sweep, and whether a Write still  *)
(* gets through.                                                           *)
(***************************************************************************)
EXTENDS Naturals, FiniteSets

CONSTANTS
  Configs,            \* the configurations: [udp, singleplex, transport]
  Addrs, Locals,      \* UDP addresses of proxy clients; their TCP connections
  NumConn,            \* connections of a session
  MaxSesh, MaxStream, \* bounds: sessions and streams made
  MaxDatagrams        \* bound: datagrams read by RouteUDP

ASSUME ClientAssumption ==
  /\ Configs \subseteq [udp : BOOLEAN, singleplex : BOOLEAN, transport : {"chrome", "cdn"}]
  /\ Addrs \cap Locals = {} /\ {0, "main"} \cap (Addrs \cup Locals) = {}
  /\ {NumConn, MaxSesh, MaxStream, MaxDatagrams} \subseteq Nat \ {0}
  /\ \A max \in {MaxSesh, MaxStream} : max >= Cardinality(Locals) /\ max >= MaxDatagrams

Peers == Addrs \cup Locals
Sessions == 1 .. MaxSesh
Streams == 1 .. MaxStream
Conns == Sessions \X (1 .. NumConn)
main == "main"
Threads == {main} \cup Peers
Nil == 0

VARIABLES
  udp, singleplex, transport,   \* the configuration
  exited,             \* the process has ended
  sessions, conn, sig,\* sessions; their connections and ClientHello signatures
  sesh,               \* the variable sesh of each goroutine
  pc,                 \* RouteUDP/RouteTCP, and RouteTCP's goroutine per peer
  peer, stream,       \* the datagram RouteUDP handles: addr and stream
  reads,              \* datagrams read
  locked,             \* RouteUDP holds streamsMutex
  streams,            \* RouteUDP's map: address -> stream
  owner, within,      \* each stream's peer and session
  open, late,         \* streams not closed; streams the sweep has missed
  reader,             \* RouteUDP's goroutine per stream
  local,              \* RouteTCP's localConn
  up, down            \* the two calls of Copy: stream to local, local to stream

config == <<udp, singleplex, transport>>
seshVars == <<sessions, conn, sig>>
streamVars == <<owner, within, open, late>>
udpVars == <<peer, stream, reads, locked, streams, reader>>
tcpVars == <<local, up, down>>
vars == <<config, exited, seshVars, sesh, pc, streamVars, udpVars, tcpVars>>

TypeOK ==
  /\ udp \in BOOLEAN /\ singleplex \in BOOLEAN /\ exited \in BOOLEAN
  /\ transport \in {"chrome", "cdn"}
  /\ sessions \in [Sessions -> {"none", "making", "up", "swept", "broken"}]
  /\ conn \in [Conns -> {"none", "dial", "handshake", "ready"}]
  /\ sig \in [Conns -> {"chrome", "firefox", "cdn"}]
  /\ sesh \in [Threads -> Sessions \cup {Nil}]
  /\ pc \in [Threads -> {"idle", "make", "lookup", "makeLocked", "open", "store",
                         "write", "drop", "close", "read", "copy", "done"}]
  /\ peer \in Peers \cup {Nil} /\ stream \in Streams \cup {Nil}
  /\ reads \in 0 .. MaxDatagrams
  /\ locked \in BOOLEAN
  /\ streams \in [Peers -> Streams \cup {Nil}]
  /\ owner \in [Streams -> Peers \cup {Nil}]
  /\ within \in [Streams -> Sessions \cup {Nil}]
  /\ open \subseteq Streams /\ late \subseteq Streams
  /\ reader \in [Streams -> {"none", "read", "drop", "close", "done"}]
  /\ local \in [Peers -> {"none", "open", "eof", "closed"}]
  /\ up \in [Peers -> {"none", "run", "done"}] /\ down \in [Peers -> {"none", "run", "done"}]

Init ==
  /\ \E c \in Configs :
       udp = c.udp /\ singleplex = c.singleplex /\ transport = c.transport
  /\ exited = FALSE
  /\ sessions = [s \in Sessions |-> "none"]
  /\ conn = [c \in Conns |-> "none"] /\ sig = [c \in Conns |-> transport]
  /\ sesh = [t \in Threads |-> Nil]
  /\ pc = [t \in Threads |-> "idle"]
  /\ peer = Nil /\ stream = Nil /\ reads = 0 /\ locked = FALSE
  /\ streams = [p \in Peers |-> Nil]
  /\ owner = [n \in Streams |-> Nil] /\ within = [n \in Streams |-> Nil]
  /\ open = {} /\ late = {}
  /\ reader = [n \in Streams |-> "none"]
  /\ local = [p \in Peers |-> "none"]
  /\ up = [p \in Peers |-> "none"] /\ down = [p \in Peers |-> "none"]

(* The process ends. *)
Exit ==
  /\ exited = FALSE /\ exited' = TRUE
  /\ UNCHANGED <<config, seshVars, sesh, pc, streamVars, udpVars, tcpVars>>

(* A step that does not end the process. *)
Running == ~exited /\ UNCHANGED <<config, exited>>

Goto(t, label) == pc' = [pc EXCEPT ![t] = label]
Closed(s) == sessions[s] \in {"swept", "broken"}
NeedsSession == ~singleplex /\ (sesh[main] = Nil \/ Closed(sesh[main]))
StreamsOf(s) == {n \in open : within[n] = s}
-----------------------------------------------------------------------------
(* client.MakeSession, called by goroutine t: one goroutine per connection *)
(* is started and waited for.                                              *)
StartSession(t) ==
  \E s \in Sessions :
    /\ sessions[s] = "none"
    /\ \A r \in Sessions : r < s => sessions[r] # "none"
    /\ sessions' = [sessions EXCEPT ![s] = "making"]
    /\ conn' = [c \in Conns |-> IF c[1] = s THEN "dial" ELSE conn[c]]
    /\ sesh' = [sesh EXCEPT ![t] = s]
    /\ UNCHANGED sig

(* A dial that fails is tried again after three seconds. *)
Dial(c) ==
  /\ Running
  /\ conn[c] = "dial"
  /\ conn' = [conn EXCEPT ![c] = "handshake"]
  /\ UNCHANGED <<sessions, sig, sesh, pc, streamVars, udpVars, tcpVars>>

Fallback(b) == IF b = "chrome" THEN "firefox" ELSE b

(* Handshake fails and the connection is closed and dialled again.  When   *)
(* it fails before DirectTLS has its TLSConn, by building or by writing    *)
(* the ClientHello, Close is called on a nil *TLSConn and panics; WSOverTLS*)
(* has a Close of its own that checks.                                     *)
HandshakeFails(c) ==
  /\ conn[c] = "handshake"
  /\ \/ /\ Running
        /\ conn' = [conn EXCEPT ![c] = "dial"]
        /\ sig' = [sig EXCEPT ![c] = Fallback(@)]
        /\ UNCHANGED <<sessions, sesh, pc, streamVars, udpVars, tcpVars>>
     \/ sig[c] # "cdn" /\ Exit

(* The connection and the session key are handed over.  After the last one *)
(* wg.Wait returns, and the session gets its connections.  The fallback is *)
(* forgotten with the goroutine's copy of transportConfig.                 *)
HandshakeOk(c) ==
  /\ Running
  /\ conn[c] = "handshake"
  /\ conn' = [conn EXCEPT ![c] = "ready"]
  /\ sessions' = [sessions EXCEPT ![c[1]] =
        IF \A d \in Conns : d[1] = c[1] => conn'[d] = "ready" THEN "up" ELSE @]
  /\ sig' = [sig EXCEPT ![c] = transport]
  /\ UNCHANGED <<sesh, pc, streamVars, udpVars, tcpVars>>

(* MakeSession returns to goroutine t. *)
SessionMade(t) ==
  /\ Running
  /\ pc[t] \in {"make", "makeLocked"}
  /\ sessions[sesh[t]] # "making"
  /\ Goto(t, CASE pc[t] = "makeLocked" -> "open"
               [] t = main -> "lookup"
               [] OTHER -> "read")
  /\ UNCHANGED <<seshVars, sesh, streamVars, udpVars, tcpVars>>
-----------------------------------------------------------------------------
(* closeSession closes the streams it finds in the map. *)
Sweep(s) ==
  /\ sessions' = [sessions EXCEPT ![s] = "swept"]
  /\ open' = open \ StreamsOf(s)

(* The session is closed by the remote, by a broken connection, or because *)
(* it is idle.                                                             *)
SessionEnds(s) ==
  /\ Running
  /\ sessions[s] = "up"
  /\ Sweep(s)
  /\ UNCHANGED <<conn, sig, sesh, pc, owner, within, late, udpVars,
                 tcpVars>>

(* closeAll: from here on no Write gets through. *)
SessionBreaks(s) ==
  /\ Running
  /\ sessions[s] = "swept"
  /\ sessions' = [sessions EXCEPT ![s] = "broken"]
  /\ UNCHANGED <<conn, sig, sesh, pc, streamVars, udpVars, tcpVars>>
-----------------------------------------------------------------------------
(* Stream.Close, which closes a singleplexed session with its stream. *)
CloseStream(n) ==
  IF n \in open /\ singleplex /\ sessions[within[n]] = "up"
  THEN Sweep(within[n])
  ELSE open' = open \ {n} /\ UNCHANGED sessions

(* Session.OpenStream looks whether the session is closed, *)
OpenStream(t) ==
  /\ Running
  /\ pc[t] = "open"
  /\ ~Closed(sesh[t])
  /\ Goto(t, "store")
  /\ UNCHANGED <<seshVars, sesh, streamVars, udpVars, tcpVars>>

(* and makes a stream: one that closeSession will not see if it has come   *)
(* in between.                                                             *)
NewStream(n, t, p) ==
  /\ owner[n] = Nil
  /\ \A k \in Streams : k < n => owner[k] # Nil
  /\ owner' = [owner EXCEPT ![n] = p]
  /\ within' = [within EXCEPT ![n] = sesh[t]]
  /\ open' = open \cup {n}
  /\ late' = IF Closed(sesh[t]) THEN late \cup {n} ELSE late

(* Stream.Write on stream n fails. *)
WriteFails(n) == n \notin open \/ sessions[within[n]] = "broken"

(* An Accept or a ReadFrom.  RouteTCP gives up when Accept fails. *)
Receive(p) ==
  /\ Running
  /\ pc[main] = "idle"
  /\ p \in (IF udp THEN Addrs ELSE Locals)
  /\ IF udp THEN /\ reads < MaxDatagrams
                 /\ reads' = reads + 1
                 /\ UNCHANGED local
            ELSE /\ local[p] = "none"
                 /\ local' = [local EXCEPT ![p] = "open"]
                 /\ UNCHANGED reads
  /\ peer' = p
  /\ IF NeedsSession
     THEN Goto(main, "make") /\ StartSession(main)
     ELSE Goto(main, "lookup") /\ UNCHANGED <<seshVars, sesh>>
  /\ UNCHANGED <<streamVars, stream, locked, streams, reader, up, down>>

AcceptFails == ~udp /\ pc[main] = "idle" /\ Exit

NextRound == Goto(main, "idle") /\ peer' = Nil /\ stream' = Nil
-----------------------------------------------------------------------------
(* RouteUDP, after a datagram of address peer *)

(* streamsMutex is taken and kept if the address has no stream, for as     *)
(* long as a singleplexed session takes to be made.                        *)
Lookup ==
  /\ Running
  /\ udp /\ pc[main] = "lookup" /\ ~locked
  /\ stream' = streams[peer]
  /\ IF stream' # Nil
     THEN Goto(main, "write") /\ UNCHANGED <<locked, seshVars, sesh>>
     ELSE /\ locked' = TRUE
          /\ IF singleplex
             THEN Goto(main, "makeLocked") /\ StartSession(main)
             ELSE Goto(main, "open") /\ UNCHANGED <<seshVars, sesh>>
  /\ UNCHANGED <<streamVars, peer, reads, streams, reader, tcpVars>>

(* Mutant: returns without unlocking streamsMutex. *)
OpenFails_KeepsLock ==
  /\ Running
  /\ udp /\ pc[main] = "open" /\ Closed(sesh[main])
  /\ NextRound
  /\ UNCHANGED <<seshVars, sesh, streamVars, locked, reads, streams, reader, tcpVars>>

(* OpenStream fails: the datagram is dropped. *)
OpenFails ==
  /\ Running
  /\ udp /\ pc[main] = "open" /\ Closed(sesh[main])
  /\ locked' = FALSE
  /\ NextRound
  /\ UNCHANGED <<seshVars, sesh, streamVars, reads, streams, reader, tcpVars>>

Store ==
  /\ Running
  /\ udp /\ pc[main] = "store"
  /\ \E n \in Streams :
       /\ NewStream(n, main, peer)
       /\ stream' = n
       /\ streams' = [streams EXCEPT ![peer] = n]
       /\ reader' = [reader EXCEPT ![n] = "read"]
  /\ locked' = FALSE
  /\ Goto(main, "write")
  /\ UNCHANGED <<seshVars, sesh, peer, reads, tcpVars>>

Write ==
  /\ Running
  /\ udp /\ pc[main] = "write"
  /\ IF WriteFails(stream) THEN Goto(main, "drop") /\ UNCHANGED <<peer, stream>>
                           ELSE NextRound
  /\ UNCHANGED <<seshVars, sesh, streamVars, reads, locked, streams, reader, tcpVars>>

(* A failed Write: the entry of the address goes, then the stream. *)
Drop ==
  /\ Running
  /\ pc[main] = "drop" /\ ~locked
  /\ streams' = [streams EXCEPT ![peer] = Nil]
  /\ Goto(main, "close")
  /\ UNCHANGED <<seshVars, sesh, streamVars, peer, stream, reads, locked,
                 reader, tcpVars>>

Close ==
  /\ Running
  /\ pc[main] = "close"
  /\ CloseStream(stream)
  /\ NextRound
  /\ UNCHANGED <<conn, sig, sesh, owner, within, late, reads, locked, streams, reader,
                 tcpVars>>

(* The goroutine of stream n, whose Read ends with the stream, by its      *)
(* deadline, or because WriteTo failed.  It removes the entry of the       *)
(* address, which by then may be that of another stream.                   *)
ReadEnds(n) ==
  /\ Running
  /\ reader[n] = "read"
  /\ reader' = [reader EXCEPT ![n] = "drop"]
  /\ UNCHANGED <<seshVars, sesh, pc, streamVars, peer, stream, reads, locked,
                 streams, tcpVars>>

(* Mutant: the entry stays. *)
ReaderDrops_KeepsEntry(n) ==
  /\ Running
  /\ reader[n] = "drop" /\ ~locked
  /\ reader' = [reader EXCEPT ![n] = "close"]
  /\ UNCHANGED <<seshVars, sesh, pc, streamVars, peer, stream, reads, locked,
                 streams, tcpVars>>

ReaderDrops(n) ==
  /\ Running
  /\ reader[n] = "drop" /\ ~locked
  /\ streams' = [streams EXCEPT ![owner[n]] = Nil]
  /\ reader' = [reader EXCEPT ![n] = "close"]
  /\ UNCHANGED <<seshVars, sesh, pc, streamVars, peer, stream, reads, locked,
                 tcpVars>>

(* Mutant: the goroutine leaves the stream open. *)
ReaderCloses_LeavesOpen(n) ==
  /\ Running
  /\ reader[n] = "close"
  /\ reader' = [reader EXCEPT ![n] = "done"]
  /\ UNCHANGED <<seshVars, sesh, pc, streamVars, peer, stream, reads, locked,
                 streams, tcpVars>>

ReaderCloses(n) ==
  /\ Running
  /\ reader[n] = "close"
  /\ reader' = [reader EXCEPT ![n] = "done"]
  /\ CloseStream(n)
  /\ UNCHANGED <<conn, sig, sesh, pc, owner, within, late, peer, stream,
                 reads, locked, streams, tcpVars>>
-----------------------------------------------------------------------------
(* RouteTCP, after the connection peer was accepted: its goroutine starts. *)
Spawn ==
  /\ Running
  /\ ~udp /\ pc[main] = "lookup"
  /\ IF singleplex
     THEN StartSession(peer)
     ELSE sesh' = [sesh EXCEPT ![peer] = sesh[main]] /\ UNCHANGED seshVars
  /\ pc' = [pc EXCEPT ![main] = "idle", ![peer] = IF singleplex THEN "make" ELSE "read"]
  /\ peer' = Nil
  /\ UNCHANGED <<streamVars, stream, reads, locked, streams, reader, tcpVars>>

StreamOf(p) == CHOOSE n \in Streams : owner[n] = p

(* The first read, which has a deadline. *)
LocalRead(p) ==
  /\ Running
  /\ pc[p] = "read"
  /\ \/ Goto(p, "open") /\ UNCHANGED local
     \/ Goto(p, "done") /\ local' = [local EXCEPT ![p] = "closed"]
  /\ UNCHANGED <<seshVars, sesh, streamVars, udpVars, up, down>>

LocalOpenFails(p) ==
  /\ Running
  /\ pc[p] = "open" /\ Closed(sesh[p])
  /\ local' = [local EXCEPT ![p] = "closed"]
  /\ Goto(p, "done")
  /\ UNCHANGED <<seshVars, sesh, streamVars, udpVars, up, down>>

LocalStore(p) ==
  /\ Running
  /\ pc[p] = "store"
  /\ \E n \in Streams : NewStream(n, p, p)
  /\ Goto(p, "write")
  /\ UNCHANGED <<seshVars, sesh, udpVars, tcpVars>>

(* The first packet is written, and the two calls of Copy take over. *)
LocalWrite(p) ==
  /\ Running
  /\ pc[p] = "write"
  /\ IF WriteFails(StreamOf(p))
     THEN /\ local' = [local EXCEPT ![p] = "closed"]
          /\ CloseStream(StreamOf(p))
          /\ Goto(p, "done")
          /\ UNCHANGED <<up, down>>
     ELSE /\ up' = [up EXCEPT ![p] = "run"] /\ down' = [down EXCEPT ![p] = "run"]
          /\ Goto(p, "copy")
          /\ UNCHANGED <<local, sessions, open>>
  /\ UNCHANGED <<conn, sig, sesh, owner, within, late, udpVars>>

(* Mutant: Copy closes only what it reads from. *)
CopyUpEnds_SrcOnly(p) ==
  /\ Running
  /\ up[p] = "run"
  /\ StreamOf(p) \notin open \/ local[p] # "open"
  /\ up' = [up EXCEPT ![p] = "done"]
  /\ CloseStream(StreamOf(p))
  /\ UNCHANGED <<conn, sig, sesh, pc, owner, within, late, udpVars,
                 local, down>>

(* Copy from the stream returns when the stream has ended, or when there   *)
(* is data and the local side is gone; it closes both ends.                *)
CopyUpEnds(p) ==
  /\ Running
  /\ up[p] = "run"
  /\ StreamOf(p) \notin open \/ local[p] # "open"
  /\ up' = [up EXCEPT ![p] = "done"]
  /\ CloseStream(StreamOf(p))
  /\ local' = [local EXCEPT ![p] = "closed"]
  /\ UNCHANGED <<conn, sig, sesh, pc, owner, within, late, udpVars, down>>

(* Copy to the stream returns when the local side has ended, or when there *)
(* is data and Stream.Write fails.                                         *)
CopyDownEnds(p) ==
  /\ Running
  /\ down[p] = "run"
  /\ local[p] # "open" \/ WriteFails(StreamOf(p))
  /\ down' = [down EXCEPT ![p] = "done"]
  /\ Goto(p, "done")
  /\ CloseStream(StreamOf(p))
  /\ local' = [local EXCEPT ![p] = "closed"]
  /\ UNCHANGED <<conn, sig, sesh, owner, within, late, udpVars, up>>

(* The proxy client closes its end. *)
LocalEnds(p) ==
  /\ Running
  /\ local[p] = "open"
  /\ local' = [local EXCEPT ![p] = "eof"]
  /\ UNCHANGED <<seshVars, sesh, pc, streamVars, udpVars, up, down>>
-----------------------------------------------------------------------------
Next ==
  \/ \E c \in Conns : Dial(c) \/ HandshakeFails(c) \/ HandshakeOk(c)
  \/ \E s \in Sessions : SessionEnds(s) \/ SessionBreaks(s)
  \/ \E t \in Threads : SessionMade(t) \/ OpenStream(t)
  \/ \E p \in Peers : Receive(p)
  \/ AcceptFails
  \/ Lookup \/ OpenFails \/ Store \/ Write \/ Drop \/ Close
  \/ \E n \in Streams : ReadEnds(n) \/ ReaderDrops(n) \/ ReaderCloses(n)
  \/ Spawn
  \/ \E p \in Locals : \/ LocalRead(p) \/ LocalOpenFails(p) \/ LocalStore(p)
                      \/ LocalWrite(p) \/ CopyUpEnds(p) \/ CopyDownEnds(p)
                      \/ LocalEnds(p)

(* A step that some goroutine is certain to take when it can: it does not  *)
(* wait for data.  Reads with a deadline return, a closed session is broken*)
(* in the end, and of the Copies only an ended source is sure to be seen.  *)
Progress ==
  \/ \E s \in Sessions : SessionBreaks(s)
  \/ \E t \in Threads : SessionMade(t) \/ OpenStream(t)
  \/ Lookup \/ OpenFails \/ Store \/ Write \/ Drop \/ Close \/ Spawn
  \/ \E n \in Streams : ReadEnds(n) \/ ReaderDrops(n) \/ ReaderCloses(n)
  \/ \E p \in Locals : \/ LocalRead(p) \/ LocalOpenFails(p) \/ LocalStore(p)
                       \/ LocalWrite(p)
                       \/ CopyUpEnds(p) /\ StreamOf(p) \notin open
                       \/ CopyDownEnds(p) /\ local[p] # "open"

(* The server can be reached in the end, and a handshake tried for ever    *)
(* succeeds.  Each step of Progress is taken finitely often by any         *)
(* goroutine, so fairness to the disjunction is fairness to each.          *)
Fairness ==
  /\ WF_vars(Progress)
  /\ WF_vars(\E c \in Conns : Dial(c))
  /\ SF_vars(\E c \in Conns : HandshakeOk(c))

Spec == Init /\ [][Next]_vars /\ Fairness
-----------------------------------------------------------------------------
(* Every stream in RouteUDP's map is its address's, and still has the      *)
(* goroutine that will take it out, so no entry outlives its stream for    *)
(* good.                                                                   *)
EntryHasReader ==
  \A p \in Peers : streams[p] # Nil =>
    owner[streams[p]] = p /\ reader[streams[p]] \in {"read", "drop"}

InMap(n) == n \in {streams[p] : p \in Peers}

(* A stream of RouteUDP that is closed, or that is no longer in the map    *)
(* (another stream's goroutine may have removed it), ends up both closed   *)
(* and out of the map: a dead stream does not swallow its address's        *)
(* datagrams, and an orphan does not stay open.                            *)
UdpStreamsEnd ==
  \A n \in Streams :
    (udp /\ owner[n] # Nil /\ ~(n \in open /\ InMap(n)))
      ~> (exited \/ (n \notin open /\ ~InMap(n)))

(* Every goroutine gets to where it waits for the network: RouteUDP and    *)
(* RouteTCP come back for the next datagram or connection, and that of a   *)
(* connection to its Copies or its end.  Sessions are made in the end,     *)
(* however many dials and handshakes fail before (unless one ends the      *)
(* process), and streamsMutex, held meanwhile, is released on every path.  *)
RouteGoesOn ==
  \A t \in {main} \cup Locals :
    (pc[t] \notin {"idle", "copy", "done"})
      ~> (exited \/ pc[t] \in {"idle", "copy", "done"})

(* In RouteTCP a connection and its stream end together: when the proxy    *)
(* client ends, or when the session ends, both end up closed.  The         *)
(* exception is a stream opened while its session was being closed: nobody *)
(* closes it.                                                              *)
LocalsEnd ==
  \A p \in Locals :
    (\/ local[p] = "eof"
     \/ pc[p] = "copy" /\ sessions[sesh[p]] = "broken" /\ StreamOf(p) \notin late)
      ~> (exited \/ (local[p] = "closed" /\ \A n \in open : owner[n] # p))
=============================================================================
