---------------------------- MODULE Client_proofs ----------------------------
(***************************************************************************)
(* RouteUDP's map: for any number of addresses, datagrams, sessions and    *)
(* streams, every entry is its address's and has a goroutine to remove it. *)
(***************************************************************************)
EXTENDS Client, TLAPS

SessionStates == {"none", "making", "up", "swept", "broken"}
Positions == {"idle", "make", "lookup", "makeLocked", "open", "store", "write", "drop",
              "close", "read", "copy", "done"}

(* RouteUDP and RouteTCP know the peer they work for. *)
PeerKnown == pc[main] # "idle" => peer \in Peers

IInv == TypeOK /\ PeerKnown /\ EntryHasReader

USE ClientAssumption DEF Peers, Threads, main, Nil

(* MakeSession starts a session and its dials. *)
LEMMA StartSessionType ==
  ASSUME TypeOK, NEW t \in Threads, StartSession(t)
  PROVE  /\ sessions' \in [Sessions -> SessionStates]
         /\ conn' \in [Conns -> {"none", "dial", "handshake", "ready"}]
         /\ sig' = sig
         /\ sesh' \in [Threads -> Sessions \cup {Nil}]
BY DEF StartSession, TypeOK, SessionStates

(* Stream.Close, and with it a singleplexed session. *)
LEMMA CloseStreamType ==
  ASSUME TypeOK, NEW n, CloseStream(n)
  PROVE  sessions' \in [Sessions -> SessionStates] /\ open' \subseteq Streams
BY DEF CloseStream, Sweep, TypeOK, SessionStates

(* OpenStream's new stream. *)
LEMMA NewStreamType ==
  ASSUME TypeOK, NEW n \in Streams, NEW t \in Threads, NEW p \in Peers \cup {Nil},
         NewStream(n, t, p)
  PROVE  /\ owner' \in [Streams -> Peers \cup {Nil}]
         /\ within' \in [Streams -> Sessions \cup {Nil}]
         /\ open' \subseteq Streams /\ late' \subseteq Streams
BY DEF NewStream, TypeOK

(* A goroutine moves. *)
LEMMA GotoType ==
  ASSUME TypeOK, NEW t, NEW label \in Positions, Goto(t, label)
  PROVE  pc' \in [Threads -> Positions]
BY Zenon DEF Goto, TypeOK, Positions

(* The process ends. *)
LEMMA ExitType == TypeOK /\ Exit => TypeOK'
BY DEF Exit, TypeOK, config, seshVars, streamVars, udpVars, tcpVars

(* MakeSession keeps the types, handshakes that fail included. *)
LEMMA SessionsType ==
  ASSUME TypeOK,
         \/ \E c \in Conns : Dial(c) \/ HandshakeFails(c) \/ HandshakeOk(c)
         \/ \E s \in Sessions : SessionEnds(s) \/ SessionBreaks(s)
         \/ \E t \in Threads : SessionMade(t) \/ OpenStream(t)
  PROVE  TypeOK'
<1> USE DEF Running, config, seshVars, streamVars, udpVars, tcpVars
<1>1. ASSUME NEW c \in Conns, Dial(c) PROVE TypeOK'
  BY <1>1 DEF Dial, TypeOK
<1>2. ASSUME NEW c \in Conns, HandshakeFails(c) PROVE TypeOK'
  <2>1. CASE sig[c] # "cdn" /\ Exit
    BY <2>1, ExitType
  <2>2. CASE ~(sig[c] # "cdn" /\ Exit)
    BY <1>2, <2>2 DEF HandshakeFails, Fallback, TypeOK
  <2> QED
    BY <2>1, <2>2
<1>3. ASSUME NEW c \in Conns, HandshakeOk(c) PROVE TypeOK'
  BY Zenon, <1>3 DEF HandshakeOk, TypeOK
<1>4. ASSUME NEW s \in Sessions, SessionEnds(s) PROVE TypeOK'
  BY <1>4 DEF SessionEnds, Sweep, TypeOK
<1>5. ASSUME NEW s \in Sessions, SessionBreaks(s) PROVE TypeOK'
  BY <1>5 DEF SessionBreaks, TypeOK
<1>6. ASSUME NEW t \in Threads, SessionMade(t) PROVE TypeOK'
  BY <1>6 DEF SessionMade, Goto, TypeOK
<1>7. ASSUME NEW t \in Threads, OpenStream(t) PROVE TypeOK'
  BY <1>7 DEF OpenStream, Goto, TypeOK
<1> QED
  BY Zenon, <1>1, <1>2, <1>3, <1>4, <1>5, <1>6, <1>7

(* A datagram or a connection comes in. *)
LEMMA ReceiveType ==
  ASSUME TypeOK, NEW p \in Peers, Receive(p)
  PROVE  TypeOK'
<1>1. /\ sessions' \in [Sessions -> SessionStates]
      /\ conn' \in [Conns -> {"none", "dial", "handshake", "ready"}]
      /\ sig' = sig
      /\ sesh' \in [Threads -> Sessions \cup {Nil}]
  BY StartSessionType DEF Receive, seshVars, TypeOK, SessionStates
<1>2. pc' \in [Threads -> Positions]
  BY Zenon, GotoType DEF Receive, Positions
<1>3. /\ reads' \in 0 .. MaxDatagrams
      /\ local' \in [Peers -> {"none", "open", "eof", "closed"}]
      /\ peer' \in Peers
  BY DEF Receive, TypeOK
<1> QED
  BY <1>1, <1>2, <1>3 DEF Receive, Running, config, streamVars, TypeOK, SessionStates, Positions

(* RouteUDP keeps the types. *)
LEMMA UdpType ==
  ASSUME TypeOK, PeerKnown,
         \/ Lookup \/ OpenFails \/ Store \/ Write \/ Drop \/ Close
         \/ \E n \in Streams : ReadEnds(n) \/ ReaderDrops(n) \/ ReaderCloses(n)
  PROVE  TypeOK'
<1> USE DEF Running, config, seshVars, streamVars, tcpVars
<1>1. CASE Lookup
  <2>1. /\ sessions' \in [Sessions -> SessionStates]
        /\ conn' \in [Conns -> {"none", "dial", "handshake", "ready"}]
        /\ sig' = sig
        /\ sesh' \in [Threads -> Sessions \cup {Nil}]
    BY <1>1, StartSessionType DEF Lookup, TypeOK, SessionStates
  <2>2. pc' \in [Threads -> Positions]
    BY <1>1, GotoType DEF Lookup, Positions
  <2>3. stream' \in Streams \cup {Nil} /\ locked' \in BOOLEAN
    BY Zenon, <1>1 DEF Lookup, TypeOK, PeerKnown
  <2> QED
    BY <1>1, <2>1, <2>2, <2>3 DEF Lookup, TypeOK, SessionStates, Positions
<1>2. CASE OpenFails
  BY Zenon, <1>2 DEF OpenFails, NextRound, Goto, TypeOK
<1>3. CASE Store
  <2>1. PICK n \in Streams : /\ NewStream(n, main, peer)
                             /\ stream' = n
                             /\ streams' = [streams EXCEPT ![peer] = n]
                             /\ reader' = [reader EXCEPT ![n] = "read"]
    BY Zenon, <1>3 DEF Store
  <2>2. /\ owner' \in [Streams -> Peers \cup {Nil}]
        /\ within' \in [Streams -> Sessions \cup {Nil}]
        /\ open' \subseteq Streams /\ late' \subseteq Streams
    BY <2>1, NewStreamType DEF TypeOK
  <2>3. pc' \in [Threads -> Positions]
    BY Zenon, <1>3, GotoType DEF Store, Positions
  <2> QED
    BY Zenon, <1>3, <2>1, <2>2, <2>3 DEF Store, TypeOK, Positions
<1>4. CASE Write
  <2>1. pc' \in [Threads -> Positions]
    BY <1>4, GotoType DEF Write, NextRound, Positions
  <2>2. peer' \in Peers \cup {Nil} /\ stream' \in Streams \cup {Nil}
    BY <1>4 DEF Write, NextRound, TypeOK
  <2> QED
    BY <1>4, <2>1, <2>2 DEF Write, TypeOK, Positions
<1>5. CASE Drop
  BY Zenon, <1>5 DEF Drop, Goto, TypeOK
<1>6. CASE Close
  <2>1. sessions' \in [Sessions -> SessionStates] /\ open' \subseteq Streams
    BY <1>6, CloseStreamType DEF Close
  <2> QED
    BY <1>6, <2>1 DEF Close, NextRound, Goto, TypeOK, SessionStates
<1>7. ASSUME NEW n \in Streams, ReadEnds(n) PROVE TypeOK'
  BY <1>7 DEF ReadEnds, TypeOK
<1>8. ASSUME NEW n \in Streams, ReaderDrops(n) PROVE TypeOK'
  BY Zenon, <1>8 DEF ReaderDrops, TypeOK
<1>9. ASSUME NEW n \in Streams, ReaderCloses(n) PROVE TypeOK'
  <2>1. sessions' \in [Sessions -> SessionStates] /\ open' \subseteq Streams
    BY <1>9, CloseStreamType DEF ReaderCloses
  <2> QED
    BY <1>9, <2>1 DEF ReaderCloses, TypeOK, SessionStates
<1> QED
  BY <1>1, <1>2, <1>3, <1>4, <1>5, <1>6, <1>7, <1>8, <1>9

(* RouteTCP keeps the types. *)
LEMMA TcpType ==
  ASSUME TypeOK, PeerKnown,
         \/ Spawn
         \/ \E p \in Locals : \/ LocalRead(p) \/ LocalOpenFails(p) \/ LocalStore(p)
                              \/ LocalWrite(p) \/ CopyUpEnds(p) \/ CopyDownEnds(p)
                              \/ LocalEnds(p)
  PROVE  TypeOK'
<1> USE DEF Running, config, seshVars, streamVars, udpVars, tcpVars
<1>1. CASE Spawn
  <2>1. peer \in Peers
    BY <1>1 DEF Spawn, PeerKnown
  <2>2. /\ sessions' \in [Sessions -> SessionStates]
        /\ conn' \in [Conns -> {"none", "dial", "handshake", "ready"}]
        /\ sig' = sig
        /\ sesh' \in [Threads -> Sessions \cup {Nil}]
    <3>1. CASE singleplex
      <4>1. StartSession(peer) /\ peer \in Threads
        BY Zenon, <1>1, <2>1, <3>1 DEF Spawn, Threads
      <4> QED
        BY Zenon, <4>1, StartSessionType
    <3>2. CASE ~singleplex
      <4>1. sesh' = [sesh EXCEPT ![peer] = sesh[main]] /\ UNCHANGED seshVars
        BY Zenon, <1>1, <3>2 DEF Spawn
      <4> QED
        BY Zenon, <2>1, <4>1 DEF TypeOK, Threads, SessionStates
    <3> QED
      BY <3>1, <3>2
  <2>3. pc' \in [Threads -> Positions]
    BY Zenon, <1>1 DEF Spawn, TypeOK, Positions
  <2> QED
    BY Zenon, <1>1, <2>2, <2>3 DEF Spawn, TypeOK, SessionStates, Positions
<1>2. ASSUME NEW p \in Locals, LocalRead(p) PROVE TypeOK'
  <2>1. /\ pc' \in [Threads -> Positions]
        /\ local' \in [Peers -> {"none", "open", "eof", "closed"}]
    BY <1>2, GotoType DEF LocalRead, TypeOK, Positions
  <2> QED
    BY <1>2, <2>1 DEF LocalRead, TypeOK, Positions
<1>3. ASSUME NEW p \in Locals, LocalOpenFails(p) PROVE TypeOK'
  BY <1>3 DEF LocalOpenFails, Goto, TypeOK
<1>4. ASSUME NEW p \in Locals, LocalStore(p) PROVE TypeOK'
  <2>1. /\ owner' \in [Streams -> Peers \cup {Nil}]
        /\ within' \in [Streams -> Sessions \cup {Nil}]
        /\ open' \subseteq Streams /\ late' \subseteq Streams
    BY Zenon, <1>4, NewStreamType DEF LocalStore
  <2>2. pc' \in [Threads -> Positions]
    BY <1>4, GotoType DEF LocalStore, Positions
  <2> QED
    BY <1>4, <2>1, <2>2 DEF LocalStore, TypeOK, Positions
<1>5. ASSUME NEW p \in Locals, LocalWrite(p) PROVE TypeOK'
  <2>1. sessions' \in [Sessions -> SessionStates] /\ open' \subseteq Streams
    BY <1>5, CloseStreamType DEF LocalWrite, TypeOK, SessionStates
  <2>2. pc' \in [Threads -> Positions]
    BY Zenon, <1>5, GotoType DEF LocalWrite, Positions
  <2>3. /\ local' \in [Peers -> {"none", "open", "eof", "closed"}]
        /\ up' \in [Peers -> {"none", "run", "done"}]
        /\ down' \in [Peers -> {"none", "run", "done"}]
    BY <1>5 DEF LocalWrite, TypeOK
  <2> QED
    BY <1>5, <2>1, <2>2, <2>3 DEF LocalWrite, TypeOK, SessionStates, Positions
<1>6. ASSUME NEW p \in Locals, CopyUpEnds(p) PROVE TypeOK'
  <2>1. sessions' \in [Sessions -> SessionStates] /\ open' \subseteq Streams
    BY <1>6, CloseStreamType DEF CopyUpEnds
  <2> QED
    BY <1>6, <2>1 DEF CopyUpEnds, TypeOK, SessionStates
<1>7. ASSUME NEW p \in Locals, CopyDownEnds(p) PROVE TypeOK'
  <2>1. sessions' \in [Sessions -> SessionStates] /\ open' \subseteq Streams
    BY <1>7, CloseStreamType DEF CopyDownEnds
  <2> QED
    BY <1>7, <2>1 DEF CopyDownEnds, Goto, TypeOK, SessionStates
<1>8. ASSUME NEW p \in Locals, LocalEnds(p) PROVE TypeOK'
  BY <1>8 DEF LocalEnds, TypeOK
<1> QED
  BY <1>1, <1>2, <1>3, <1>4, <1>5, <1>6, <1>7, <1>8

(* Every step keeps the types. *)
LEMMA TypeStep ==
  ASSUME TypeOK, PeerKnown, [Next]_vars
  PROVE  TypeOK'
<1>1. CASE AcceptFails
  BY <1>1, ExitType DEF AcceptFails
<1>2. CASE UNCHANGED vars
  BY <1>2 DEF vars, config, seshVars, streamVars, udpVars, tcpVars, TypeOK
<1>3. CASE \/ \E c \in Conns : Dial(c) \/ HandshakeFails(c) \/ HandshakeOk(c)
           \/ \E s \in Sessions : SessionEnds(s) \/ SessionBreaks(s)
           \/ \E t \in Threads : SessionMade(t) \/ OpenStream(t)
  BY <1>3, SessionsType
<1>4. CASE \/ Lookup \/ OpenFails \/ Store \/ Write \/ Drop \/ Close
           \/ \E n \in Streams : ReadEnds(n) \/ ReaderDrops(n) \/ ReaderCloses(n)
  BY <1>4, UdpType
<1>5. CASE \/ Spawn
           \/ \E p \in Locals : \/ LocalRead(p) \/ LocalOpenFails(p) \/ LocalStore(p)
                                \/ LocalWrite(p) \/ CopyUpEnds(p) \/ CopyDownEnds(p)
                                \/ LocalEnds(p)
  BY <1>5, TcpType
<1> QED
  BY <1>1, <1>2, <1>3, <1>4, <1>5, ReceiveType DEF Next

(* RouteUDP and RouteTCP work for the peer that Receive gave them, until   *)
(* they are back for the next.                                             *)
LEMMA PeerStep ==
  ASSUME TypeOK, PeerKnown, [Next]_vars
  PROVE  PeerKnown'
<1> USE DEF TypeOK, PeerKnown, Running, Goto, config, seshVars, streamVars, udpVars, tcpVars
<1>1. ASSUME \/ \E c \in Conns : Dial(c) \/ HandshakeFails(c) \/ HandshakeOk(c)
             \/ \E s \in Sessions : SessionEnds(s) \/ SessionBreaks(s)
             \/ AcceptFails
             \/ \E n \in Streams : ReadEnds(n) \/ ReaderDrops(n) \/ ReaderCloses(n)
      PROVE  PeerKnown'
  <2>1. UNCHANGED <<pc, peer>>
    BY <1>1 DEF Dial, HandshakeFails, HandshakeOk, SessionEnds, SessionBreaks, AcceptFails,
                Exit, ReadEnds, ReaderDrops, ReaderCloses
  <2> QED
    BY <2>1
<1>2. ASSUME NEW t \in Threads, SessionMade(t) \/ OpenStream(t) PROVE PeerKnown'
  BY <1>2 DEF SessionMade, OpenStream
<1>3. ASSUME NEW p \in Peers, Receive(p) PROVE PeerKnown'
  BY <1>3 DEF Receive
<1>4. CASE OpenFails \/ Write \/ Close
  BY <1>4 DEF OpenFails, Write, Close, NextRound
<1>5. CASE Lookup \/ Store \/ Drop
  <2>1. peer' = peer /\ pc[main] # "idle"
    BY <1>5 DEF Lookup, Store, Drop
  <2> QED
    BY <2>1
<1>6. CASE Spawn
  BY <1>6 DEF Spawn
<1>7. ASSUME NEW p \in Locals,
             \/ LocalRead(p) \/ LocalOpenFails(p) \/ LocalStore(p) \/ LocalWrite(p)
             \/ CopyUpEnds(p) \/ CopyDownEnds(p) \/ LocalEnds(p)
      PROVE  PeerKnown'
  <2>1. peer' = peer /\ (pc' = pc \/ \E label \in Positions : Goto(p, label))
    BY Zenon, <1>7 DEF LocalRead, LocalOpenFails, LocalStore, LocalWrite, CopyUpEnds, CopyDownEnds,
                LocalEnds, Positions
  <2> QED
    BY <2>1
<1>8. CASE UNCHANGED vars
  BY <1>8 DEF vars
<1> QED
  BY <1>1, <1>2, <1>3, <1>4, <1>5, <1>6, <1>7, <1>8 DEF Next

(* A step that leaves the map, the owners and the goroutines alone. *)
LEMMA MapUntouched ==
  EntryHasReader /\ UNCHANGED <<streams, owner, reader>> => EntryHasReader'
BY DEF EntryHasReader

(* A new stream has nobody's entry: it had no owner before. *)
LEMMA NewStreamFresh ==
  ASSUME TypeOK, EntryHasReader, NEW n \in Streams, NEW t, NEW p, NewStream(n, t, p)
  PROVE  /\ \A q \in Peers : streams[q] # n
         /\ owner' = [owner EXCEPT ![n] = p]
<1>1. owner[n] = Nil /\ n # Nil
  BY DEF NewStream, Streams
<1>2. \A q \in Peers : streams[q] # n
  BY <1>1 DEF EntryHasReader
<1> QED
  BY <1>2 DEF NewStream

(* RouteUDP's store, and the removal of an entry by RouteUDP or by the     *)
(* goroutine of a stream of the address.                                   *)
LEMMA EntryStep ==
  ASSUME IInv, [Next]_vars
  PROVE  EntryHasReader'
<1> USE DEF IInv, Running, config, seshVars, streamVars, udpVars, tcpVars
<1>1. CASE Store
  <2>1. PICK n \in Streams : /\ NewStream(n, main, peer)
                             /\ streams' = [streams EXCEPT ![peer] = n]
                             /\ reader' = [reader EXCEPT ![n] = "read"]
    BY Zenon, <1>1 DEF Store
  <2>2. peer \in Peers
    BY <1>1 DEF Store, PeerKnown
  <2>3. /\ \A q \in Peers : streams[q] # n
        /\ owner' = [owner EXCEPT ![n] = peer]
    BY <2>1, NewStreamFresh
  <2> QED
    BY <2>1, <2>2, <2>3 DEF EntryHasReader, TypeOK
<1>2. CASE Drop
  BY <1>2 DEF Drop, EntryHasReader, TypeOK
<1>3. ASSUME NEW n \in Streams, ReadEnds(n) \/ ReaderDrops(n) \/ ReaderCloses(n)
      PROVE  EntryHasReader'
  BY <1>3 DEF ReadEnds, ReaderDrops, ReaderCloses, EntryHasReader, TypeOK
<1>4. ASSUME NEW p \in Locals, LocalStore(p) PROVE EntryHasReader'
  <2>1. PICK n \in Streams : NewStream(n, p, p)
    BY Zenon, <1>4 DEF LocalStore
  <2>2. /\ \A q \in Peers : streams[q] # n
        /\ owner' = [owner EXCEPT ![n] = p]
    BY <2>1, NewStreamFresh
  <2> QED
    BY <1>4, <2>2 DEF LocalStore, EntryHasReader, TypeOK
<1>5. ASSUME \/ \E c \in Conns : Dial(c) \/ HandshakeFails(c) \/ HandshakeOk(c)
             \/ \E s \in Sessions : SessionEnds(s) \/ SessionBreaks(s)
             \/ \E t \in Threads : SessionMade(t) \/ OpenStream(t)
             \/ \E p \in Peers : Receive(p)
             \/ AcceptFails \/ Lookup \/ OpenFails \/ Write \/ Close \/ Spawn
             \/ \E p \in Locals : \/ LocalRead(p) \/ LocalOpenFails(p) \/ LocalWrite(p)
                                  \/ CopyUpEnds(p) \/ CopyDownEnds(p) \/ LocalEnds(p)
             \/ UNCHANGED vars
      PROVE  EntryHasReader'
  <2>1. UNCHANGED <<streams, owner, reader>>
    BY <1>5 DEF Dial, HandshakeFails, HandshakeOk, SessionEnds, SessionBreaks, SessionMade,
                OpenStream, Receive, AcceptFails, Exit, Lookup, OpenFails, Write, Close, Spawn,
                LocalRead, LocalOpenFails, LocalWrite, CopyUpEnds, CopyDownEnds, LocalEnds, vars
  <2> QED
    BY <2>1, MapUntouched
<1> QED
  BY Zenon, <1>1, <1>2, <1>3, <1>4, <1>5 DEF Next

(* The invariant holds when the client starts. *)
LEMMA InitIInv == Init => IInv
<1> SUFFICES ASSUME Init PROVE IInv
  OBVIOUS
<1>1. udp \in BOOLEAN /\ singleplex \in BOOLEAN /\ transport \in {"chrome", "cdn"}
  BY DEF Init
<1>a. reads \in 0 .. MaxDatagrams
  BY DEF Init
<1>b. exited \in BOOLEAN /\ locked \in BOOLEAN
  BY Zenon DEF Init
<1>c. sig \in [Conns -> {"chrome", "firefox", "cdn"}]
  BY <1>1 DEF Init
<1>2. TypeOK
  BY <1>1, <1>a, <1>b, <1>c DEF Init, TypeOK
<1> QED
  BY <1>2 DEF IInv, Init, PeerKnown, EntryHasReader

(* The client's variables have their types. *)
THEOREM TypeCorrect == Spec => []TypeOK
<1>1. IInv /\ [Next]_vars => IInv'
  BY TypeStep, PeerStep, EntryStep DEF IInv
<1>2. IInv => TypeOK
  BY DEF IInv
<1> QED
  BY InitIInv, <1>1, <1>2, PTL DEF Spec

(* Every entry of RouteUDP's map is a stream of its address whose          *)
(* goroutine has yet to remove it, whoever else removes entries meanwhile. *)
THEOREM EntriesHaveReaders == Spec => []EntryHasReader
<1>1. IInv /\ [Next]_vars => IInv'
  BY TypeStep, PeerStep, EntryStep DEF IInv
<1>2. IInv => EntryHasReader
  BY DEF IInv
<1> QED
  BY InitIInv, <1>1, <1>2, PTL DEF Spec
=============================================================================
