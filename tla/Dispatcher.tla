----------------------------- MODULE Dispatcher -----------------------------
(***************************************************************************)
(* The server's front: dispatchConnection for each accepted connection,    *)
(* with the cache of used randoms and the handing out of session keys.     *)
(* UserPanel models the users and their sessions; here a UID has one map   *)
(* of sessions, and GetSession may be refused.  A session is named after   *)
(* the connection whose dispatch made it, and so is the key drawn there.   *)
(***************************************************************************)
EXTENDS Wire

CONSTANTS
  Conns,
  Attempts, Attempt,  \* what a client may connect with: names, and name -> packet
  ProxyBook,          \* names of proxy methods
  Users, AdminUID,    \* UIDs that GetUser or GetBypassUser takes; the admin's
  Nil,
  Tolerance,          \* timestampTolerance
  MaxTime, MaxSweeps, \* bounds: clock ticks; rounds of UsedRandomCleaner
  Frames              \* frames exchanged

ASSUME DispatcherAssumption ==
  /\ Nil \notin Conns \cup Nat
  /\ {Tolerance, MaxTime, MaxSweeps} \subseteq Nat

(* What clients send: a ClientHello of one of the browsers that the client *)
(* imitates, names of proxy methods without a NUL, and frames as streams   *)
(* write them.                                                             *)
ASSUME ClientAssumption ==
  /\ \A a \in Attempts :
       /\ {Attempt[a].length, Attempt[a].sent} \subseteq Nat
       /\ Attempt[a].browser \in {"chrome", "firefox", "safari"}
       /\ IsName(Attempt[a].method)
  /\ Frames \subseteq Frame

VARIABLES
  now,
  pkt, info,          \* first packet of each connection, and what is in it
  pc,
  taken, web,         \* bytes read from it; bytes passed to the web server
  usedRandom,         \* UsedRandom: random -> time
  sweeps, epoch,      \* rounds of the cleaner, and when each random was accepted
  sessions,           \* sessions of the users: <<UID, session id>> -> session
  closed,             \* sessions that are closed
  sesh,               \* session of each connection
  sent                \* the session whose key was sent on each connection

netVars == <<pkt, info, taken, web>>
cacheVars == <<usedRandom, sweeps, epoch>>
sessionVars == <<sessions, closed, sesh, sent>>
vars == <<now, pc, netVars, cacheVars, sessionVars>>

Slots == Users \X {Attempt[a].sid : a \in Attempts}
Packets == [attempt : Attempts, random : Conns, time : 0 .. MaxTime]
Working == {"read", "register", "decrypt", "admit", "getSession", "refused", "handshake",
            "add", "goWeb"}
Ended == {"web", "closed", "left", "failed", "up", "serving", "served"}

TypeOK ==
  /\ now \in 0 .. MaxTime
  /\ pc \in [Conns -> {"none", "stuck"} \cup Working \cup Ended]
  /\ {taken, web} \subseteq [Conns -> 0 .. firstPacketSize]
  /\ DOMAIN usedRandom \subseteq Conns /\ \A r \in DOMAIN usedRandom : usedRandom[r] <= now
  /\ sweeps \in 0 .. MaxSweeps
  /\ epoch \in [Conns -> {Nil} \cup 0 .. MaxSweeps]
  /\ sessions \in [Slots -> Conns \cup {Nil}]
  /\ closed \subseteq Conns
  /\ sesh \in [Conns -> Conns \cup {Nil}]
  /\ sent \in [Conns -> Conns \cup {Nil}]

Init ==
  /\ now = 0
  /\ pkt = [c \in Conns |-> Nil] /\ info = [c \in Conns |-> Nil]
  /\ pc = [c \in Conns |-> "none"]
  /\ taken = [c \in Conns |-> 0] /\ web = [c \in Conns |-> 0]
  /\ usedRandom = [r \in {} |-> 0]
  /\ sweeps = 0 /\ epoch = [c \in Conns |-> Nil]
  /\ sessions = [x \in Slots |-> Nil] /\ closed = {}
  /\ sesh = [c \in Conns |-> Nil] /\ sent = [c \in Conns |-> Nil]

(* The function f, evaluated once: TLC has all its values to compare it. *)
Table(f) == CHOOSE g \in {f} : g = f

Goto(c, label) == pc' = [pc EXCEPT ![c] = label]
-----------------------------------------------------------------------------
(* The payload of a Cloak client, or of someone else. *)
Payload(p, a) ==
  IF a.cloak
  THEN makeAuthenticationPayload(
         [random |-> p.random, time |-> p.time, uid |-> a.uid, sid |-> a.sid,
          method |-> a.method, enc |-> a.enc, unordered |-> a.unordered])
  ELSE [randPubKey |-> PublicKey(p.random),
        ciphertextWithTag |-> Bytes(<<"noise", p.random>>, 64)]

parseClientHello(p) ==
  IF Attempt[p.attempt].malformed THEN Fail
  ELSE buildClientHello(Attempt[p.attempt].browser, Payload(p, Attempt[p.attempt]))

processClientHello(ch) == IF ch = Fail THEN Fail ELSE unmarshalClientHello(ch)

processRequest(p) ==
  IF Attempt[p.attempt].malformed THEN Fail
  ELSE unmarshalHidden(Hidden(Payload(p, Attempt[p.attempt])))

(* Transport.processFirstPacket *)
processFirstPacket(p) ==
  IF Attempt[p.attempt].first = "tls" THEN processClientHello(parseClientHello(p))
                                      ELSE processRequest(p)

InfoOf(fragments) == IF fragments = Fail THEN Fail ELSE decryptClientInfo(fragments)

(* What AuthFirstPacket will find in each packet: Fail if it is not parsed. *)
ClientInfo == Table([p \in Packets |-> InfoOf(processFirstPacket(p))])

Arrives(c, p) ==
  /\ pc[c] = "none"
  /\ pkt' = [pkt EXCEPT ![c] = p]
  /\ info' = [info EXCEPT ![c] = ClientInfo[p]]
  /\ Goto(c, "read")
  /\ UNCHANGED <<now, taken, web, cacheVars, sessionVars>>

(* The client of connection c sends a first packet of its own, with a new  *)
(* key pair and the time.                                                  *)
Connect(c, a) == Arrives(c, [attempt |-> a, random |-> c, time |-> now])

(* The packet of connection d arrives once more, on connection c. *)
Redeliver(c, d) == pkt[d] # Nil /\ Arrives(c, pkt[d])

(* Mutant: no read deadline. *)
ReadFirstPacket_NoDeadline(c) ==
  LET r == readFirstPacket(Attempt[pkt[c].attempt])
  IN /\ pc[c] = "read"
     /\ r.outcome # "close"
     /\ taken' = [taken EXCEPT ![c] = r.taken]
     /\ Goto(c, IF r.outcome = "redirect" THEN "goWeb" ELSE "register")
     /\ UNCHANGED <<now, pkt, info, web, cacheVars, sessionVars>>

ReadFirstPacket(c) ==
  LET r == readFirstPacket(Attempt[pkt[c].attempt])
  IN /\ pc[c] = "read"
     /\ taken' = [taken EXCEPT ![c] = r.taken]
     /\ \/ r.outcome = "close" /\ Goto(c, "closed")
        \/ r.outcome = "redirect" /\ Goto(c, "goWeb")
        \/ r.outcome = "auth" /\ Goto(c, "register")
     /\ UNCHANGED <<now, pkt, info, web, cacheVars, sessionVars>>

(* goWeb: the web server is given what was read, then what comes.  If it   *)
(* cannot be reached the connection is left as it is.                      *)
GoWeb(c) ==
  /\ pc[c] = "goWeb"
  /\ \/ /\ Goto(c, "web")
        /\ web' = [web EXCEPT ![c] = readFirstPacket(Attempt[pkt[c].attempt]).i]
     \/ Goto(c, "left") /\ UNCHANGED web
  /\ UNCHANGED <<now, pkt, info, taken, cacheVars, sessionVars>>
-----------------------------------------------------------------------------
(* AuthFirstPacket *)

(* Mutant: the random is not kept. *)
registerRandom_Forgets(c) ==
  /\ epoch' = IF pkt[c].random \in DOMAIN usedRandom THEN epoch
              ELSE [epoch EXCEPT ![c] = sweeps]
  /\ UNCHANGED usedRandom

registerRandom(c) ==
  LET r == pkt[c].random
  IN /\ usedRandom' = [x \in DOMAIN usedRandom \cup {r} |->
                         IF x = r THEN now ELSE usedRandom[x]]
     /\ epoch' = IF r \in DOMAIN usedRandom THEN epoch ELSE [epoch EXCEPT ![c] = sweeps]

Register(c) ==
  /\ pc[c] = "register"
  /\ IF info[c] = Fail
     THEN Goto(c, "goWeb") /\ UNCHANGED <<usedRandom, epoch>>
     ELSE /\ registerRandom(c)
          /\ Goto(c, IF epoch' = epoch THEN "goWeb" ELSE "decrypt")
  /\ UNCHANGED <<now, sweeps, netVars, sessionVars>>

Decrypt(c) ==
  /\ pc[c] = "decrypt"
  /\ Goto(c, IF info[c] = Noise THEN "goWeb"
             ELSE IF InWindow(info[c], now, Tolerance) THEN "admit" ELSE "goWeb")
  /\ UNCHANGED <<now, netVars, cacheVars, sessionVars>>

(* UsedRandomCleaner drops every random registered before now + Tolerance. *)
Sweep ==
  /\ sweeps < MaxSweeps
  /\ sweeps' = sweeps + 1
  /\ LET kept == {r \in DOMAIN usedRandom : usedRandom[r] >= now + Tolerance}
     IN usedRandom' = [r \in kept |-> usedRandom[r]]
  /\ UNCHANGED <<now, pc, epoch, netVars, sessionVars>>

Tick ==
  /\ now < MaxTime
  /\ now' = now + 1
  /\ UNCHANGED <<pc, netVars, cacheVars, sessionVars>>
-----------------------------------------------------------------------------
(* dispatchConnection, once the first packet is known to be a client's *)

IsAdmin(c) == info[c].UID = UID(AdminUID) /\ info[c].SessionId = 0

Slot(c) == <<ValueOf(info[c].UID), info[c].SessionId>>

(* MakeObfuscator, the admin's session, the proxy book and the users.  A   *)
(* known user may still be refused.                                        *)
Admit(c) ==
  LET known == info[c].EncryptionMethod \in EncryptionMethods
      welcome == info[c].ProxyMethod \in ProxyBook /\ info[c].UID \in {UID(u) : u \in Users}
  IN /\ pc[c] = "admit"
     /\ \/ /\ known /\ IsAdmin(c)
           /\ sesh' = [sesh EXCEPT ![c] = c]
           /\ Goto(c, "handshake")
        \/ /\ known /\ ~IsAdmin(c) /\ welcome
           /\ Goto(c, "getSession")
           /\ UNCHANGED sesh
        \/ /\ ~(known /\ IsAdmin(c))
           /\ Goto(c, "goWeb")
           /\ UNCHANGED sesh
     /\ UNCHANGED <<now, netVars, cacheVars, sessions, closed, sent>>

(* ActiveUser.GetSession *)
GetSession(c) ==
  /\ pc[c] = "getSession"
  /\ \/ /\ sessions[Slot(c)] # Nil
        /\ sesh' = [sesh EXCEPT ![c] = sessions[Slot(c)]]
        /\ Goto(c, "handshake")
        /\ UNCHANGED sessions
     \/ /\ sessions[Slot(c)] = Nil
        /\ sessions' = [sessions EXCEPT ![Slot(c)] = c]
        /\ sesh' = [sesh EXCEPT ![c] = c]
        /\ Goto(c, "handshake")
     \/ /\ sessions[Slot(c)] = Nil
        /\ Goto(c, "refused")
        /\ UNCHANGED <<sessions, sesh>>
  /\ UNCHANGED <<now, netVars, cacheVars, closed, sent>>

(* ActiveUser.CloseSession closes the session that has the id now. *)
CloseSession(x) ==
  /\ sessions' = [sessions EXCEPT ![x] = Nil]
  /\ closed' = closed \cup ({sessions[x]} \ {Nil})

Refused(c) ==
  /\ pc[c] = "refused"
  /\ CloseSession(Slot(c))
  /\ Goto(c, "left")
  /\ UNCHANGED <<now, netVars, cacheVars, sesh, sent>>

(* Mutant: the key drawn here is sent, whoever made the session. *)
FinishHandshake_OwnKey(c) ==
  /\ pc[c] = "handshake"
  /\ sent' = [sent EXCEPT ![c] = c]
  /\ Goto(c, "add")
  /\ UNCHANGED <<now, netVars, cacheVars, sessions, closed, sesh>>

(* finishHandshake, whose reply may fail to be written. *)
FinishHandshake(c) ==
  /\ pc[c] = "handshake"
  /\ \/ sent' = [sent EXCEPT ![c] = sesh[c]] /\ Goto(c, "add")
     \/ Goto(c, "failed") /\ UNCHANGED sent
  /\ UNCHANGED <<now, netVars, cacheVars, sessions, closed, sesh>>

(* A WebSocket that cannot be upgraded is waited for all the same. *)
UpgradeFails(c) ==
  /\ pc[c] = "handshake" /\ Attempt[pkt[c].attempt].first = "ws"
  /\ Goto(c, "stuck")
  /\ UNCHANGED <<now, netVars, cacheVars, sessionVars>>

AddConnection(c) ==
  /\ pc[c] = "add"
  /\ Goto(c, IF sesh[c] = c THEN "serving" ELSE "up")
  /\ UNCHANGED <<now, netVars, cacheVars, sessionVars>>

(* The session of connection m is closed: by its client, for a broken      *)
(* connection, or because it was idle.                                     *)
SessionCloses(m) ==
  /\ sesh[m] = m /\ m \notin closed
  /\ closed' = closed \cup {m}
  /\ UNCHANGED <<now, pc, netVars, cacheVars, sessions, sesh, sent>>

(* Mutant: the session is not removed when Accept fails. *)
ServeEnds_KeepsEntry(m) ==
  /\ pc[m] = "serving"
  /\ IF IsAdmin(m) THEN m \in closed /\ UNCHANGED <<sessions, closed>>
                   ELSE closed' = closed \cup {m} /\ UNCHANGED sessions
  /\ Goto(m, "served")
  /\ UNCHANGED <<now, netVars, cacheVars, sesh, sent>>

(* serveSession returns when the session is closed, or when the proxy      *)
(* server cannot be reached; http.Serve, for the admin, when it is closed. *)
ServeEnds(m) ==
  /\ pc[m] = "serving"
  /\ IF IsAdmin(m) THEN m \in closed /\ UNCHANGED <<sessions, closed>>
                   ELSE CloseSession(Slot(m))
  /\ Goto(m, "served")
  /\ UNCHANGED <<now, netVars, cacheVars, sesh, sent>>
-----------------------------------------------------------------------------
Dispatch(c) ==
  \/ ReadFirstPacket(c) \/ GoWeb(c) \/ Register(c) \/ Decrypt(c) \/ Admit(c)
  \/ GetSession(c) \/ Refused(c) \/ FinishHandshake(c) \/ UpgradeFails(c)
  \/ AddConnection(c)

Next ==
  \/ \E c \in Conns : \/ \E a \in Attempts : Connect(c, a)
                      \/ \E d \in Conns : Redeliver(c, d)
                      \/ Dispatch(c) \/ SessionCloses(c) \/ ServeEnds(c)
  \/ Sweep
  \/ Tick

(* A dispatch goes on: its reads have a deadline and its writes end.  A    *)
(* closed session is noticed by the goroutine that serves it.  As each     *)
(* connection takes finitely many steps, fairness to all of them together  *)
(* is enough.                                                              *)
Fairness ==
  WF_vars(\E c \in Conns : Dispatch(c) \/ (c \in closed /\ ServeEnds(c)))

Spec == Init /\ [][Next]_vars /\ Fairness
-----------------------------------------------------------------------------
(* registerRandom: of the connections that bring the same random, at most  *)
(* one passes between two rounds of UsedRandomCleaner, however their       *)
(* dispatches interleave.  (A round empties the cache, so the same packet  *)
(* passes once more after it, while its timestamp is within tolerance.)    *)
NoReplay ==
  \A c, d \in Conns :
    (c # d /\ Nil \notin {pkt[c], pkt[d], epoch[c], epoch[d]}) =>
      (pkt[c].random = pkt[d].random => epoch[c] # epoch[d])

Admitted == {c \in Conns : pc[c] \in {"getSession", "handshake", "add", "up", "serving"}}

(* What a client puts into its first packet is what the server takes from  *)
(* it, over either transport and with any browser's ClientHello.  A name   *)
(* of a proxy method has twelve bytes at most.                             *)
UnderstoodAsSent ==
  \A c \in Admitted :
    LET a == Attempt[pkt[c].attempt]
    IN /\ info[c].UID = UID(a.uid) /\ info[c].SessionId = a.sid
       /\ info[c].EncryptionMethod = a.enc /\ info[c].Unordered = a.unordered
       /\ Len(a.method) <= 12 => info[c].ProxyMethod = a.method

(* A redirected connection: the web server gets every byte that was taken  *)
(* from the connection before readFirstPacket gave up on it.               *)
WebSeesAllBytes == \A c \in Conns : pc[c] = "web" => web[c] = taken[c]

(* The key of session m as the client whose packet is p takes it from the  *)
(* reply, r being its key pair.                                            *)
KeyFrom(first, f, r, m) ==
  LET nonce == Bytes(<<"nonce", r>>, 12)
      secret == SharedSecret(PublicKey(r))
      key == Bytes(<<"key", m>>, 32)
  IN IF first = "tls"
     THEN SessionKeyTLS(secret, ReplyTLS(Slice(f.ciphertextWithTag, 0, 32), f.sharedSecret,
                                         nonce, key))
     ELSE SessionKeyWebSocket(secret, ReplyWebSocket(f.sharedSecret, nonce, key))

Received ==
  Table([x \in {p \in Packets : ClientInfo[p] \notin {Fail, Noise}} \X Conns |->
           KeyFrom(Attempt[x[1].attempt].first, processFirstPacket(x[1]), x[1].random, x[2])])

Obfuscator(c) == [method |-> info[c].EncryptionMethod, key |-> Bytes(<<"key", c>>, 32)]

ClientObfuscator(c) ==
  [method |-> Attempt[pkt[c].attempt].enc, key |-> Received[<<pkt[c], sent[c]>>]]

(* What one end sends in a frame is what the other gets from it, with no   *)
(* padding and with the most.                                              *)
GoesOver(f, from, to) ==
  \A pad \in {0, MaxPad(from, f)} :
    LET m == obfuscate(from, f, pad)
    IN Transmits(m.size) /\ deobfuscate(to, m) = f

(* Each end of an established connection understands the other's frames,   *)
(* of any size a stream may write and with any padding, though the key was *)
(* drawn for the first connection of the session: the keys agree, and what *)
(* is sent fits the record and the receiver's buffer.                      *)
FramesUnderstood ==
  \A c \in Conns :
    (pc[c] \in {"up", "serving"} /\ pkt[c].random = c) =>
      (Obfuscator(sesh[c]).method = ClientObfuscator(c).method =>
         \A f \in Frames : /\ GoesOver(f, Obfuscator(sesh[c]), ClientObfuscator(c))
                           /\ GoesOver(f, ClientObfuscator(c), Obfuscator(sesh[c])))

(* A closed session leaves its user's map, so that the id can be used for  *)
(* a new one: the dispatch that made it finds it closed and removes it,    *)
(* unless another has done so.  The exception is a session whose first     *)
(* handshake failed, which nobody serves: it stays, and later connections  *)
(* with its id join it.                                                    *)
ClosedSessionsLeave ==
  \A m \in Conns :
    m \in closed ~> (pc[m] \in {"failed", "stuck"} \/ \A x \in Slots : sessions[x] # m)

(* Every connection is dealt with, whatever it sends or fails to send: it  *)
(* is redirected, closed or made part of a session.  The exception is a    *)
(* WebSocket whose upgrade fails, which is waited for without end.         *)
DispatchEnds ==
  \A c \in Conns : (pc[c] \in Working) ~> (pc[c] \in Ended \cup {"stuck"})
=============================================================================
