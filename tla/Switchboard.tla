----------------------------- MODULE Switchboard -----------------------------
(***************************************************************************)
(* multiplex.switchboard: the pool of underlying connections of a session, *)
(* with the goroutines that add connections, send frames over a random     *)
(* one, read from each of them (deplex) and tear the pool down.  The       *)
(* session is reduced to its closed flag, the CompareAndSwap at the head   *)
(* of closeSession, and the two closes that follow it: passiveClose goes   *)
(* straight to closeAll, Close first sends a notice to the remote.         *)
(*                                                                         *)
(* Each connection c has two goroutines of its own: <<"add", c>>, the one  *)
(* that calls AddConnection, and <<"deplex", c>>.                          *)
(***************************************************************************)
EXTENDS Integers, FiniteSets

CONSTANTS
  Conns,              \* underlying connections
  Senders,            \* goroutines sending a frame of some stream
  Closers,            \* goroutines calling Session.Close
  None,
  MayDie              \* connections may break

ASSUME SwitchboardAssumption ==
  /\ IsFiniteSet(Conns) /\ Conns # {}
  /\ None \notin Conns
  /\ Senders \cap Closers = {}
  /\ MayDie \in BOOLEAN

Slots == 0 .. Cardinality(Conns) - 1
Adding(c) == <<"add", c>>
Deplexing(c) == <<"deplex", c>>
Adders == {Adding(c) : c \in Conns}
Deplexers == {Deplexing(c) : c \in Conns}
Threads == Senders \cup Closers \cup Adders \cup Deplexers

ASSUME GoroutinesAssumption == (Senders \cup Closers) \cap (Adders \cup Deplexers) = {}

VARIABLES
  closedBy,           \* Session.closed, and which close won the CompareAndSwap
  broken, connsCount,
  conns,              \* the sync.Map: slot -> connection
  conn,               \* each connection: "new", "up", "dead" or "closed"
  pc,                 \* where each goroutine is
  slot,               \* the slot a goroutine was given or picked
  atClose             \* history: connections in use when the session closed

closed == closedBy # "nobody"
vars == <<closedBy, broken, connsCount, conns, conn, pc, slot, atClose>>

TypeOK ==
  /\ closedBy \in {"nobody", "active", "passive"}
  /\ broken \in BOOLEAN
  /\ connsCount \in 0 .. Cardinality(Conns)
  /\ conns \in [Slots -> Conns \cup {None}]
  /\ conn \in [Conns -> {"new", "up", "dead", "closed"}]
  /\ pc \in [Threads -> {"idle", "store", "read", "pick", "transmit", "casBroken",
                         "reset", "range", "done"}]
  /\ slot \in [Threads -> Slots]
  /\ atClose \subseteq Conns

Init ==
  /\ closedBy = "nobody"
  /\ broken = FALSE
  /\ connsCount = 0
  /\ conns = [i \in Slots |-> None]
  /\ conn = [c \in Conns |-> "new"]
  /\ pc = [t \in Threads |-> "idle"]
  /\ slot = [t \in Threads |-> 0]
  /\ atClose = {}

Goto(t, label) == pc' = [pc EXCEPT ![t] = label]

(* closeSession's CompareAndSwap. *)
CASSession(t, won, lost) ==
  /\ closedBy' = CASE closed -> closedBy
                   [] ~closed /\ t \in Closers -> "active"
                   [] OTHER -> "passive"
  /\ atClose' = IF closed THEN atClose
                          ELSE {c \in Conns : \E i \in Slots : conns[i] = c}
  /\ Goto(t, IF closed THEN lost ELSE won)
-----------------------------------------------------------------------------
(* Mutant: the slot is the number of connections stored, which two         *)
(* goroutines may see alike.                                               *)
AddConn_NotAtomic(c) ==
  LET stored == Cardinality({i \in Slots : conns[i] # None}) IN
  /\ pc[Adding(c)] = "idle"
  /\ slot' = [slot EXCEPT ![Adding(c)] = stored]
  /\ connsCount' = stored + 1
  /\ conn' = [conn EXCEPT ![c] = "up"]
  /\ Goto(Adding(c), "store")
  /\ UNCHANGED <<closedBy, broken, conns, atClose>>

(* addConn: the slot is reserved, then filled, and deplex is started.      *)
(* Neither looks whether the session is closed or the pool broken.         *)
AddConn(c) ==
  /\ pc[Adding(c)] = "idle"
  /\ slot' = [slot EXCEPT ![Adding(c)] = connsCount]
  /\ connsCount' = connsCount + 1
  /\ conn' = [conn EXCEPT ![c] = "up"]
  /\ Goto(Adding(c), "store")
  /\ UNCHANGED <<closedBy, broken, conns, atClose>>

StoreConn(c) ==
  /\ pc[Adding(c)] = "store"
  /\ conns' = [conns EXCEPT ![slot[Adding(c)]] = c]
  /\ pc' = [pc EXCEPT ![Adding(c)] = "done", ![Deplexing(c)] = "read"]
  /\ UNCHANGED <<closedBy, broken, connsCount, conn, slot, atClose>>

ConnDies(c) ==
  /\ MayDie
  /\ conn[c] = "up"
  /\ conn' = [conn EXCEPT ![c] = "dead"]
  /\ UNCHANGED <<closedBy, broken, connsCount, conns, pc, slot, atClose>>
-----------------------------------------------------------------------------
(* send, up to the random slot: broken and an empty pool are refused. *)
StartSend(s) ==
  /\ pc[s] = "idle"
  /\ connsCount > 0
  /\ Goto(s, "pick")
  /\ UNCHANGED <<closedBy, broken, connsCount, conns, conn, slot, atClose>>

(* Where a goroutine goes when its send fails: a stream's sender has run   *)
(* passiveClose, Close just returns.                                       *)
SendFailed(t) ==
  IF t \in Closers
    THEN Goto(t, "done") /\ UNCHANGED <<closedBy, atClose>>
    ELSE CASSession(t, "casBroken", "done")

PickRandConn(t) ==
  /\ pc[t] = "pick"
  /\ \/ /\ broken \/ connsCount = 0
        /\ SendFailed(t)
        /\ UNCHANGED slot
     \/ /\ ~broken
        /\ \E i \in 0 .. connsCount - 1 : slot' = [slot EXCEPT ![t] = i]
        /\ Goto(t, "transmit")
        /\ UNCHANGED <<closedBy, atClose>>
  /\ UNCHANGED <<broken, connsCount, conns, conn>>

Usable(c) == IF c = None THEN FALSE ELSE conn[c] = "up"

(* The slot is loaded and the frame written to the connection in it. *)
Transmit(t) ==
  LET c == conns[slot[t]] IN
  /\ pc[t] = "transmit"
  /\ \/ /\ Usable(c)
        /\ Goto(t, IF t \in Closers THEN "casBroken" ELSE "idle")
        /\ UNCHANGED <<closedBy, atClose>>
     \/ /\ ~Usable(c)
        /\ SendFailed(t)
  /\ UNCHANGED <<broken, connsCount, conns, conn, slot>>
-----------------------------------------------------------------------------
(* deplex: a failed Read, or the remote's closing notice, closes the       *)
(* session passively.  Leaving deplex closes the connection; as that       *)
(* connection has failed already the step that finds it out closes it.     *)
ReadError(c) ==
  /\ pc[Deplexing(c)] = "read"
  /\ conn[c] # "up"
  /\ conn' = [conn EXCEPT ![c] = "closed"]
  /\ CASSession(Deplexing(c), "casBroken", "done")
  /\ UNCHANGED <<broken, connsCount, conns, slot>>

RecvNotice(c) ==
  /\ pc[Deplexing(c)] = "read"
  /\ conn[c] = "up"
  /\ ~closed
  /\ CASSession(Deplexing(c), "casBroken", "read")
  /\ UNCHANGED <<broken, connsCount, conns, conn, slot>>

(* Session.Close *)
Close(k) ==
  /\ pc[k] = "idle"
  /\ CASSession(k, "pick", "done")
  /\ UNCHANGED <<broken, connsCount, conns, conn, slot>>
-----------------------------------------------------------------------------
(* Where a goroutine goes on after closeAll. *)
AfterCloseAll(t) ==
  IF \E c \in Conns : t = Deplexing(c) /\ conn[c] # "closed" THEN "read" ELSE "done"

CloseAllCAS(t) ==
  /\ pc[t] = "casBroken"
  /\ broken' = TRUE
  /\ Goto(t, IF broken THEN AfterCloseAll(t) ELSE "reset")
  /\ UNCHANGED <<closedBy, connsCount, conns, conn, slot, atClose>>

CloseAllReset(t) ==
  /\ pc[t] = "reset"
  /\ connsCount' = 0
  /\ Goto(t, "range")
  /\ UNCHANGED <<closedBy, broken, conns, conn, slot, atClose>>

(* Mutant: Range stops at the first connection. *)
CloseAllRange_FirstOnly(t) ==
  /\ pc[t] = "range"
  /\ conn' = [c \in Conns |-> IF conns[0] = c THEN "closed" ELSE conn[c]]
  /\ Goto(t, AfterCloseAll(t))
  /\ UNCHANGED <<closedBy, broken, connsCount, conns, slot, atClose>>

(* Range closes what is in the map; sb.conns.Delete(conn) names a value,   *)
(* not a key, and deletes nothing.                                         *)
CloseAllRange(t) ==
  /\ pc[t] = "range"
  /\ conn' = [c \in Conns |-> IF \E i \in Slots : conns[i] = c THEN "closed"
                                                              ELSE conn[c]]
  /\ Goto(t, AfterCloseAll(t))
  /\ UNCHANGED <<closedBy, broken, connsCount, conns, slot, atClose>>
-----------------------------------------------------------------------------
CloseAllStep(t) == CloseAllCAS(t) \/ CloseAllReset(t) \/ CloseAllRange(t)
SendStep(t) == PickRandConn(t) \/ Transmit(t)

Next ==
  \/ \E c \in Conns : \/ AddConn(c) \/ StoreConn(c) \/ ConnDies(c)
                      \/ ReadError(c) \/ RecvNotice(c)
  \/ \E s \in Senders : StartSend(s)
  \/ \E t \in Senders \cup Closers : SendStep(t)
  \/ \E k \in Closers : Close(k)
  \/ \E t \in Threads : CloseAllStep(t)

Spec == Init /\ [][Next]_vars

(* Goroutines that can run do run, and a Read on a closed or broken        *)
(* connection returns.  Nobody is obliged to add, send or close.           *)
Fairness ==
  /\ \A c \in Conns : WF_vars(StoreConn(c)) /\ WF_vars(ReadError(c))
  /\ \A t \in Senders \cup Closers : WF_vars(SendStep(t))
  /\ \A t \in Threads : WF_vars(CloseAllStep(t))

FairSpec == Spec /\ Fairness
-----------------------------------------------------------------------------
(* While the session is open, no two connections share a slot and none is  *)
(* lost from the pool: addConn called from several goroutines at once      *)
(* gives every connection a slot below connsCount that nobody overwrites.  *)
EveryConnKeepsItsSlot ==
  ~closed => \A c \in Conns : pc[Adding(c)] = "done" =>
               \E i \in 0 .. connsCount - 1 : conns[i] = c

(* A session closed passively, because a connection dropped, a send failed *)
(* or the remote said so, closes every connection it was using and so ends *)
(* the goroutines reading from them.  Session.Close does too, once its     *)
(* notice has been sent; when the notice fails it stops short of closeAll. *)
(* A connection may be added to a session that is closing: once closeAll   *)
(* has reset connsCount it is given a slot that is taken, and the one that *)
(* was there is out of reach.                                              *)
TornDown(c) == conn[c] = "closed" /\ pc[Deplexing(c)] = "done"
SlotReused ==
  \E c, d \in Conns : /\ c # d
                      /\ pc[Adding(c)] # "idle" /\ pc[Adding(d)] # "idle"
                      /\ slot[Adding(c)] = slot[Adding(d)]
CloseReachesConns ==
  \A c \in Conns :
    ( /\ c \in atClose
      /\ closedBy = "passive" \/ \E k \in Closers : pc[k] = "casBroken" )
      ~> (TornDown(c) \/ SlotReused)
=============================================================================
