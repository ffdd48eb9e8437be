-------------------------- MODULE Switchboard_proofs --------------------------
(***************************************************************************)
(* addConn, called by any number of goroutines at once, gives every        *)
(* connection of an open session a slot of its own.                        *)
(***************************************************************************)
EXTENDS Switchboard, FiniteSetTheorems, TLAPS

USE SwitchboardAssumption

Started == {c \in Conns : pc[Adding(c)] # "idle"}

(* closeAll is only run once the session is closed: by the goroutine that  *)
(* won closeSession's CompareAndSwap, which for Close is the one that      *)
(* sends the notice.                                                       *)
ClosersWon ==
  /\ \A t \in Threads : pc[t] \in {"casBroken", "reset", "range"} => closed
  /\ \A k \in Closers : pc[k] \in {"pick", "transmit"} => closed

(* Until then connsCount only grows, so a reserved slot stays reserved. *)
SlotsKept ==
  ~closed => /\ \A c \in Started : slot[Adding(c)] < connsCount
             /\ \A c, d \in Started : c # d => slot[Adding(c)] # slot[Adding(d)]
             /\ \A c \in Conns : pc[Adding(c)] = "done" => conns[slot[Adding(c)]] = c

IInv ==
  /\ TypeOK
  /\ connsCount <= Cardinality(Started)
  /\ \A c \in Conns : pc[Adding(c)] \in {"idle", "store", "done"}
  /\ ClosersWon
  /\ SlotsKept

(* A connection's adder is a goroutine of its own. *)
LEMMA OwnGoroutine ==
  /\ \A c \in Conns : Adding(c) \in Threads /\ Deplexing(c) \in Threads
  /\ \A c, d \in Conns : Adding(c) = Adding(d) => c = d
  /\ \A c, d \in Conns : Adding(c) # Deplexing(d)
  /\ \A c \in Conns : Deplexing(c) \notin Closers
  /\ \A c \in Conns : Adding(c) \notin Senders \cup Closers
  /\ Senders \subseteq Threads /\ Closers \subseteq Threads
BY GoroutinesAssumption DEF Adding, Deplexing, Adders, Deplexers, Threads

(* The number of connections, and of those being added. *)
LEMMA Counts ==
  /\ Cardinality(Conns) \in Nat \ {0}
  /\ IsFiniteSet(Started) /\ Cardinality(Started) \in Nat
  /\ Cardinality(Started) <= Cardinality(Conns)
<1>1. Cardinality(Conns) \in Nat /\ Cardinality(Conns) # 0
  BY FS_CardinalityType, FS_EmptySet
<1>2. Started \subseteq Conns
  BY DEF Started
<1> QED
  BY <1>1, <1>2, FS_Subset, FS_CardinalityType

(* The invariant holds of a new switchboard. *)
LEMMA InitIInv == Init => IInv
<1> SUFFICES ASSUME Init PROVE IInv
  OBVIOUS
<1>a. connsCount \in 0 .. Cardinality(Conns) /\ slot \in [Threads -> Slots]
  BY Counts DEF Init, Slots
<1>1. TypeOK
  BY Zenon, <1>a DEF Init, TypeOK
<1>2. \A c \in Conns : pc[Adding(c)] = "idle"
  BY OwnGoroutine DEF Init
<1>3. connsCount <= Cardinality(Started)
  BY Counts DEF Init
<1>4. ClosersWon
  BY OwnGoroutine DEF Init, ClosersWon
<1> QED
  BY <1>1, <1>2, <1>3, <1>4 DEF IInv, SlotsKept, Started

(* addConn's increment. *)
LEMMA AddConnKeeps ==
  ASSUME IInv, NEW c \in Conns, AddConn(c)
  PROVE  IInv'
<1> USE OwnGoroutine
<1>1. Started' = Started \cup {c} /\ c \notin Started
  BY DEF AddConn, Goto, IInv, TypeOK, Started
<1>2. Cardinality(Started') = Cardinality(Started) + 1
  BY Zenon, <1>1, Counts, FS_AddElement
<1>3. Cardinality(Started') <= Cardinality(Conns)
  <2>1. Started' \subseteq Conns
    BY <1>1 DEF Started
  <2> QED
    BY <2>1, FS_Subset
<1>4. /\ connsCount \in Nat /\ connsCount < Cardinality(Conns)
      /\ connsCount + 1 <= Cardinality(Started')
  BY <1>2, <1>3, Counts DEF IInv, TypeOK
<1>5. TypeOK'
  BY <1>4, Counts DEF AddConn, Goto, IInv, TypeOK, Slots
<1>6. \A d \in Conns : pc'[Adding(d)] \in {"idle", "store", "done"}
  BY DEF AddConn, Goto, IInv, TypeOK
<1>7. ClosersWon'
  BY DEF AddConn, Goto, IInv, TypeOK, ClosersWon, closed
<1>8. SlotsKept'
  <2> SUFFICES ASSUME ~closed
               PROVE  /\ \A d \in Started' : slot'[Adding(d)] < connsCount'
                      /\ \A d, e \in Started' : d # e => slot'[Adding(d)] # slot'[Adding(e)]
                      /\ \A d \in Conns : pc'[Adding(d)] = "done" =>
                                            conns'[slot'[Adding(d)]] = d
    BY DEF AddConn, SlotsKept, closed
  <2>1. slot'[Adding(c)] = connsCount /\ connsCount' = connsCount + 1
    BY DEF AddConn, IInv, TypeOK
  <2>2. \A d \in Started : slot'[Adding(d)] = slot[Adding(d)] /\ slot[Adding(d)] \in Nat
    BY <1>1, Counts DEF AddConn, IInv, TypeOK, Started, Slots
  <2>3. \A d \in Started' : slot'[Adding(d)] < connsCount'
    BY <1>1, <1>4, <2>1, <2>2 DEF IInv, SlotsKept
  <2>4. \A d, e \in Started' : d # e => slot'[Adding(d)] # slot'[Adding(e)]
    BY <1>1, <1>4, <2>1, <2>2 DEF IInv, SlotsKept
  <2>5. \A d \in Conns : pc'[Adding(d)] = "done" => d \in Started /\ pc[Adding(d)] = "done"
    BY DEF AddConn, Goto, IInv, TypeOK, Started
  <2>6. \A d \in Conns : pc'[Adding(d)] = "done" => conns'[slot'[Adding(d)]] = d
    BY <2>2, <2>5 DEF AddConn, IInv, SlotsKept
  <2> QED
    BY <2>3, <2>4, <2>6
<1> QED
  BY <1>4, <1>5, <1>6, <1>7, <1>8 DEF AddConn, IInv

(* addConn's Store: the slot is nobody else's. *)
LEMMA StoreConnKeeps ==
  ASSUME IInv, NEW c \in Conns, StoreConn(c)
  PROVE  IInv'
<1> USE OwnGoroutine
<1>1. Started' = Started /\ c \in Started
  BY DEF StoreConn, IInv, TypeOK, Started
<1>2. TypeOK'
  BY DEF StoreConn, IInv, TypeOK
<1>3. \A d \in Conns : pc'[Adding(d)] = IF d = c THEN "done" ELSE pc[Adding(d)]
  BY DEF StoreConn, IInv, TypeOK
<1>4. ClosersWon'
  BY DEF StoreConn, IInv, TypeOK, ClosersWon, closed
<1>5. SlotsKept'
  <2>1. \A d \in Conns : slot[Adding(d)] \in Slots
    BY DEF IInv, TypeOK
  <2>2. ~closed => \A d \in Conns : pc'[Adding(d)] = "done" => conns'[slot[Adding(d)]] = d
    BY <1>1, <1>3, <2>1 DEF StoreConn, IInv, TypeOK, SlotsKept, Started
  <2> QED
    BY Zenon, <1>1, <2>2 DEF StoreConn, IInv, SlotsKept, closed
<1> QED
  BY Zenon, <1>1, <1>2, <1>3, <1>4, <1>5 DEF StoreConn, IInv

(* A step of any other goroutine, which moves it, may give it a slot, may  *)
(* close the session and, when that is closed, may reset connsCount.       *)
LEMMA OtherKeeps ==
  ASSUME IInv, TypeOK',
         NEW t \in Threads, \A c \in Conns : t # Adding(c),
         NEW label, Goto(t, label),
         conns' = conns,
         connsCount' = connsCount \/ (closed /\ connsCount' = 0),
         \A u \in Threads \ {t} : slot'[u] = slot[u],
         closed => closed',
         label \in {"casBroken", "reset", "range"} => closed',
         t \in Closers /\ label \in {"pick", "transmit"} => closed'
  PROVE  IInv'
<1> USE OwnGoroutine
<1>1. \A u \in Threads \ {t} : pc'[u] = pc[u]
  BY DEF Goto, IInv, TypeOK
<1>2. pc'[t] = label
  BY DEF Goto, IInv, TypeOK
<1>3. \A c \in Conns : pc'[Adding(c)] = pc[Adding(c)] /\ slot'[Adding(c)] = slot[Adding(c)]
  BY <1>1
<1>4. Started' = Started
  BY <1>3 DEF Started
<1>5. connsCount' <= Cardinality(Started')
  BY <1>4, Counts DEF IInv
<1>6. ClosersWon'
  BY <1>1, <1>2 DEF IInv, ClosersWon
<1>7. SlotsKept'
  <2>1. CASE closed'
    BY <2>1 DEF SlotsKept
  <2>2. CASE ~closed'
    <3>1. ~closed /\ connsCount' = connsCount
      BY <2>2
    <3>2. Started \subseteq Conns
      BY DEF Started
    <3> QED
      BY <1>3, <1>4, <3>1, <3>2 DEF IInv, SlotsKept
  <2> QED
    BY <2>1, <2>2
<1> QED
  BY <1>3, <1>5, <1>6, <1>7 DEF IInv

(* closeSession's CompareAndSwap leaves the session closed. *)
LEMMA CASCloses ==
  ASSUME IInv, NEW t, NEW won, NEW lost, CASSession(t, won, lost)
  PROVE  /\ closed'
         /\ closedBy' \in {"nobody", "active", "passive"} /\ atClose' \subseteq Conns
         /\ Goto(t, won) \/ Goto(t, lost)
<1>1. closedBy' = IF closed THEN closedBy ELSE IF t \in Closers THEN "active" ELSE "passive"
  BY DEF CASSession
<1> QED
  BY <1>1 DEF CASSession, closed, IInv, TypeOK

(* send: a failed one closes the session, except in Close, which has won   *)
(* the CompareAndSwap already.                                             *)
LEMMA SendKeeps ==
  ASSUME IInv, NEW t \in Senders \cup Closers, SendStep(t) \/ (t \in Senders /\ StartSend(t))
  PROVE  IInv'
<1> USE OwnGoroutine
<1>1. t \in Threads /\ \A c \in Conns : t # Adding(c)
  OBVIOUS
<1>2. /\ UNCHANGED <<broken, connsCount, conns, conn>>
      /\ slot' = slot \/ \E i \in Slots : slot' = [slot EXCEPT ![t] = i]
  BY Counts DEF SendStep, StartSend, PickRandConn, Transmit, IInv, TypeOK, Slots
<1>3. ASSUME SendFailed(t), pc[t] \in {"pick", "transmit"}
      PROVE  /\ closed' /\ closedBy' \in {"nobody", "active", "passive"}
             /\ atClose' \subseteq Conns
             /\ \E label \in {"casBroken", "done"} : Goto(t, label)
  <2>1. CASE t \in Closers
    BY <1>3, <2>1 DEF SendFailed, IInv, TypeOK, ClosersWon, closed
  <2>2. CASE t \notin Closers
    BY <1>3, <2>2, CASCloses DEF SendFailed
  <2> QED
    BY <2>1, <2>2
<1>4. \/ /\ UNCHANGED <<closedBy, atClose>>
         /\ \/ t \in Senders /\ \E label \in {"pick", "transmit", "idle"} : Goto(t, label)
            \/ /\ t \in Closers /\ pc[t] \in {"pick", "transmit"}
               /\ \E label \in {"transmit", "casBroken"} : Goto(t, label)
      \/ SendFailed(t) /\ pc[t] \in {"pick", "transmit"}
  BY DEF SendStep, StartSend, PickRandConn, Transmit
<1>5. PICK label \in {"idle", "pick", "transmit", "casBroken", "done"} :
        /\ Goto(t, label)
        /\ closedBy' \in {"nobody", "active", "passive"} /\ atClose' \subseteq Conns
        /\ closed => closed'
        /\ label = "casBroken" => closed'
        /\ t \in Closers /\ label \in {"pick", "transmit"} => closed'
  BY <1>3, <1>4 DEF IInv, TypeOK, ClosersWon, closed
<1>6. TypeOK'
  BY <1>1, <1>2, <1>5 DEF Goto, IInv, TypeOK
<1> QED
  BY Zenon, <1>1, <1>2, <1>5, <1>6, OtherKeeps DEF IInv, TypeOK

(* deplex and Close: a failed Read, the remote's notice, or a call.        *)
LEMMA CloseKeeps ==
  ASSUME IInv, \/ \E c \in Conns : ReadError(c) \/ RecvNotice(c)
               \/ \E k \in Closers : Close(k)
  PROVE  IInv'
<1> USE OwnGoroutine
<1>1. PICK t \in Threads, won \in {"casBroken", "pick"}, lost \in {"done", "read"} :
        /\ \A c \in Conns : t # Adding(c)
        /\ CASSession(t, won, lost)
        /\ UNCHANGED <<broken, connsCount, conns, slot>>
        /\ conn' \in [Conns -> {"new", "up", "dead", "closed"}]
  BY DEF ReadError, RecvNotice, Close, IInv, TypeOK
<1>2. /\ closed' /\ closedBy' \in {"nobody", "active", "passive"} /\ atClose' \subseteq Conns
      /\ Goto(t, won) \/ Goto(t, lost)
  BY <1>1, CASCloses
<1>3. TypeOK'
  BY <1>1, <1>2 DEF Goto, IInv, TypeOK
<1> QED
  BY <1>1, <1>2, <1>3, OtherKeeps

(* closeAll, which only runs once the session is closed. *)
LEMMA CloseAllKeeps ==
  ASSUME IInv, NEW t \in Threads, CloseAllStep(t)
  PROVE  IInv'
<1> USE OwnGoroutine
<1>1. pc[t] \in {"casBroken", "reset", "range"} /\ UNCHANGED <<closedBy, conns, slot, atClose>>
  BY DEF CloseAllStep, CloseAllCAS, CloseAllReset, CloseAllRange
<1>2. closed /\ closed' /\ \A c \in Conns : t # Adding(c)
  BY <1>1 DEF IInv, ClosersWon, closed
<1>3. PICK label \in {"read", "done", "reset", "range"} : Goto(t, label)
  BY DEF CloseAllStep, CloseAllCAS, CloseAllReset, CloseAllRange, AfterCloseAll
<1>4. /\ connsCount' \in {connsCount, 0} /\ broken' \in BOOLEAN
      /\ conn' \in [Conns -> {"new", "up", "dead", "closed"}]
  BY Zenon DEF CloseAllStep, CloseAllCAS, CloseAllReset, CloseAllRange, IInv, TypeOK
<1>5. TypeOK'
  BY <1>1, <1>3, <1>4, Counts DEF Goto, IInv, TypeOK
<1> QED
  BY <1>1, <1>2, <1>3, <1>4, <1>5, OtherKeeps

(* Every step keeps the invariant. *)
LEMMA StepKeeps ==
  ASSUME IInv, [Next]_vars
  PROVE  IInv'
<1>1. ASSUME NEW c \in Conns, ConnDies(c) PROVE IInv'
  BY <1>1 DEF ConnDies, IInv, TypeOK, ClosersWon, SlotsKept, Started, closed
<1>2. CASE UNCHANGED vars
  BY <1>2 DEF vars, IInv, TypeOK, ClosersWon, SlotsKept, Started, closed
<1>3. ASSUME NEW s \in Senders, StartSend(s) PROVE IInv'
  BY <1>3, SendKeeps
<1>4. ASSUME NEW t \in Senders \cup Closers, SendStep(t) PROVE IInv'
  BY <1>4, SendKeeps
<1>5. CASE \/ \E c \in Conns : ReadError(c) \/ RecvNotice(c)
           \/ \E k \in Closers : Close(k)
  BY <1>5, CloseKeeps
<1> QED
  BY <1>1, <1>2, <1>3, <1>4, <1>5, AddConnKeeps, StoreConnKeeps, CloseAllKeeps DEF Next

(* The switchboard's variables have their types: in particular no slot is  *)
(* past the number of connections, before and after closeAll's reset.      *)
THEOREM TypeCorrect == Spec => []TypeOK
<1>1. IInv /\ [Next]_vars => IInv'
  BY StepKeeps
<1>2. IInv => TypeOK
  BY DEF IInv
<1> QED
  BY InitIInv, <1>1, <1>2, PTL DEF Spec

(* While the session is open every connection that addConn has stored is   *)
(* in the pool, at a slot that the random pick can reach.                  *)
THEOREM SlotsCorrect == Spec => []EveryConnKeepsItsSlot
<1>1. IInv /\ [Next]_vars => IInv'
  BY StepKeeps
<1>2. IInv => EveryConnKeepsItsSlot
  <2> SUFFICES ASSUME IInv, ~closed, NEW c \in Conns, pc[Adding(c)] = "done"
               PROVE  \E i \in 0 .. connsCount - 1 : conns[i] = c
    BY DEF EveryConnKeepsItsSlot
  <2>1. c \in Started /\ slot[Adding(c)] < connsCount /\ conns[slot[Adding(c)]] = c
    BY DEF IInv, SlotsKept, Started
  <2>2. slot[Adding(c)] \in Nat /\ connsCount \in Nat
    BY OwnGoroutine, Counts DEF IInv, TypeOK, Slots
  <2> QED
    BY <2>1, <2>2
<1> QED
  BY InitIInv, <1>1, <1>2, PTL DEF Spec
=============================================================================
