--------------------------- MODULE UserPanel_proofs ---------------------------
(***************************************************************************)
(* No usage of a metered user is lost or charged twice, whatever the       *)
(* number of dispatchers, tickers, users and sessions.  First the          *)
(* invariant that says who may hold what; then what a sum over a finite    *)
(* set does when one of its terms changes; then the usage of a user, a     *)
(* sum over ActiveUsers and goroutines, through every step.                *)
(***************************************************************************)
EXTENDS UserPanel, TLAPS

USE PanelAssumption

(* The panel's map and the goroutines hold the right ActiveUsers: the one  *)
(* under a UID was made for that UID, and a dispatcher works with one of   *)
(* its own UID.                                                            *)
UsersMatch ==
  /\ \A u \in UIDs : activeUsers[u] # None => uid[activeUsers[u]] = u
  /\ \A d \in Dispatchers : user[d] # None => uid[user[d]] = uid[d]

(* Who terminates, serves or sends has an ActiveUser to do it with. *)
Terminating == {"terminate", "queueOne", "closeAll", "delete"}
UserHeld ==
  /\ \A t \in Threads : pc[t] \in Terminating => user[t] # None
  /\ \A d \in Dispatchers : pc[d] \notin {"idle", "done"} => user[d] # None
  /\ \A s \in open : user[s] # None

(* A dispatcher does not do a ticker's work.  Usage is carried only from   *)
(* Nullify to the queue, and a ticker has statuses only from the queue to  *)
(* the upload.                                                             *)
TickerOnly == {"lockQueue", "commit", "collect", "upload", "respond"}
HandsEmpty ==
  /\ \A d \in Dispatchers : pc[d] \notin TickerOnly
  /\ \A t \in Threads : pc[t] # "queueOne" => carry[t] = 0
  /\ \A t \in Tickers : pc[t] \notin {"collect", "upload"} => statuses[t] = {}
  /\ \A t \in Tickers : \A u \in UIDs : u \notin statuses[t] => collected[t][u] = 0

(* usageUpdateQueueM is held to collect, so a UID that is collected does   *)
(* not come back to the queue before the ticker is through with it.        *)
QueueSound ==
  /\ \A t \in Tickers : pc[t] = "collect" <=> usageUpdateQueueM = t
  /\ \A u \in UIDs : u \notin usageUpdateQueue => queued[u] = 0
  /\ \A t \in Tickers : pc[t] = "collect" => statuses[t] \cap usageUpdateQueue = {}

(* activeUsersM is kept only to wait for the queue's mutex. *)
PanelHeld == \A t \in Tickers : pc[t] = "lockQueue" <=> activeUsersM = t

IInv ==
  TypeOK /\ UsersMatch /\ UserHeld /\ HandsEmpty /\ QueueSound /\ PanelHeld

(* A new panel satisfies the invariant. *)
LEMMA InitIInv == Init => IInv
<1> SUFFICES ASSUME Init PROVE IInv
  BY Zenon
<1>1. TypeOK
  <2>1. /\ activeUsers \in [UIDs -> Dispatchers \cup {None}]
        /\ user \in [Threads -> Dispatchers \cup {None}]
        /\ sessions \in [Dispatchers -> [SIDs -> Dispatchers \cup {None}]]
    BY Zenon DEF Init
  <2>2. queued \in [UIDs -> Nat] /\ valve \in [Dispatchers -> Nat] /\ carry \in [Threads -> Nat]
    BY Zenon DEF Init
  <2>3. /\ credit \in [UIDs -> Int] /\ lost \in [UIDs -> Nat] /\ used \in [UIDs -> 0 .. MaxUse]
        /\ collected \in [Tickers -> [UIDs -> Nat]]
    BY DEF Init
  <2>4. /\ status \in [UIDs -> {"valid", "expired", "deleted"}] /\ pc \in [Threads -> Labels]
        /\ statuses \in [Tickers -> SUBSET UIDs] /\ responses \in [Tickers -> SUBSET UIDs]
    BY Zenon DEF Init, Labels
  <2> QED
    BY <2>1, <2>2, <2>3, <2>4, Zenon DEF Init, TypeOK
<1>2. /\ \A t \in Threads : pc[t] = "idle" /\ user[t] = None /\ carry[t] = 0
      /\ \A t \in Tickers : statuses[t] = {} /\ \A u \in UIDs : collected[t][u] = 0
      /\ \A u \in UIDs : activeUsers[u] = None /\ queued[u] = 0
      /\ activeUsersM = None /\ usageUpdateQueueM = None /\ open = {}
  BY Zenon DEF Init, Threads
<1>3. UsersMatch /\ UserHeld /\ HandsEmpty /\ QueueSound /\ PanelHeld
  BY Zenon, <1>2 DEF UsersMatch, UserHeld, HandsEmpty, QueueSound, PanelHeld, Terminating, TickerOnly, Threads
<1> QED
  BY Zenon, <1>1, <1>3 DEF IInv

(* A goroutine that moves on. *)
LEMMA Moved ==
  ASSUME IInv, NEW t \in Threads, NEW label \in Labels, Goto(t, label)
  PROVE  /\ pc' \in [Threads -> Labels] /\ pc'[t] = label
         /\ \A s \in Threads \ {t} : pc'[s] = pc[s]
<1>1. pc \in [Threads -> Labels]
  BY Zenon DEF IInv, TypeOK
<1> QED
  BY Zenon, <1>1 DEF Goto

(* Steps that move no usage and take no mutex: a dispatcher or a ticker    *)
(* goes on, and sessions may end and entries of sessions be cleared.       *)
Elsewhere == {"queueOne", "lockQueue", "collect", "upload"}
QuietStep(t, label) ==
  /\ Goto(t, label)
  /\ pc[t] \notin Elsewhere /\ label \in Labels \ Elsewhere
  /\ t \in Dispatchers => label \notin TickerOnly /\ user[t] # None
  /\ t \in Tickers /\ label \in Terminating => user[t] # None
  /\ sessions' \in [Dispatchers -> [SIDs -> Dispatchers \cup {None}]]
  /\ open' \subseteq open
  /\ UNCHANGED <<uid, sid, activeUsers, activeUsersM, usageUpdateQueue, queued, usageUpdateQueueM,
                 valve, credit, status, user, carry, statuses, collected, responses, used, lost>>

(* Such a step keeps the invariant. *)
LEMMA QuietStepKeeps ==
  ASSUME IInv, NEW t \in Threads, NEW label, QuietStep(t, label)
  PROVE  IInv'
<1> USE DEF IInv
<1>1. /\ pc' \in [Threads -> Labels] /\ pc'[t] = label
      /\ \A s \in Threads \ {t} : pc'[s] = pc[s]
  BY Zenon, Moved DEF QuietStep
<1>2. TypeOK'
  <2>1. open' \subseteq Dispatchers
    BY Zenon DEF QuietStep, TypeOK
  <2> QED
    BY <1>1, <2>1, Zenon DEF QuietStep, TypeOK
<1>3. UsersMatch'
  BY Zenon DEF QuietStep, UsersMatch
<1>4. UserHeld'
  BY Zenon, <1>1 DEF QuietStep, UserHeld, Threads
<1>5. HandsEmpty'
  BY Zenon, <1>1 DEF QuietStep, HandsEmpty, Elsewhere, Threads
<1>6. QueueSound' /\ PanelHeld'
  BY Zenon, <1>1 DEF QuietStep, QueueSound, PanelHeld, Elsewhere, Threads
<1> QED
  BY Zenon, <1>2, <1>3, <1>4, <1>5, <1>6

(* The end of a handshake, of serveSession, of a session by CloseSession   *)
(* or closeAllSessions, and of the responses to an upload.                 *)
LEMMA QuietActions ==
  /\ \A d \in Dispatchers : IInv /\ (FinishHandshake(d) \/ ServeSession(d) \/ CloseSession(d)) => IInv'
  /\ \A t \in Threads : IInv /\ CloseAllSessions(t) => IInv'
  /\ \A t \in Tickers : IInv /\ RespondDone(t) => IInv'
<1> USE DEF IInv, Labels, Elsewhere, TickerOnly, Terminating
<1>1. ASSUME IInv, NEW d \in Dispatchers, FinishHandshake(d) \/ ServeSession(d) PROVE IInv'
  <2>1. PICK label \in {"serving", "done", "closeSession"} : Goto(d, label)
    BY Zenon, <1>1 DEF FinishHandshake, ServeSession
  <2>2. pc[d] \in {"handshake", "join", "serving"} /\ user[d] # None
    BY Zenon, <1>1 DEF FinishHandshake, ServeSession, UserHeld
  <2>3. UNCHANGED <<uid, sid, activeUsers, activeUsersM, usageUpdateQueue, queued, usageUpdateQueueM,
                    sessions, open, valve, credit, status, user, carry, statuses, collected,
                    responses, used, lost>>
    BY <1>1, Zenon DEF FinishHandshake, ServeSession, inputVars, panelVars, queueVars, sessionVars,
                       usageVars, dbVars, tickVars
  <2>4. sessions \in [Dispatchers -> [SIDs -> Dispatchers \cup {None}]] /\ d \notin Tickers
    BY Zenon, <1>1 DEF TypeOK
  <2>5. QuietStep(d, label)
    BY Zenon, <2>1, <2>2, <2>3, <2>4 DEF QuietStep
  <2> QED
    BY <1>1, <2>5, QuietStepKeeps, Zenon DEF Threads
<1>2. ASSUME IInv, NEW d \in Dispatchers, CloseSession(d) PROVE IInv'
  <2>1. PICK label \in {"terminate", "done"} : Goto(d, label)
    BY Zenon, <1>2 DEF CloseSession
  <2>2. pc[d] = "closeSession" /\ user[d] # None /\ user[d] \in Dispatchers
    BY Zenon, <1>2 DEF CloseSession, UserHeld, TypeOK, Threads
  <2>3. UNCHANGED <<uid, sid, activeUsers, activeUsersM, usageUpdateQueue, queued, usageUpdateQueueM,
                    valve, credit, status, user, carry, statuses, collected, responses, used, lost>>
    BY <1>2, Zenon DEF CloseSession, inputVars, panelVars, queueVars, usageVars, dbVars, tickVars
  <2>4. sessions \in [Dispatchers -> [SIDs -> Dispatchers \cup {None}]] /\ d \notin Tickers
    BY Zenon, <1>2 DEF TypeOK
  <2>5. sessions' \in [Dispatchers -> [SIDs -> Dispatchers \cup {None}]] /\ open' \subseteq open
    BY Zenon, <1>2, <2>2, <2>4 DEF CloseSession
  <2>6. QuietStep(d, label)
    BY Zenon, <2>1, <2>2, <2>3, <2>4, <2>5 DEF QuietStep
  <2> QED
    BY <1>2, <2>6, QuietStepKeeps, Zenon DEF Threads
<1>3. ASSUME IInv, NEW t \in Threads, CloseAllSessions(t) PROVE IInv'
  <2>1. pc[t] = "closeAll" /\ user[t] # None /\ Goto(t, "delete")
    BY Zenon, <1>3 DEF CloseAllSessions, UserHeld
  <2>2. UNCHANGED <<uid, sid, activeUsers, activeUsersM, usageUpdateQueue, queued, usageUpdateQueueM,
                    valve, credit, status, user, carry, statuses, collected, responses, used, lost>>
    BY <1>3, Zenon DEF CloseAllSessions, inputVars, panelVars, queueVars, usageVars, dbVars, tickVars
  <2>3. sessions \in [Dispatchers -> [SIDs -> Dispatchers \cup {None}]]
    BY Zenon, <1>3 DEF TypeOK
  <2>4. sessions' \in [Dispatchers -> [SIDs -> Dispatchers \cup {None}]] /\ open' \subseteq open
    BY Zenon, <1>3, <2>3 DEF CloseAllSessions
  <2>5. QuietStep(t, "delete")
    BY Zenon, <2>1, <2>2, <2>4 DEF QuietStep
  <2> QED
    BY <1>3, <2>5, QuietStepKeeps, Zenon
<1>4. ASSUME IInv, NEW t \in Tickers, RespondDone(t) PROVE IInv'
  <2>1. /\ pc[t] = "respond" /\ Goto(t, "idle") /\ t \notin Dispatchers
        /\ sessions \in [Dispatchers -> [SIDs -> Dispatchers \cup {None}]]
    BY Zenon, <1>4 DEF RespondDone, TypeOK
  <2>2. UNCHANGED <<uid, sid, activeUsers, activeUsersM, usageUpdateQueue, queued, usageUpdateQueueM,
                    sessions, open, valve, credit, status, user, carry, statuses, collected,
                    responses, used, lost>>
    BY <1>4, Zenon DEF RespondDone, inputVars, panelVars, queueVars, sessionVars, usageVars, dbVars,
                       tickVars
  <2>3. QuietStep(t, "idle")
    BY Zenon, <2>1, <2>2 DEF QuietStep
  <2> QED
    BY <1>4, <2>3, QuietStepKeeps, Zenon DEF Threads
<1> QED
  BY Zenon, <1>1, <1>2, <1>3, <1>4

(* A session ends by itself, a user's time runs out, or nothing happens. *)
LEMMA OthersKeep ==
  ASSUME IInv,
         \/ \E d \in Dispatchers : SessionEnds(d)
         \/ \E u \in UIDs, how \in {"expired", "deleted"} : Revoke(u, how)
         \/ UNCHANGED vars
  PROVE  IInv'
<1> USE DEF IInv
<1>1. /\ open' \subseteq open
      /\ UNCHANGED <<uid, sid, activeUsers, activeUsersM, usageUpdateQueue, queued, usageUpdateQueueM,
                     sessions, valve, credit, pc, user, carry, statuses, collected, responses, used,
                     lost>>
  BY Zenon DEF SessionEnds, Revoke, vars, inputVars, panelVars, queueVars, sessionVars, usageVars, dbVars,
         tickVars
<1>2. status' \in [UIDs -> {"valid", "expired", "deleted"}]
  <2>1. status \in [UIDs -> {"valid", "expired", "deleted"}]
    BY Zenon DEF TypeOK
  <2> QED
    BY Zenon, <2>1 DEF SessionEnds, Revoke, vars, dbVars
<1>3. TypeOK'
  <2>1. open' \subseteq Dispatchers
    BY <1>1, Zenon DEF TypeOK
  <2> QED
    BY <1>1, <1>2, <2>1, Zenon DEF TypeOK
<1>4. UsersMatch' /\ UserHeld' /\ HandsEmpty' /\ QueueSound' /\ PanelHeld'
  BY <1>1, Zenon DEF UsersMatch, UserHeld, HandsEmpty, QueueSound, PanelHeld
<1> QED
  BY Zenon, <1>3, <1>4

(* GetUser finds the ActiveUser of the UID, makes one, or refuses. *)
LEMMA GetUserKeeps ==
  ASSUME IInv, NEW d \in Dispatchers, GetUser(d)
  PROVE  IInv'
<1> USE DEF IInv
<1>1. /\ uid[d] \in UIDs /\ d \in Threads /\ pc[d] = "idle"
      /\ UNCHANGED <<uid, sid, activeUsersM, usageUpdateQueue, queued, usageUpdateQueueM, sessions,
                     open, valve, credit, status, carry, statuses, collected, responses, used, lost>>
  BY Zenon DEF GetUser, TypeOK, Threads, inputVars, queueVars, sessionVars, usageVars, dbVars, tickVars
<1>2. PICK label \in {"getSession", "done"} : /\ pc' = [pc EXCEPT ![d] = label]
                                              /\ label = "done" => UNCHANGED <<user, activeUsers>>
  BY Zenon DEF GetUser, Goto
<1>3. pc'[d] = label /\ \A t \in Threads \ {d} : pc'[t] = pc[t]
  BY Zenon, <1>1, <1>2 DEF TypeOK
<1>4. PICK o \in Dispatchers :
        label = "getSession" => /\ user' = [user EXCEPT ![d] = o]
                                /\ uid[o] = uid[d]
                                /\ activeUsers' \in {activeUsers, [activeUsers EXCEPT ![uid[d]] = o]}
  <2>1. CASE activeUsers[uid[d]] # None
    BY Zenon, <1>1, <1>2, <2>1 DEF GetUser, UsersMatch, TypeOK
  <2>2. CASE activeUsers[uid[d]] = None
    BY <1>1, <1>2, <1>3, <2>2 DEF GetUser, Goto
  <2> QED
    BY Zenon, <2>1, <2>2
<1>5. TypeOK'
  <2>1. pc' \in [Threads -> Labels]
    BY Zenon, <1>2 DEF TypeOK, Labels
  <2>2. user' \in [Threads -> Dispatchers \cup {None}]
    BY <1>2, <1>4 DEF TypeOK
  <2>3. activeUsers' \in [UIDs -> Dispatchers \cup {None}]
    BY <1>2, <1>4 DEF TypeOK
  <2> QED
    BY <1>1, <2>1, <2>2, <2>3, Zenon DEF TypeOK
<1>6. UsersMatch'
  BY Zenon, <1>1, <1>2, <1>4 DEF UsersMatch, TypeOK, Threads
<1>7. UserHeld'
  BY <1>1, <1>2, <1>3, <1>4 DEF UserHeld, Terminating, TypeOK, Threads
<1>8. HandsEmpty'
  BY Zenon, <1>1, <1>3 DEF HandsEmpty, TickerOnly, Threads
<1>9. QueueSound' /\ PanelHeld'
  BY Zenon, <1>1, <1>3 DEF QueueSound, PanelHeld, Threads
<1> QED
  BY Zenon, <1>5, <1>6, <1>7, <1>8, <1>9

(* GetSession makes a session of the dispatcher's ActiveUser, finds one or is *)
(* refused.                                                                   *)
LEMMA GetSessionKeeps ==
  ASSUME IInv, NEW d \in Dispatchers, GetSession(d)
  PROVE  IInv'
<1> USE DEF IInv
<1>1. /\ d \in Threads /\ pc[d] = "getSession" /\ user[d] \in Dispatchers
      /\ UNCHANGED <<uid, sid, activeUsers, activeUsersM, usageUpdateQueue, queued, usageUpdateQueueM,
                     valve, credit, status, user, carry, statuses, collected, responses, used, lost>>
  BY Zenon DEF GetSession, TypeOK, UserHeld, Threads, inputVars, panelVars, queueVars, usageVars, dbVars,
         tickVars
<1>2. PICK label \in {"join", "handshake", "closeSession"} : pc' = [pc EXCEPT ![d] = label]
  BY Zenon DEF GetSession, Goto
<1>3. pc'[d] = label /\ \A t \in Threads \ {d} : pc'[t] = pc[t]
  BY Zenon, <1>1, <1>2 DEF TypeOK
<1>4. /\ sessions' \in {sessions, [sessions EXCEPT ![user[d]][sid[d]] = d]}
      /\ open' \in {open, open \cup {d}}
  BY Zenon DEF GetSession, sessionVars
<1>5. TypeOK'
  <2>1. pc' \in [Threads -> Labels]
    BY Zenon, <1>2 DEF TypeOK, Labels
  <2>2. sessions' \in [Dispatchers -> [SIDs -> Dispatchers \cup {None}]] /\ open' \subseteq Dispatchers
    <3>1. /\ sessions \in [Dispatchers -> [SIDs -> Dispatchers \cup {None}]]
          /\ open \subseteq Dispatchers /\ sid[d] \in SIDs
      BY Zenon DEF TypeOK
    <3> QED
      BY <1>1, <1>4, <3>1
  <2> QED
    BY <1>1, <2>1, <2>2, Zenon DEF TypeOK
<1>6. UsersMatch'
  BY Zenon, <1>1 DEF UsersMatch
<1>7. UserHeld'
  BY Zenon, <1>1, <1>3, <1>4 DEF UserHeld, Terminating, Threads
<1>8. HandsEmpty'
  BY Zenon, <1>1, <1>3 DEF HandsEmpty, TickerOnly, Threads
<1>9. QueueSound' /\ PanelHeld'
  BY Zenon, <1>1, <1>3 DEF QueueSound, PanelHeld, Threads
<1> QED
  BY Zenon, <1>5, <1>6, <1>7, <1>8, <1>9

(* A session sends through the valve of its ActiveUser. *)
LEMMA TrafficKeeps ==
  ASSUME IInv, NEW d \in Dispatchers, Traffic(d)
  PROVE  IInv'
<1> USE DEF IInv
<1>1. UNCHANGED <<uid, sid, activeUsers, activeUsersM, usageUpdateQueue, queued,
                 usageUpdateQueueM, sessions, open, credit, status, user, pc, carry,
                 statuses, collected, responses, lost>>
  BY Zenon DEF Traffic, dbVars, queueVars, panelVars, sessionVars, tickVars, inputVars
<1>2. /\ used \in [UIDs -> 0 .. MaxUse] /\ valve \in [Dispatchers -> Nat]
      /\ uid[d] \in UIDs /\ user[d] \in Dispatchers
  BY Zenon DEF Traffic, TypeOK, UserHeld, Terminating, UIDOf, Threads
<1>3. TypeOK'
  <2>1. used' \in [UIDs -> 0 .. MaxUse]
    BY <1>2 DEF Traffic
  <2>2. valve' \in [Dispatchers -> Nat]
    BY <1>2 DEF Traffic
  <2> QED
    BY <1>1, <2>1, <2>2, Zenon DEF TypeOK
<1>4. UsersMatch'
  BY Zenon, <1>1, <1>2 DEF Traffic, UsersMatch, Threads
<1>5. UserHeld'
  BY Zenon, <1>1, <1>2 DEF Traffic, UserHeld, Terminating, Threads
<1>6. HandsEmpty'
  BY Zenon, <1>1, <1>2 DEF Traffic, HandsEmpty, TickerOnly, Threads
<1>7. QueueSound'
  BY Zenon, <1>1, <1>2 DEF Traffic, QueueSound, Threads
<1>8. PanelHeld'
  BY Zenon, <1>1, <1>2 DEF Traffic, PanelHeld, Threads
<1> QED
  BY Zenon, <1>3, <1>4, <1>5, <1>6, <1>7, <1>8

(* The valve is emptied into the hands of the goroutine that terminates. *)
LEMMA TerminateNullifyKeeps ==
  ASSUME IInv, NEW t \in Threads, TerminateNullify(t)
  PROVE  IInv'
<1> USE DEF IInv
<1>1. /\ pc[t] = "terminate" /\ user[t] \in Dispatchers
      /\ UNCHANGED <<uid, sid, activeUsers, activeUsersM, usageUpdateQueue, queued, usageUpdateQueueM,
                     sessions, open, credit, status, user, statuses, collected, responses, used, lost>>
  BY Zenon DEF TerminateNullify, TypeOK, UserHeld, Terminating, inputVars, panelVars, queueVars,
         sessionVars, dbVars, tickVars
<1>2. PICK label \in {"closeAll", "queueOne"} :
        /\ pc' = [pc EXCEPT ![t] = label]
        /\ label = "closeAll" => carry' = carry
        /\ carry' \in {carry, [carry EXCEPT ![t] = valve[user[t]]]}
        /\ valve' \in {valve, [valve EXCEPT ![user[t]] = 0]}
  <2>1. CASE UIDOf(t) \in Bypass
    BY Zenon, <2>1 DEF TerminateNullify, Goto
  <2>2. CASE UIDOf(t) \notin Bypass
    BY Zenon, <2>2 DEF TerminateNullify, Goto
  <2> QED
    BY Zenon, <2>1, <2>2
<1>3. pc'[t] = label /\ \A s \in Threads \ {t} : pc'[s] = pc[s] /\ carry'[s] = carry[s]
  BY Zenon, <1>2 DEF TypeOK
<1>4. TypeOK'
  <2>1. pc' \in [Threads -> Labels]
    BY Zenon, <1>2 DEF TypeOK, Labels
  <2>2. carry' \in [Threads -> Nat] /\ valve' \in [Dispatchers -> Nat]
    <3>1. carry \in [Threads -> Nat] /\ valve \in [Dispatchers -> Nat]
      BY Zenon DEF TypeOK
    <3> QED
      BY <1>1, <1>2, <3>1
  <2> QED
    BY <1>1, <2>1, <2>2, Zenon DEF TypeOK
<1>5. UsersMatch'
  BY Zenon, <1>1 DEF UsersMatch
<1>6. UserHeld'
  BY Zenon, <1>1, <1>3 DEF UserHeld, Terminating, Threads
<1>7. HandsEmpty'
  BY Zenon, <1>1, <1>2, <1>3 DEF HandsEmpty, TickerOnly, Threads
<1>8. QueueSound' /\ PanelHeld'
  BY Zenon, <1>1, <1>3 DEF QueueSound, PanelHeld, Threads
<1> QED
  BY Zenon, <1>4, <1>5, <1>6, <1>7, <1>8

(* What it carried goes to the queue, and its UID with it. *)
LEMMA UpdateUsageQueueForOneKeeps ==
  ASSUME IInv, NEW t \in Threads, UpdateUsageQueueForOne(t)
  PROVE  IInv'
<1> USE DEF IInv
<1>1. UNCHANGED <<uid, sid, activeUsers, activeUsersM, usageUpdateQueueM, sessions, open, valve,
                 credit, status, user, statuses, collected, responses, used, lost>>
  BY Zenon DEF UpdateUsageQueueForOne, dbVars, panelVars, sessionVars, tickVars, inputVars, usageVars
<1>2. /\ pc' \in [Threads -> Labels] /\ pc'[t] = "closeAll"
      /\ \A s \in Threads \ {t} : pc'[s] = pc[s]
  BY Zenon, Moved DEF UpdateUsageQueueForOne, Labels, Threads
<1>3. /\ usageUpdateQueue \subseteq UIDs /\ queued \in [UIDs -> Nat] /\ carry \in [Threads -> Nat]
      /\ UIDOf(t) \in UIDs
  BY Zenon DEF UpdateUsageQueueForOne, TypeOK, UserHeld, Terminating, UIDOf, Threads
<1>4. TypeOK'
  <2>1. usageUpdateQueue' \subseteq UIDs
    BY Zenon, <1>3 DEF UpdateUsageQueueForOne
  <2>2. queued' \in [UIDs -> Nat]
    BY <1>3 DEF UpdateUsageQueueForOne
  <2>3. carry' \in [Threads -> Nat]
    BY Zenon, <1>3 DEF UpdateUsageQueueForOne
  <2> QED
    BY <1>1, <1>2, <2>1, <2>2, <2>3, Zenon DEF TypeOK
<1>5. UsersMatch'
  BY Zenon, <1>1, <1>2, <1>3 DEF UpdateUsageQueueForOne, UsersMatch, Threads
<1>6. UserHeld'
  BY Zenon, <1>1, <1>2, <1>3 DEF UpdateUsageQueueForOne, UserHeld, Terminating, Threads
<1>7. HandsEmpty'
  BY Zenon, <1>1, <1>2, <1>3 DEF UpdateUsageQueueForOne, HandsEmpty, TickerOnly, Threads
<1>8. QueueSound'
  BY Zenon, <1>1, <1>2, <1>3 DEF UpdateUsageQueueForOne, QueueSound, Threads
<1>9. PanelHeld'
  BY Zenon, <1>1, <1>2, <1>3 DEF UpdateUsageQueueForOne, PanelHeld, Threads
<1> QED
  BY Zenon, <1>4, <1>5, <1>6, <1>7, <1>8, <1>9

(* The entry of the UID is deleted; a ticker goes on to the next response. *)
LEMMA DeleteActiveUserKeeps ==
  ASSUME IInv, NEW t \in Threads, DeleteActiveUser(t)
  PROVE  IInv'
<1> USE DEF IInv
<1>1. UNCHANGED <<uid, sid, activeUsersM, usageUpdateQueue, queued, usageUpdateQueueM, sessions,
                 open, valve, credit, status, carry, statuses, collected, responses, used,
                 lost>>
  BY Zenon DEF DeleteActiveUser, dbVars, queueVars, sessionVars, tickVars, inputVars, usageVars
<1>2. PICK label \in {"respond", "done"} : Goto(t, label) /\ (label = "respond" <=> t \in Tickers)
  BY Zenon DEF DeleteActiveUser
<1>3. /\ pc' \in [Threads -> Labels] /\ pc'[t] = label
      /\ \A s \in Threads \ {t} : pc'[s] = pc[s]
  BY Zenon, <1>2, Moved DEF Labels, Threads
<1>4. /\ activeUsers \in [UIDs -> Dispatchers \cup {None}] /\ user \in [Threads -> Dispatchers \cup {None}]
      /\ UIDOf(t) \in UIDs
  BY Zenon DEF DeleteActiveUser, TypeOK, UserHeld, Terminating, UIDOf, Threads
<1>5. TypeOK'
  <2>1. activeUsers' \in [UIDs -> Dispatchers \cup {None}]
    BY Zenon, <1>4 DEF DeleteActiveUser
  <2>2. user' \in [Threads -> Dispatchers \cup {None}]
    BY Zenon, <1>4 DEF DeleteActiveUser
  <2> QED
    BY <1>1, <1>2, <1>3, <2>1, <2>2, Zenon DEF TypeOK
<1>6. UsersMatch'
  BY Zenon, <1>1, <1>2, <1>3, <1>4 DEF DeleteActiveUser, UsersMatch, Threads
<1>7. UserHeld'
  <2>1. \A s \in Threads : user'[s] = user[s] \/ (s = t /\ t \in Tickers)
    BY Zenon, <1>1, <1>2, <1>3, <1>4 DEF DeleteActiveUser
  <2>2. open \subseteq Dispatchers
    BY Zenon DEF TypeOK
  <2> QED
    <3>1. \A s \in Threads : pc'[s] \in Terminating => user'[s] # None
      BY <1>2, <1>3, <2>1 DEF UserHeld, Terminating
    <3>2. \A d \in Dispatchers : pc'[d] \notin {"idle", "done"} => user'[d] # None
      BY <1>2, <1>3, <2>1 DEF UserHeld, Threads
    <3>3. \A s \in open' : user'[s] # None
      BY <1>1, <2>1, <2>2 DEF UserHeld, Threads
    <3> QED
      BY Zenon, <3>1, <3>2, <3>3 DEF UserHeld
<1>8. HandsEmpty'
  BY Zenon, <1>1, <1>2, <1>3, <1>4 DEF DeleteActiveUser, HandsEmpty, TickerOnly, Threads
<1>9. QueueSound'
  BY Zenon, <1>1, <1>2, <1>3, <1>4 DEF DeleteActiveUser, QueueSound, Threads
<1>10. PanelHeld'
  BY Zenon, <1>1, <1>2, <1>3, <1>4 DEF DeleteActiveUser, PanelHeld, Threads
<1> QED
  BY Zenon, <1>5, <1>6, <1>7, <1>8, <1>9, <1>10

(* A ticker takes activeUsersM. *)
LEMMA TickStartsKeeps ==
  ASSUME IInv, NEW t \in Tickers, TickStarts(t)
  PROVE  IInv'
<1> USE DEF IInv
<1>1. UNCHANGED <<uid, sid, activeUsers, usageUpdateQueue, queued, usageUpdateQueueM, sessions,
                 open, valve, credit, status, user, carry, statuses, collected, responses,
                 used, lost>>
  BY Zenon DEF TickStarts, dbVars, queueVars, sessionVars, tickVars, inputVars, usageVars
<1>2. /\ pc' \in [Threads -> Labels] /\ pc'[t] = "lockQueue"
      /\ \A s \in Threads \ {t} : pc'[s] = pc[s]
  BY Zenon, Moved DEF TickStarts, Labels, Threads
<1>3. activeUsersM \in Tickers \cup {None}
  BY Zenon DEF TypeOK
<1>4. TypeOK'
  <2>1. activeUsersM' \in Tickers \cup {None}
    BY Zenon, <1>3 DEF TickStarts
  <2> QED
    BY <1>1, <1>2, <2>1, Zenon DEF TypeOK
<1>5. UsersMatch'
  BY Zenon, <1>1, <1>2, <1>3 DEF TickStarts, UsersMatch, Threads
<1>6. UserHeld'
  BY Zenon, <1>1, <1>2, <1>3 DEF TickStarts, UserHeld, Terminating, Threads
<1>7. HandsEmpty'
  BY Zenon, <1>1, <1>2, <1>3 DEF TickStarts, HandsEmpty, TickerOnly, Threads
<1>8. QueueSound'
  BY Zenon, <1>1, <1>2, <1>3 DEF TickStarts, QueueSound, Threads
<1>9. PanelHeld'
  BY Zenon, <1>1, <1>2, <1>3 DEF TickStarts, PanelHeld, Threads
<1> QED
  BY Zenon, <1>4, <1>5, <1>6, <1>7, <1>8, <1>9

(* Every metered valve is emptied into the queue. *)
LEMMA UpdateUsageQueueKeeps ==
  ASSUME IInv, NEW t \in Tickers, UpdateUsageQueue(t)
  PROVE  IInv'
<1> USE DEF IInv
<1>1. UNCHANGED <<uid, sid, activeUsers, usageUpdateQueueM, sessions, open, credit, status,
                 user, carry, statuses, collected, responses, used, lost>>
  BY Zenon DEF UpdateUsageQueue, dbVars, sessionVars, tickVars, inputVars
<1>2. /\ pc' \in [Threads -> Labels] /\ pc'[t] = "commit"
      /\ \A s \in Threads \ {t} : pc'[s] = pc[s]
  BY Zenon, Moved DEF UpdateUsageQueue, Labels, Threads
<1>3. /\ usageUpdateQueue \subseteq UIDs /\ queued \in [UIDs -> Nat] /\ valve \in [Dispatchers -> Nat] /\ activeUsersM \in Tickers \cup {None}
      /\ activeUsers \in [UIDs -> Dispatchers \cup {None}]
  BY Zenon DEF TypeOK
<1>4. TypeOK'
  <2>1. usageUpdateQueue' \subseteq UIDs
    BY Zenon, <1>3 DEF UpdateUsageQueue, Metered
  <2>2. queued' \in [UIDs -> Nat]
    BY <1>3 DEF UpdateUsageQueue, Metered
  <2>3. valve' \in [Dispatchers -> Nat]
    BY Zenon, <1>3 DEF UpdateUsageQueue, Metered
  <2>4. activeUsersM' \in Tickers \cup {None}
    BY Zenon, <1>3 DEF UpdateUsageQueue, Metered
  <2> QED
    BY <1>1, <1>2, <2>1, <2>2, <2>3, <2>4, Zenon DEF TypeOK
<1>5. UsersMatch'
  BY Zenon, <1>1, <1>2, <1>3 DEF UpdateUsageQueue, UsersMatch, Threads
<1>6. UserHeld'
  BY Zenon, <1>1, <1>2, <1>3 DEF UpdateUsageQueue, UserHeld, Terminating, Threads
<1>7. HandsEmpty'
  BY Zenon, <1>1, <1>2, <1>3 DEF UpdateUsageQueue, HandsEmpty, TickerOnly, Threads
<1>8. QueueSound'
  BY Zenon, <1>1, <1>2, <1>3 DEF UpdateUsageQueue, QueueSound, Threads
<1>9. PanelHeld'
  BY Zenon, <1>1, <1>2, <1>3 DEF UpdateUsageQueue, PanelHeld, Threads
<1> QED
  BY Zenon, <1>4, <1>5, <1>6, <1>7, <1>8, <1>9

(* A ticker with no statuses yet takes the queue's mutex. *)
LEMMA CommitUpdateKeeps ==
  ASSUME IInv, NEW t \in Tickers, CommitUpdate(t)
  PROVE  IInv'
<1> USE DEF IInv
<1>1. UNCHANGED <<uid, sid, activeUsers, activeUsersM, usageUpdateQueue, queued, sessions, open,
                 valve, credit, status, user, carry, statuses, collected, responses, used,
                 lost>>
  BY Zenon DEF CommitUpdate, dbVars, panelVars, sessionVars, tickVars, inputVars, usageVars
<1>2. /\ pc' \in [Threads -> Labels] /\ pc'[t] = "collect"
      /\ \A s \in Threads \ {t} : pc'[s] = pc[s]
  BY Zenon, Moved DEF CommitUpdate, Labels, Threads
<1>3. usageUpdateQueueM \in Tickers \cup {None}
  BY Zenon DEF TypeOK
<1>4. TypeOK'
  <2>1. usageUpdateQueueM' \in Tickers \cup {None}
    BY Zenon, <1>3 DEF CommitUpdate
  <2> QED
    BY <1>1, <1>2, <2>1, Zenon DEF TypeOK
<1>5. UsersMatch'
  BY Zenon, <1>1, <1>2, <1>3 DEF CommitUpdate, UsersMatch, Threads
<1>6. UserHeld'
  BY Zenon, <1>1, <1>2, <1>3 DEF CommitUpdate, UserHeld, Terminating, Threads
<1>7. HandsEmpty'
  BY Zenon, <1>1, <1>2, <1>3 DEF CommitUpdate, HandsEmpty, TickerOnly, Threads
<1>8. QueueSound'
  BY Zenon, <1>1, <1>2, <1>3 DEF CommitUpdate, QueueSound, HandsEmpty, Threads
<1>9. PanelHeld'
  BY Zenon, <1>1, <1>2, <1>3 DEF CommitUpdate, PanelHeld, Threads
<1> QED
  BY Zenon, <1>4, <1>5, <1>6, <1>7, <1>8, <1>9

(* An entry moves from the queue to the statuses. *)
LEMMA CollectStatusKeeps ==
  ASSUME IInv, NEW t \in Tickers, NEW u \in UIDs, CollectStatus(t, u)
  PROVE  IInv'
<1> USE DEF IInv
<1>1. UNCHANGED <<uid, sid, activeUsers, activeUsersM, usageUpdateQueueM, sessions, open, valve,
                 credit, status, user, carry, pc, responses, used, lost>>
  BY Zenon DEF CollectStatus, dbVars, panelVars, sessionVars, inputVars, usageVars
<1>2. usageUpdateQueue \subseteq UIDs /\ queued \in [UIDs -> Nat] /\ statuses \in [Tickers -> SUBSET UIDs] /\ collected \in [Tickers -> [UIDs -> Nat]]
  BY Zenon DEF TypeOK
<1>3. TypeOK'
  <2>1. usageUpdateQueue' \subseteq UIDs
    BY Zenon, <1>2 DEF CollectStatus
  <2>2. queued' \in [UIDs -> Nat]
    BY Zenon, <1>2 DEF CollectStatus
  <2>3. statuses' \in [Tickers -> SUBSET UIDs]
    BY Zenon, <1>2 DEF CollectStatus
  <2>4. collected' \in [Tickers -> [UIDs -> Nat]]
    BY Zenon, <1>2 DEF CollectStatus
  <2> QED
    BY <1>1, <2>1, <2>2, <2>3, <2>4, Zenon DEF TypeOK
<1>4. UsersMatch'
  BY Zenon, <1>1, <1>2 DEF CollectStatus, UsersMatch, Threads
<1>5. UserHeld'
  BY Zenon, <1>1, <1>2 DEF CollectStatus, UserHeld, Terminating, Threads
<1>6. HandsEmpty'
  BY Zenon, <1>1, <1>2 DEF CollectStatus, HandsEmpty, TickerOnly, Threads
<1>7. QueueSound'
  BY Zenon, <1>1, <1>2 DEF CollectStatus, QueueSound, Threads
<1>8. PanelHeld'
  BY Zenon, <1>1, <1>2 DEF CollectStatus, PanelHeld, Threads
<1> QED
  BY Zenon, <1>3, <1>4, <1>5, <1>6, <1>7, <1>8

(* The queue is empty and its mutex released. *)
LEMMA CollectDoneKeeps ==
  ASSUME IInv, NEW t \in Tickers, CollectDone(t)
  PROVE  IInv'
<1> USE DEF IInv
<1>1. UNCHANGED <<uid, sid, activeUsers, activeUsersM, usageUpdateQueue, queued, sessions, open,
                 valve, credit, status, user, carry, statuses, collected, responses, used,
                 lost>>
  BY Zenon DEF CollectDone, dbVars, panelVars, sessionVars, tickVars, inputVars, usageVars
<1>2. PICK label \in {"idle", "upload"} : Goto(t, label) /\ (label = "idle" => statuses[t] = {})
  BY Zenon DEF CollectDone
<1>3. /\ pc' \in [Threads -> Labels] /\ pc'[t] = label
      /\ \A s \in Threads \ {t} : pc'[s] = pc[s]
  BY Zenon, <1>2, Moved DEF Labels, Threads
<1>4. usageUpdateQueueM \in Tickers \cup {None}
  BY Zenon DEF TypeOK
<1>5. TypeOK'
  <2>1. usageUpdateQueueM' \in Tickers \cup {None}
    BY Zenon, <1>4 DEF CollectDone
  <2> QED
    BY <1>1, <1>2, <1>3, <2>1, Zenon DEF TypeOK
<1>6. UsersMatch'
  BY Zenon, <1>1, <1>2, <1>3, <1>4 DEF CollectDone, UsersMatch, Threads
<1>7. UserHeld'
  BY Zenon, <1>1, <1>2, <1>3, <1>4 DEF CollectDone, UserHeld, Terminating, Threads
<1>8. HandsEmpty'
  BY Zenon, <1>1, <1>2, <1>3, <1>4 DEF CollectDone, HandsEmpty, TickerOnly, Threads
<1>9. QueueSound'
  BY Zenon, <1>1, <1>2, <1>3, <1>4 DEF CollectDone, QueueSound, Threads
<1>10. PanelHeld'
  BY Zenon, <1>1, <1>2, <1>3, <1>4 DEF CollectDone, PanelHeld, Threads
<1> QED
  BY Zenon, <1>5, <1>6, <1>7, <1>8, <1>9, <1>10

(* The statuses are charged. *)
LEMMA UploadStatusKeeps ==
  ASSUME IInv, NEW t \in Tickers, UploadStatus(t)
  PROVE  IInv'
<1> USE DEF IInv
<1>1. UNCHANGED <<uid, sid, activeUsers, activeUsersM, usageUpdateQueue, queued,
                 usageUpdateQueueM, sessions, open, valve, status, user, carry, used>>
  BY Zenon DEF UploadStatus, queueVars, panelVars, sessionVars, inputVars
<1>2. /\ pc' \in [Threads -> Labels] /\ pc'[t] = "respond"
      /\ \A s \in Threads \ {t} : pc'[s] = pc[s]
  BY Zenon, Moved DEF UploadStatus, Labels, Threads
<1>3. credit \in [UIDs -> Int] /\ lost \in [UIDs -> Nat] /\ responses \in [Tickers -> SUBSET UIDs] /\ statuses \in [Tickers -> SUBSET UIDs] /\ collected \in [Tickers -> [UIDs -> Nat]]
  BY Zenon DEF TypeOK
<1>4. TypeOK'
  <2>1. credit' \in [UIDs -> Int]
    BY <1>3 DEF UploadStatus, Charged
  <2>2. lost' \in [UIDs -> Nat]
    BY <1>3 DEF UploadStatus, Charged
  <2>3. responses' \in [Tickers -> SUBSET UIDs]
    BY Zenon, <1>3 DEF UploadStatus, Charged
  <2>4. statuses' \in [Tickers -> SUBSET UIDs]
    BY Zenon, <1>3 DEF UploadStatus, Charged
  <2>5. collected' \in [Tickers -> [UIDs -> Nat]]
    BY Zenon, <1>3 DEF UploadStatus, Charged
  <2> QED
    BY <1>1, <1>2, <2>1, <2>2, <2>3, <2>4, <2>5, Zenon DEF TypeOK
<1>5. UsersMatch'
  BY Zenon, <1>1, <1>2, <1>3 DEF UploadStatus, UsersMatch, Threads
<1>6. UserHeld'
  BY Zenon, <1>1, <1>2, <1>3 DEF UploadStatus, UserHeld, Terminating, Threads
<1>7. HandsEmpty'
  BY Zenon, <1>1, <1>2, <1>3 DEF UploadStatus, HandsEmpty, TickerOnly, Threads
<1>8. QueueSound'
  BY Zenon, <1>1, <1>2, <1>3 DEF UploadStatus, QueueSound, Threads
<1>9. PanelHeld'
  BY Zenon, <1>1, <1>2, <1>3 DEF UploadStatus, PanelHeld, Threads
<1> QED
  BY Zenon, <1>4, <1>5, <1>6, <1>7, <1>8, <1>9

(* The statuses are given up. *)
LEMMA UploadFailsKeeps ==
  ASSUME IInv, NEW t \in Tickers, UploadFails(t)
  PROVE  IInv'
<1> USE DEF IInv
<1>1. UNCHANGED <<uid, sid, activeUsers, activeUsersM, usageUpdateQueue, queued,
                 usageUpdateQueueM, sessions, open, valve, credit, status, user, carry,
                 responses, used>>
  BY Zenon DEF UploadFails, dbVars, queueVars, panelVars, sessionVars, inputVars
<1>2. /\ pc' \in [Threads -> Labels] /\ pc'[t] = "idle"
      /\ \A s \in Threads \ {t} : pc'[s] = pc[s]
  BY Zenon, Moved DEF UploadFails, Labels, Threads
<1>3. lost \in [UIDs -> Nat] /\ statuses \in [Tickers -> SUBSET UIDs] /\ collected \in [Tickers -> [UIDs -> Nat]]
  BY Zenon DEF TypeOK
<1>4. TypeOK'
  <2>1. lost' \in [UIDs -> Nat]
    BY <1>3 DEF UploadFails
  <2>2. statuses' \in [Tickers -> SUBSET UIDs]
    BY Zenon, <1>3 DEF UploadFails
  <2>3. collected' \in [Tickers -> [UIDs -> Nat]]
    BY Zenon, <1>3 DEF UploadFails
  <2> QED
    BY <1>1, <1>2, <2>1, <2>2, <2>3, Zenon DEF TypeOK
<1>5. UsersMatch'
  BY Zenon, <1>1, <1>2, <1>3 DEF UploadFails, UsersMatch, Threads
<1>6. UserHeld'
  BY Zenon, <1>1, <1>2, <1>3 DEF UploadFails, UserHeld, Terminating, Threads
<1>7. HandsEmpty'
  BY Zenon, <1>1, <1>2, <1>3 DEF UploadFails, HandsEmpty, TickerOnly, Threads
<1>8. QueueSound'
  BY Zenon, <1>1, <1>2, <1>3 DEF UploadFails, QueueSound, Threads
<1>9. PanelHeld'
  BY Zenon, <1>1, <1>2, <1>3 DEF UploadFails, PanelHeld, Threads
<1> QED
  BY Zenon, <1>4, <1>5, <1>6, <1>7, <1>8, <1>9

(* A response names an ActiveUser to terminate, or one that is gone. *)
LEMMA RespondKeeps ==
  ASSUME IInv, NEW t \in Tickers, NEW u \in UIDs, Respond(t, u)
  PROVE  IInv'
<1> USE DEF IInv
<1>1. UNCHANGED <<uid, sid, activeUsers, activeUsersM, usageUpdateQueue, queued,
                 usageUpdateQueueM, sessions, open, valve, credit, status, carry,
                 statuses, collected, used, lost>>
  BY Zenon DEF Respond, dbVars, queueVars, panelVars, sessionVars, inputVars, usageVars
<1>2. PICK label \in {"respond", "terminate"} : Goto(t, label) /\ (activeUsers[u] = None => label = "respond")
  BY Zenon DEF Respond
<1>3. /\ pc' \in [Threads -> Labels] /\ pc'[t] = label
      /\ \A s \in Threads \ {t} : pc'[s] = pc[s]
  BY Zenon, <1>2, Moved DEF Labels, Threads
<1>4. /\ responses \in [Tickers -> SUBSET UIDs] /\ user \in [Threads -> Dispatchers \cup {None}]
      /\ activeUsers[u] \in Dispatchers \cup {None}
  BY Zenon DEF TypeOK
<1>5. TypeOK'
  <2>1. responses' \in [Tickers -> SUBSET UIDs]
    BY Zenon, <1>4 DEF Respond
  <2>2. user' \in [Threads -> Dispatchers \cup {None}]
    BY Zenon, <1>4 DEF Respond
  <2> QED
    BY <1>1, <1>2, <1>3, <2>1, <2>2, Zenon DEF TypeOK
<1>6. UsersMatch'
  BY Zenon, <1>1, <1>2, <1>3, <1>4 DEF Respond, UsersMatch, Threads
<1>7. UserHeld'
  <2>1. user'[t] = activeUsers[u] /\ \A s \in Threads \ {t} : user'[s] = user[s]
    BY Zenon, <1>1, <1>2, <1>3, <1>4 DEF Respond, Threads
  <2>2. open \subseteq Dispatchers /\ t \notin Dispatchers
    BY Zenon DEF TypeOK
  <2> QED
    <3>1. \A s \in Threads : pc'[s] \in Terminating => user'[s] # None
      BY <1>2, <1>3, <2>1 DEF UserHeld, Terminating
    <3>2. \A d \in Dispatchers : pc'[d] \notin {"idle", "done"} => user'[d] # None
      BY <1>2, <1>3, <2>1 DEF UserHeld, Threads
    <3>3. \A s \in open' : user'[s] # None
      BY <1>1, <2>1, <2>2 DEF UserHeld, Threads
    <3> QED
      BY Zenon, <3>1, <3>2, <3>3 DEF UserHeld
<1>8. HandsEmpty'
  BY <1>1, <1>2, <1>3, <1>4 DEF Respond, HandsEmpty, TickerOnly, Threads
<1>9. QueueSound'
  BY Zenon, <1>1, <1>2, <1>3, <1>4 DEF Respond, QueueSound, Threads
<1>10. PanelHeld'
  BY Zenon, <1>1, <1>2, <1>3, <1>4 DEF Respond, PanelHeld, Threads
<1> QED
  BY Zenon, <1>5, <1>6, <1>7, <1>8, <1>9, <1>10

(* Every step keeps the invariant. *)
LEMMA NextIInv == IInv /\ [Next]_vars => IInv'
<1> SUFFICES ASSUME IInv, [Next]_vars PROVE IInv'
  BY Zenon
<1>1. ASSUME NEW t \in Threads, TerminateStep(t) PROVE IInv'
  BY Zenon, <1>1, TerminateNullifyKeeps, UpdateUsageQueueForOneKeeps, QuietActions, DeleteActiveUserKeeps
     DEF TerminateStep
<1>2. ASSUME NEW d \in Dispatchers,
             DispatcherStep(d) \/ ServeSession(d) \/ SessionEnds(d) \/ Traffic(d)
      PROVE  IInv'
  BY Zenon, <1>1, <1>2, GetUserKeeps, GetSessionKeeps, QuietActions, OthersKeep, TrafficKeeps
     DEF DispatcherStep, Threads
<1>3. ASSUME NEW t \in Tickers, TickerStep(t) \/ UploadFails(t) PROVE IInv'
  <2>1. CASE TickStarts(t) \/ UpdateUsageQueue(t) \/ CommitUpdate(t) \/ CollectDone(t)
    BY Zenon, <2>1, TickStartsKeeps, UpdateUsageQueueKeeps, CommitUpdateKeeps, CollectDoneKeeps
  <2>2. ASSUME NEW u \in UIDs, CollectStatus(t, u) \/ Respond(t, u) PROVE IInv'
    BY Zenon, <2>2, CollectStatusKeeps, RespondKeeps
  <2>3. CASE UploadStatus(t) \/ UploadFails(t) \/ RespondDone(t)
    BY Zenon, <2>3, UploadStatusKeeps, UploadFailsKeeps, QuietActions
  <2> QED
    BY Zenon, <1>1, <1>3, <2>1, <2>2, <2>3 DEF TickerStep, Threads
<1>4. ASSUME NEW u \in UIDs \ Bypass, NEW how \in {"expired", "deleted"}, Revoke(u, how) PROVE IInv'
  BY Zenon, <1>4, OthersKeep
<1>5. CASE UNCHANGED vars
  BY Zenon, <1>5, OthersKeep
<1> QED
  BY Zenon, <1>2, <1>3, <1>4, <1>5 DEF Next

(* So it holds of every behaviour. *)
LEMMA Invariance == Spec => []IInv
BY InitIInv, NextIInv, PTL DEF Spec

(* The state of the panel is well typed for any number of dispatchers,     *)
(* tickers, users and sessions.                                            *)
THEOREM TypeCorrect == Spec => []TypeOK
BY Invariance, PTL DEF IInv
-----------------------------------------------------------------------------
(* Sums over finite sets, for any terms. *)
HIDE PanelAssumption
INSTANCE FiniteSetTheorems

(* SumFunctionOnSet takes an element out of the set, again and again. *)
Pick(s) == CHOOSE x \in s : TRUE
IsSum(g, f, S) ==
  g = [s \in SUBSET S |-> IF s = {} THEN 0 ELSE f[Pick(s)] + g[s \ {Pick(s)}]]
Sum(f, S) == (CHOOSE g : IsSum(g, f, S))[S]

(* That is what the library's definition comes to. *)
LEMMA SumIs ==
  ASSUME NEW f, NEW S
  PROVE  SumFunctionOnSet(f, S) = Sum(f, S)
BY Zenon DEF SumFunctionOnSet, FoldFunctionOnSet, MapThenFoldSet, IsSum, Pick, Sum

(* Induction over the subsets of a finite set: any nonempty family of them *)
(* has a minimal member.                                                   *)
LEMMA Minimal ==
  ASSUME NEW S, IsFiniteSet(S), NEW B \in SUBSET SUBSET S, B # {}
  PROVE  \E T \in B : \A U \in B : U \subseteq T => U = T
<1>1. IsWellFoundedOn(StrictSubsetOrdering(S), FiniteSubsetsOf(S)) /\ FiniteSubsetsOf(S) = SUBSET S
  BY Zenon, FS_StrictSubsetOrderingWellFounded, FS_FiniteSubsetsOfFinite
<1>2. \E T \in B : \A U \in B : <<U, T>> \notin StrictSubsetOrdering(S)
  BY <1>1, WFMin
<1> QED
  BY Zenon, <1>2 DEF StrictSubsetOrdering

(* The element taken out is one of the set. *)
LEMMA PickIn == ASSUME NEW s, s # {} PROVE Pick(s) \in s
BY Zenon DEF Pick

(* Two sums of the same terms, one over a subset of the other's set, agree *)
(* on that subset.                                                         *)
LEMMA SumUnique ==
  ASSUME NEW f, NEW S, IsFiniteSet(S), NEW T \in SUBSET S, NEW g, NEW h,
         IsSum(g, f, S), IsSum(h, f, T)
  PROVE  \A s \in SUBSET T : h[s] = g[s]
<1> DEFINE B == {s \in SUBSET T : h[s] # g[s]}
<1> SUFFICES ASSUME B # {} PROVE FALSE
  BY Zenon
<1>1. PICK s \in B : \A u \in B : u \subseteq s => u = s
  <2>1. B \in SUBSET SUBSET S
    BY Zenon
  <2> HIDE DEF B
  <2> QED
    BY <2>1, Minimal
<1>2. s \in SUBSET T /\ s \in SUBSET S /\ h[s] # g[s]
  BY Zenon, <1>1
<1>3. /\ g[s] = IF s = {} THEN 0 ELSE f[Pick(s)] + g[s \ {Pick(s)}]
      /\ h[s] = IF s = {} THEN 0 ELSE f[Pick(s)] + h[s \ {Pick(s)}]
  BY Zenon, <1>2 DEF IsSum
<1>4. s # {} /\ Pick(s) \in s
  BY Zenon, <1>2, <1>3, PickIn
<1>5. s \ {Pick(s)} \notin B
  BY Zenon, <1>1, <1>4
<1>6. h[s \ {Pick(s)}] = g[s \ {Pick(s)}]
  BY Zenon, <1>2, <1>5
<1> QED
  BY Zenon, <1>2, <1>3, <1>4, <1>6

(* Every finite set has a sum. *)
LEMMA SumExists ==
  ASSUME NEW f, NEW S, IsFiniteSet(S)
  PROVE  \A T \in SUBSET S : \E g : IsSum(g, f, T)
<1> DEFINE B == {T \in SUBSET S : ~\E g : IsSum(g, f, T)}
<1> SUFFICES ASSUME B # {} PROVE FALSE
  BY Zenon
<1>1. PICK T \in B : \A U \in B : U \subseteq T => U = T
  <2>1. B \in SUBSET SUBSET S
    BY Zenon
  <2> HIDE DEF B
  <2> QED
    BY <2>1, Minimal
<1> DEFINE G == [s \in SUBSET T |-> IF s = {} THEN 0 ELSE f[Pick(s)] + Sum(f, s \ {Pick(s)})]
<1>2. ASSUME NEW r \in SUBSET T, r # T
      PROVE  \E h : IsSum(h, f, r) /\ Sum(f, r) = h[r]
  <2>1. \E h : IsSum(h, f, r)
    BY Zenon, <1>1, <1>2
  <2>2. IsSum(CHOOSE h : IsSum(h, f, r), f, r)
    BY Zenon, <2>1
  <2> QED
    BY Zenon, <2>2 DEF Sum
<1>3. ASSUME NEW s \in SUBSET T, s # {}
      PROVE  Sum(f, s \ {Pick(s)}) = G[s \ {Pick(s)}]
  <2> DEFINE r == s \ {Pick(s)}
  <2>1. Pick(s) \in s /\ r \in SUBSET T /\ r # T /\ IsFiniteSet(r)
    BY Zenon, <1>1, <1>3, PickIn, FS_Subset
  <2>2. PICK h : IsSum(h, f, r) /\ Sum(f, r) = h[r]
    BY Zenon, <1>2, <2>1
  <2>3. h[r] = IF r = {} THEN 0 ELSE f[Pick(r)] + h[r \ {Pick(r)}]
    BY Zenon, <2>2 DEF IsSum
  <2>4. G[r] = IF r = {} THEN 0 ELSE f[Pick(r)] + Sum(f, r \ {Pick(r)})
    BY Zenon, <2>1
  <2>5. ASSUME r # {} PROVE Sum(f, r \ {Pick(r)}) = h[r \ {Pick(r)}]
    <3> DEFINE q == r \ {Pick(r)}
    <3>1. q \in SUBSET T /\ q # T /\ q \in SUBSET r
      BY Zenon, <2>1, <2>5
    <3>2. PICK k : IsSum(k, f, q) /\ Sum(f, q) = k[q]
      BY Zenon, <1>2, <3>1
    <3>3. k[q] = h[q]
      BY <2>1, <2>2, <3>1, <3>2, SumUnique
    <3> QED
      BY Zenon, <3>2, <3>3
  <2> QED
    BY Zenon, <2>2, <2>3, <2>4, <2>5
<1>4. IsSum(G, f, T)
  BY Zenon, <1>3 DEF IsSum
<1> QED
  BY Zenon, <1>1, <1>4

(* A sum is its first term plus the sum of the others. *)
LEMMA SumStep ==
  ASSUME NEW f, NEW S, IsFiniteSet(S)
  PROVE  Sum(f, S) = IF S = {} THEN 0 ELSE f[Pick(S)] + Sum(f, S \ {Pick(S)})
<1>1. IsSum(CHOOSE g : IsSum(g, f, S), f, S)
  BY Zenon, SumExists
<1>2. PICK g : IsSum(g, f, S) /\ Sum(f, S) = g[S]
  BY Zenon, <1>1 DEF Sum
<1>3. g[S] = IF S = {} THEN 0 ELSE f[Pick(S)] + g[S \ {Pick(S)}]
  BY Zenon, <1>2 DEF IsSum
<1>4. Sum(f, S \ {Pick(S)}) = g[S \ {Pick(S)}]
  <2> DEFINE r == S \ {Pick(S)}
  <2>1. IsSum(CHOOSE h : IsSum(h, f, r), f, r)
    BY Zenon, SumExists
  <2>2. PICK h : IsSum(h, f, r) /\ Sum(f, r) = h[r]
    BY Zenon, <2>1 DEF Sum
  <2> QED
    BY <1>2, <2>2, SumUnique
<1> QED
  BY Zenon, <1>2, <1>3, <1>4

(* Sums of naturals are naturals. *)
LEMMA SumNat ==
  ASSUME NEW f, NEW S, IsFiniteSet(S), \A x \in S : f[x] \in Nat
  PROVE  \A T \in SUBSET S : Sum(f, T) \in Nat
<1> DEFINE B == {T \in SUBSET S : Sum(f, T) \notin Nat}
<1> SUFFICES ASSUME B # {} PROVE FALSE
  BY Zenon
<1>1. PICK T \in B : \A U \in B : U \subseteq T => U = T
  <2>1. B \in SUBSET SUBSET S
    BY Zenon
  <2> HIDE DEF B
  <2> QED
    BY <2>1, Minimal
<1>2. T \in SUBSET S /\ IsFiniteSet(T) /\ Sum(f, T) \notin Nat
  BY Zenon, <1>1, FS_Subset
<1>3. Sum(f, T) = IF T = {} THEN 0 ELSE f[Pick(T)] + Sum(f, T \ {Pick(T)})
  BY Zenon, <1>2, SumStep
<1>4. T # {} /\ Pick(T) \in T
  BY <1>2, <1>3, PickIn
<1>5. Sum(f, T \ {Pick(T)}) \in Nat
  BY <1>1, <1>2, <1>4
<1> QED
  BY <1>2, <1>3, <1>4, <1>5

(* Equal terms have equal sums. *)
LEMMA SumSame ==
  ASSUME NEW f, NEW g, NEW S, IsFiniteSet(S), \A x \in S : f[x] = g[x]
  PROVE  \A T \in SUBSET S : Sum(f, T) = Sum(g, T)
<1> DEFINE B == {T \in SUBSET S : Sum(f, T) # Sum(g, T)}
<1> SUFFICES ASSUME B # {} PROVE FALSE
  BY Zenon
<1>1. PICK T \in B : \A U \in B : U \subseteq T => U = T
  <2>1. B \in SUBSET SUBSET S
    BY Zenon
  <2> HIDE DEF B
  <2> QED
    BY <2>1, Minimal
<1>2. T \in SUBSET S /\ IsFiniteSet(T) /\ Sum(f, T) # Sum(g, T)
  BY Zenon, <1>1, FS_Subset
<1>3. /\ Sum(f, T) = IF T = {} THEN 0 ELSE f[Pick(T)] + Sum(f, T \ {Pick(T)})
      /\ Sum(g, T) = IF T = {} THEN 0 ELSE g[Pick(T)] + Sum(g, T \ {Pick(T)})
  BY Zenon, <1>2, SumStep
<1>4. T # {} /\ Pick(T) \in T
  BY Zenon, <1>2, <1>3, PickIn
<1>5. Sum(f, T \ {Pick(T)}) = Sum(g, T \ {Pick(T)})
  BY <1>1, <1>2, <1>4
<1> QED
  BY Zenon, <1>2, <1>3, <1>4, <1>5

(* Any term can be taken out first. *)
LEMMA SumRemove ==
  ASSUME NEW f, NEW S, IsFiniteSet(S), \A x \in S : f[x] \in Nat
  PROVE  \A T \in SUBSET S : \A x \in T : Sum(f, T) = f[x] + Sum(f, T \ {x})
<1> DEFINE B == {T \in SUBSET S : \E x \in T : Sum(f, T) # f[x] + Sum(f, T \ {x})}
<1> SUFFICES ASSUME B # {} PROVE FALSE
  BY Zenon
<1>1. PICK T \in B : \A U \in B : U \subseteq T => U = T
  <2>1. B \in SUBSET SUBSET S
    BY Zenon
  <2> HIDE DEF B
  <2> QED
    BY <2>1, Minimal
<1>2. PICK x \in T : Sum(f, T) # f[x] + Sum(f, T \ {x})
  BY Zenon, <1>1
<1> DEFINE p == Pick(T)
<1>3. /\ T \in SUBSET S /\ IsFiniteSet(T) /\ T # {} /\ p \in T
      /\ Sum(f, T) = f[p] + Sum(f, T \ {p})
  BY Zenon, <1>1, <1>2, FS_Subset, SumStep, PickIn
<1> HIDE DEF p
<1>4. x # p
  BY Zenon, <1>2, <1>3
<1>5. Sum(f, T \ {p}) = f[x] + Sum(f, (T \ {p}) \ {x})
  <2>1. T \ {p} \notin B /\ x \in T \ {p}
    BY Zenon, <1>1, <1>3, <1>4
  <2> QED
    BY Zenon, <1>3, <2>1
<1>6. Sum(f, T \ {x}) = f[p] + Sum(f, (T \ {x}) \ {p})
  <2>1. T \ {x} \notin B /\ p \in T \ {x}
    BY Zenon, <1>1, <1>3, <1>4
  <2> QED
    BY Zenon, <1>3, <2>1
<1>7. (T \ {x}) \ {p} = (T \ {p}) \ {x}
  BY Zenon
<1>8. f[x] \in Nat /\ f[p] \in Nat /\ Sum(f, (T \ {p}) \ {x}) \in Nat
  BY Zenon, <1>3, SumNat
<1>9. PICK r \in Nat : Sum(f, (T \ {p}) \ {x}) = r /\ Sum(f, (T \ {x}) \ {p}) = r
  BY Zenon, <1>7, <1>8
<1>10. Sum(f, T) = f[p] + (f[x] + r) /\ Sum(f, T \ {x}) = f[p] + r
  BY Zenon, <1>3, <1>5, <1>6, <1>9
<1>11. f[x] + (f[p] + r) = f[p] + (f[x] + r)
  BY <1>8
<1> QED
  BY Zenon, <1>2, <1>10, <1>11

(* When one term changes, the sum changes by as much. *)
LEMMA SumUpdate ==
  ASSUME NEW S, IsFiniteSet(S), NEW f, NEW g, NEW x \in S,
         \A y \in S : f[y] \in Nat /\ g[y] \in Nat,
         \A y \in S \ {x} : g[y] = f[y]
  PROVE  Sum(g, S) = Sum(f, S) + (g[x] - f[x])
<1>1. Sum(f, S) = f[x] + Sum(f, S \ {x}) /\ Sum(g, S) = g[x] + Sum(g, S \ {x})
  BY SumRemove
<1>2. IsFiniteSet(S \ {x})
  BY Zenon, FS_Subset
<1>3. Sum(f, S \ {x}) = Sum(g, S \ {x})
  BY <1>2, SumSame
<1>4. Sum(f, S \ {x}) \in Nat
  BY Zenon, SumNat
<1> QED
  BY <1>1, <1>3, <1>4
(* A sum of zeros. *)
LEMMA SumZero ==
  ASSUME NEW f, NEW S, IsFiniteSet(S), \A x \in S : f[x] = 0
  PROVE  Sum(f, S) = 0
<1> DEFINE B == {T \in SUBSET S : Sum(f, T) # 0}
<1> SUFFICES ASSUME B # {} PROVE FALSE
  BY Zenon
<1>1. PICK T \in B : \A U \in B : U \subseteq T => U = T
  <2>1. B \in SUBSET SUBSET S
    BY Zenon
  <2> HIDE DEF B
  <2> QED
    BY <2>1, Minimal
<1>2. T \in SUBSET S /\ IsFiniteSet(T) /\ Sum(f, T) # 0
  BY Zenon, <1>1, FS_Subset
<1>3. Sum(f, T) = IF T = {} THEN 0 ELSE f[Pick(T)] + Sum(f, T \ {Pick(T)})
  BY Zenon, <1>2, SumStep
<1>4. T # {} /\ Pick(T) \in T
  BY Zenon, <1>2, <1>3, PickIn
<1>5. Sum(f, T \ {Pick(T)}) = 0
  BY <1>1, <1>2, <1>4
<1> QED
  BY <1>2, <1>3, <1>4, <1>5

(* The same of SumFunctionOnSet. *)
LEMMA TermChange ==
  ASSUME NEW S, IsFiniteSet(S), NEW f \in [S -> Nat], NEW g \in [S -> Nat], NEW x \in S,
         \A y \in S : y # x => g[y] = f[y]
  PROVE  SumFunctionOnSet(g, S) = SumFunctionOnSet(f, S) + (g[x] - f[x])
<1>1. Sum(g, S) = Sum(f, S) + (g[x] - f[x])
  BY SumUpdate
<1> QED
  BY <1>1, SumIs, Zenon
-----------------------------------------------------------------------------
USE PanelAssumption

(* The usage in each place is a natural number. *)
PlacesNat ==
  \A u \in UIDs :
    InValves(u) \in Nat /\ Carried(u) \in Nat /\ queued[u] \in Nat /\ Collected(u) \in Nat

(* It is, and so it is after the next step. *)
LEMMA PlacesTyped == (IInv => PlacesNat) /\ (IInv' => PlacesNat')
<1>1. ASSUME IInv, NEW u \in UIDs
      PROVE  InValves(u) \in Nat /\ Carried(u) \in Nat /\ queued[u] \in Nat /\ Collected(u) \in Nat
  <2>1. /\ valve \in [Dispatchers -> Nat] /\ carry \in [Threads -> Nat]
        /\ collected \in [Tickers -> [UIDs -> Nat]] /\ queued[u] \in Nat
    BY Zenon, <1>1 DEF IInv, TypeOK
  <2>2. IsFiniteSet(Threads)
    BY Zenon, FS_Union DEF Threads
  <2>3. \A o \in Dispatchers : ValveOf(u)[o] \in Nat
    BY Zenon, <2>1 DEF ValveOf
  <2>4. \A t \in Threads : CarryOf(u)[t] \in Nat
    BY Zenon, <2>1 DEF CarryOf
  <2>5. \A t \in Tickers : CollectedOf(u)[t] \in Nat
    BY Zenon, <2>1 DEF CollectedOf
  <2>6. /\ Sum(ValveOf(u), Dispatchers) \in Nat /\ Sum(CarryOf(u), Threads) \in Nat
        /\ Sum(CollectedOf(u), Tickers) \in Nat
    BY Zenon, <2>2, <2>3, <2>4, <2>5, SumNat
  <2> QED
    BY <2>1, <2>6, SumIs, Zenon DEF InValves, Carried, Collected
<1>2. IInv => PlacesNat
  BY <1>1, Zenon DEF PlacesNat
<1> QED
  BY <1>2, PTL

(* The valve of one ActiveUser changes. *)
LEMMA ValveChange ==
  ASSUME IInv, IInv', NEW u \in UIDs, UNCHANGED uid, NEW o \in Dispatchers,
         \A p \in Dispatchers \ {o} : uid[p] = u => valve'[p] = valve[p]
  PROVE  InValves(u)' = InValves(u) + (IF uid[o] = u THEN valve'[o] - valve[o] ELSE 0)
<1>1. valve \in [Dispatchers -> Nat] /\ valve' \in [Dispatchers -> Nat]
  BY Zenon DEF IInv, TypeOK
<1>2. PICK f : f = ValveOf(u)
  BY Zenon
<1>3. PICK g : g = [p \in Dispatchers |-> IF uid[p] = u THEN valve'[p] ELSE 0]
  BY Zenon
<1>4. f \in [Dispatchers -> Nat] /\ g \in [Dispatchers -> Nat]
  BY Zenon, <1>1, <1>2, <1>3 DEF ValveOf
<1>5. \A p \in Dispatchers : p # o => g[p] = f[p]
  BY Zenon, <1>1, <1>2, <1>3 DEF ValveOf
<1>6. g[o] - f[o] = IF uid[o] = u THEN valve'[o] - valve[o] ELSE 0
  BY <1>1, <1>2, <1>3 DEF ValveOf
<1>7. InValves(u) = SumFunctionOnSet(f, Dispatchers) /\ InValves(u)' = SumFunctionOnSet(g, Dispatchers)
  BY <1>2, <1>3, Zenon DEF InValves, ValveOf
<1>8. IsFiniteSet(Dispatchers)
  BY Zenon
<1>9. SumFunctionOnSet(g, Dispatchers) = SumFunctionOnSet(f, Dispatchers) + (g[o] - f[o])
  BY <1>4, <1>5, <1>8, TermChange
<1> QED
  BY <1>6, <1>7, <1>9, Zenon

(* What one goroutine carries changes. *)
LEMMA CarryChange ==
  ASSUME IInv, IInv', NEW u \in UIDs, UNCHANGED uid, UNCHANGED user, NEW t \in Threads,
         user[t] # None, \A s \in Threads \ {t} : carry'[s] = carry[s]
  PROVE  Carried(u)' = Carried(u) + (IF UIDOf(t) = u THEN carry'[t] - carry[t] ELSE 0)
<1>1. carry \in [Threads -> Nat] /\ carry' \in [Threads -> Nat]
  BY Zenon DEF IInv, TypeOK
<1>2. PICK f : f = CarryOf(u)
  BY Zenon
<1>3. PICK g : g = [s \in Threads |-> IF user[s] # None /\ UIDOf(s) = u THEN carry'[s] ELSE 0]
  BY Zenon
<1>4. f \in [Threads -> Nat] /\ g \in [Threads -> Nat]
  BY Zenon, <1>1, <1>2, <1>3 DEF CarryOf
<1>5. \A s \in Threads : s # t => g[s] = f[s]
  BY Zenon, <1>1, <1>2, <1>3 DEF CarryOf
<1>6. g[t] - f[t] = IF UIDOf(t) = u THEN carry'[t] - carry[t] ELSE 0
  BY <1>1, <1>2, <1>3 DEF CarryOf
<1>7. Carried(u) = SumFunctionOnSet(f, Threads) /\ Carried(u)' = SumFunctionOnSet(g, Threads)
  BY <1>2, <1>3, Zenon DEF Carried, CarryOf, UIDOf
<1>8. IsFiniteSet(Threads)
  BY Zenon, FS_Union DEF Threads
<1>9. SumFunctionOnSet(g, Threads) = SumFunctionOnSet(f, Threads) + (g[t] - f[t])
  BY <1>4, <1>5, <1>8, TermChange
<1> QED
  BY <1>6, <1>7, <1>9, Zenon

(* What one ticker collected changes. *)
LEMMA CollectedChange ==
  ASSUME IInv, IInv', NEW u \in UIDs, NEW t \in Tickers,
         \A s \in Tickers \ {t} : collected'[s][u] = collected[s][u]
  PROVE  Collected(u)' = Collected(u) + (collected'[t][u] - collected[t][u])
<1>1. collected \in [Tickers -> [UIDs -> Nat]] /\ collected' \in [Tickers -> [UIDs -> Nat]]
  BY Zenon DEF IInv, TypeOK
<1>2. PICK f : f = CollectedOf(u)
  BY Zenon
<1>3. PICK g : g = [s \in Tickers |-> collected'[s][u]]
  BY Zenon
<1>4. f \in [Tickers -> Nat] /\ g \in [Tickers -> Nat]
  BY <1>1, <1>2, <1>3 DEF CollectedOf
<1>5. \A s \in Tickers : s # t => g[s] = f[s]
  BY Zenon, <1>1, <1>2, <1>3 DEF CollectedOf
<1>6. f[t] = collected[t][u] /\ g[t] = collected'[t][u]
  BY Zenon, <1>1, <1>2, <1>3 DEF CollectedOf
<1>7. Collected(u) = SumFunctionOnSet(f, Tickers) /\ Collected(u)' = SumFunctionOnSet(g, Tickers)
  BY <1>2, <1>3, Zenon DEF Collected, CollectedOf
<1>8. IsFiniteSet(Tickers)
  BY Zenon
<1>9. SumFunctionOnSet(g, Tickers) = SumFunctionOnSet(f, Tickers) + (g[t] - f[t])
  BY <1>4, <1>5, <1>8, TermChange
<1> QED
  BY <1>6, <1>7, <1>9, Zenon

(* The places a step does not touch. *)
LEMMA PlaceKept ==
  ASSUME NEW u \in UIDs
  PROVE  /\ UNCHANGED <<uid, valve>> => InValves(u)' = InValves(u)
         /\ UNCHANGED <<uid, user, carry>> => Carried(u)' = Carried(u)
         /\ UNCHANGED collected => Collected(u)' = Collected(u)
BY Zenon DEF InValves, ValveOf, Carried, CarryOf, UIDOf, Collected, CollectedOf

(* A goroutine with empty hands may take up another ActiveUser. *)
LEMMA CarryKept ==
  ASSUME IInv, NEW u \in UIDs, UNCHANGED <<uid, carry>>, NEW t \in Threads, carry[t] = 0,
         \A s \in Threads \ {t} : user'[s] = user[s]
  PROVE  Carried(u)' = Carried(u)
<1> DEFINE g == [s \in Threads |-> IF user'[s] # None /\ uid[user'[s]] = u THEN carry[s] ELSE 0]
<1>1. g = CarryOf(u)
  BY Zenon DEF CarryOf, UIDOf
<1>2. Carried(u)' = SumFunctionOnSet(g, Threads)
  BY Zenon DEF Carried, CarryOf, UIDOf
<1> QED
  BY <1>1, <1>2, Zenon DEF Carried

(* A step that moves usage from one place to the next. *)
Moving == UNCHANGED <<used, credit, lost>> /\ \A u \in UIDs : Pending(u)' = Pending(u)

(* Steps that leave all places alone. *)
LEMMA StillMoves ==
  ASSUME UNCHANGED <<uid, valve, queued, carry, collected, used, credit, lost>>,
         \A u \in UIDs : Carried(u)' = Carried(u)
  PROVE  Moving
BY PlaceKept, Zenon DEF Moving, Pending

(* A dispatcher takes up the ActiveUser it found or made. *)
LEMMA GetUserMoves ==
  ASSUME IInv, NEW d \in Dispatchers, GetUser(d)
  PROVE  Moving
<1>1. UNCHANGED <<uid, valve, queued, carry, collected, used, credit, lost>>
  BY Zenon DEF GetUser, inputVars, usageVars, queueVars, tickVars, dbVars
<1>2. d \in Threads /\ carry[d] = 0
  BY Zenon DEF GetUser, IInv, HandsEmpty, Threads
<1>3. \A s \in Threads \ {d} : user'[s] = user[s]
  BY Zenon DEF GetUser, IInv, TypeOK
<1> QED
  BY Zenon, <1>1, <1>2, <1>3, CarryKept, StillMoves

(* A ticker lets go of one ActiveUser, or takes up another. *)
LEMMA SwitchMoves ==
  ASSUME IInv, NEW t \in Threads, DeleteActiveUser(t) \/ \E u \in UIDs : t \in Tickers /\ Respond(t, u)
  PROVE  Moving
<1>1. UNCHANGED <<uid, valve, queued, carry, collected, used, credit, lost>>
  BY Zenon DEF DeleteActiveUser, Respond, inputVars, usageVars, queueVars, tickVars, dbVars
<1>2. carry[t] = 0
  BY Zenon DEF DeleteActiveUser, Respond, IInv, HandsEmpty
<1>3. \A s \in Threads \ {t} : user'[s] = user[s]
  BY DEF DeleteActiveUser, Respond, IInv, TypeOK
<1> QED
  BY Zenon, <1>1, <1>2, <1>3, CarryKept, StillMoves

(* From the valve to the hands of the goroutine that terminates. *)
LEMMA TerminateNullifyMoves ==
  ASSUME IInv, IInv', NEW t \in Threads, TerminateNullify(t)
  PROVE  Moving
<1>1. UNCHANGED uid /\ UNCHANGED user /\ UNCHANGED <<queued, collected, used, credit, lost>>
  BY Zenon DEF TerminateNullify, inputVars, queueVars, tickVars, dbVars
<1>2. CASE UIDOf(t) \in Bypass
  <2>1. UNCHANGED <<carry, valve>>
    BY <1>2, Zenon DEF TerminateNullify
  <2> QED
    BY <1>1, <2>1, PlaceKept, StillMoves, Zenon
<1>3. CASE UIDOf(t) \notin Bypass
  <2>1. /\ user[t] \in Dispatchers /\ user[t] # None /\ carry[t] = 0
        /\ valve \in [Dispatchers -> Nat] /\ carry \in [Threads -> Nat]
    <3>1. pc[t] = "terminate"
      BY Zenon DEF TerminateNullify
    <3>2. user[t] # None /\ carry[t] = 0
      BY <3>1 DEF IInv, UserHeld, Terminating, HandsEmpty
    <3>3. /\ user[t] \in Dispatchers \cup {None}
          /\ valve \in [Dispatchers -> Nat] /\ carry \in [Threads -> Nat]
      BY Zenon DEF IInv, TypeOK
    <3> QED
      BY Zenon, <3>2, <3>3
  <2>2. /\ valve' = [valve EXCEPT ![user[t]] = 0]
        /\ carry' = [carry EXCEPT ![t] = valve[user[t]]]
    BY <1>3, Zenon DEF TerminateNullify
  <2>3. /\ valve'[user[t]] = 0 /\ \A p \in Dispatchers \ {user[t]} : valve'[p] = valve[p]
        /\ carry'[t] = valve[user[t]] /\ \A s \in Threads \ {t} : carry'[s] = carry[s]
    BY Zenon, <2>1, <2>2
  <2>4. ASSUME NEW u \in UIDs PROVE Pending(u)' = Pending(u)
    <3>1. InValves(u)' = InValves(u) + (IF uid[user[t]] = u THEN valve'[user[t]] - valve[user[t]] ELSE 0)
      BY Zenon, <1>1, <2>1, <2>3, ValveChange
    <3>2. Carried(u)' = Carried(u) + (IF UIDOf(t) = u THEN carry'[t] - carry[t] ELSE 0)
      BY Zenon, <1>1, <2>1, <2>3, CarryChange
    <3>3. Collected(u)' = Collected(u) /\ queued'[u] = queued[u]
      BY <1>1, PlaceKept, Zenon
    <3>4. InValves(u) \in Nat /\ Carried(u) \in Nat /\ queued[u] \in Nat /\ Collected(u) \in Nat
      BY PlacesTyped, Zenon DEF PlacesNat
    <3>5. valve[user[t]] \in Nat
      BY Zenon, <2>1
    <3> QED
      BY <2>1, <2>3, <3>1, <3>2, <3>3, <3>4, <3>5 DEF Pending, UIDOf
  <2> QED
    BY <1>1, <2>4, Zenon DEF Moving
<1> QED
  BY Zenon, <1>2, <1>3

(* From its hands to the queue. *)
LEMMA UpdateUsageQueueForOneMoves ==
  ASSUME IInv, IInv', NEW t \in Threads, UpdateUsageQueueForOne(t)
  PROVE  Moving
<1>1. UNCHANGED uid /\ UNCHANGED user /\ UNCHANGED <<valve, collected, used, credit, lost>>
  BY Zenon DEF UpdateUsageQueueForOne, inputVars, usageVars, tickVars, dbVars
<1>2. /\ user[t] # None /\ UIDOf(t) \in UIDs
      /\ queued \in [UIDs -> Nat] /\ carry \in [Threads -> Nat]
  BY Zenon DEF UpdateUsageQueueForOne, IInv, TypeOK, UserHeld, Terminating, UIDOf
<1>3. /\ queued' = [queued EXCEPT ![UIDOf(t)] = @ + carry[t]]
      /\ carry' = [carry EXCEPT ![t] = 0]
  BY Zenon DEF UpdateUsageQueueForOne
<1>4. carry'[t] = 0 /\ \A s \in Threads \ {t} : carry'[s] = carry[s]
  BY Zenon, <1>2, <1>3
<1>5. ASSUME NEW u \in UIDs PROVE Pending(u)' = Pending(u)
  <2>1. Carried(u)' = Carried(u) + (IF UIDOf(t) = u THEN carry'[t] - carry[t] ELSE 0)
    BY Zenon, <1>1, <1>2, <1>4, CarryChange
  <2>2. queued'[u] = IF UIDOf(t) = u THEN queued[u] + carry[t] ELSE queued[u]
    BY Zenon, <1>2, <1>3
  <2>3. Collected(u)' = Collected(u) /\ InValves(u)' = InValves(u)
    BY <1>1, PlaceKept, Zenon
  <2>4. InValves(u) \in Nat /\ Carried(u) \in Nat /\ queued[u] \in Nat /\ Collected(u) \in Nat
    BY PlacesTyped, Zenon DEF PlacesNat
  <2>5. carry[t] \in Nat
    BY Zenon, <1>2
  <2> QED
    BY <1>4, <2>1, <2>2, <2>3, <2>4, <2>5 DEF Pending
<1> QED
  BY <1>1, <1>5, Zenon DEF Moving

(* From the valves of all metered users to the queue.  A valve is emptied  *)
(* for its own user only, as the map holds it under its own UID.           *)
LEMMA UpdateUsageQueueMoves ==
  ASSUME IInv, IInv', NEW t \in Tickers, UpdateUsageQueue(t)
  PROVE  Moving
<1>1. UNCHANGED uid /\ UNCHANGED user /\ UNCHANGED <<carry, collected, used, credit, lost>>
  BY Zenon DEF UpdateUsageQueue, inputVars, tickVars, dbVars
<1>2. /\ valve \in [Dispatchers -> Nat] /\ queued \in [UIDs -> Nat]
      /\ activeUsers \in [UIDs -> Dispatchers \cup {None}]
  BY Zenon DEF IInv, TypeOK
<1>3. ASSUME NEW u \in UIDs PROVE Pending(u)' = Pending(u)
  <2>1. Carried(u)' = Carried(u) /\ Collected(u)' = Collected(u)
    BY <1>1, PlaceKept, Zenon
  <2>2. InValves(u) \in Nat /\ Carried(u) \in Nat /\ queued[u] \in Nat /\ Collected(u) \in Nat
    BY PlacesTyped, Zenon DEF PlacesNat
  <2>3. \A p \in Dispatchers :
          valve'[p] = IF \E v \in Metered : activeUsers[v] = p THEN 0 ELSE valve[p]
    BY Zenon DEF UpdateUsageQueue
  <2>4. \A v \in Metered : v \in UIDs \ Bypass /\ activeUsers[v] # None /\ uid[activeUsers[v]] = v
    BY Zenon DEF Metered, IInv, UsersMatch
  <2>5. CASE u \in Metered
    <3>1. PICK o \in Dispatchers : o = activeUsers[u] /\ uid[o] = u
      BY Zenon, <1>2, <2>4, <2>5
    <3>2. valve'[o] = 0 /\ \A p \in Dispatchers \ {o} : uid[p] = u => valve'[p] = valve[p]
      BY <2>3, <2>4, <2>5, <3>1
    <3>3. InValves(u)' = InValves(u) + (IF uid[o] = u THEN valve'[o] - valve[o] ELSE 0)
      BY Zenon, <1>1, <3>2, ValveChange
    <3>4. queued'[u] = queued[u] + valve[o]
      BY Zenon, <2>5, <3>1 DEF UpdateUsageQueue
    <3>5. valve[o] \in Nat
      BY Zenon, <1>2
    <3> QED
      BY <2>1, <2>2, <3>1, <3>2, <3>3, <3>4, <3>5 DEF Pending
  <2>6. CASE u \notin Metered
    <3>1. \A p \in Dispatchers : uid[p] = u => valve'[p] = valve[p]
      BY <2>3, <2>4, <2>6
    <3>2. [p \in Dispatchers |-> IF uid[p] = u THEN valve'[p] ELSE 0] = ValveOf(u)
      BY Zenon, <3>1 DEF ValveOf
    <3>3. ValveOf(u)' = ValveOf(u)
      BY <1>1, <3>2, Zenon DEF ValveOf
    <3>4. InValves(u)' = InValves(u)
      BY <3>3, Zenon DEF InValves
    <3>5. queued'[u] = queued[u]
      BY Zenon, <2>6 DEF UpdateUsageQueue
    <3> QED
      BY <2>1, <3>4, <3>5, Zenon DEF Pending
  <2> QED
    BY Zenon, <2>5, <2>6
<1> QED
  BY <1>1, <1>3, Zenon DEF Moving

(* From the queue to the statuses of a ticker, which has none of that user *)
(* yet: otherwise they would be overwritten.                               *)
LEMMA CollectStatusMoves ==
  ASSUME IInv, IInv', NEW t \in Tickers, NEW w \in UIDs, CollectStatus(t, w)
  PROVE  Moving
<1>1. UNCHANGED uid /\ UNCHANGED user /\ UNCHANGED <<valve, carry, used, credit, lost>>
  BY Zenon DEF CollectStatus, inputVars, usageVars, dbVars
<1>2. /\ collected \in [Tickers -> [UIDs -> Nat]] /\ queued \in [UIDs -> Nat]
      /\ collected[t][w] = 0
  BY DEF CollectStatus, IInv, TypeOK, QueueSound, HandsEmpty
<1>3. /\ collected' = [collected EXCEPT ![t][w] = queued[w]]
      /\ queued' = [queued EXCEPT ![w] = 0]
  BY Zenon DEF CollectStatus
<1>4. ASSUME NEW u \in UIDs PROVE Pending(u)' = Pending(u)
  <2>1. Carried(u)' = Carried(u) /\ InValves(u)' = InValves(u)
    BY <1>1, PlaceKept, Zenon
  <2>2. InValves(u) \in Nat /\ Carried(u) \in Nat /\ queued[u] \in Nat /\ Collected(u) \in Nat
    BY PlacesTyped, Zenon DEF PlacesNat
  <2>3. /\ \A s \in Tickers \ {t} : collected'[s][u] = collected[s][u]
        /\ collected'[t][u] - collected[t][u] = IF u = w THEN queued[u] ELSE 0
        /\ queued'[u] = IF u = w THEN 0 ELSE queued[u]
    BY <1>2, <1>3
  <2>4. Collected(u)' = Collected(u) + (collected'[t][u] - collected[t][u])
    BY Zenon, <2>3, CollectedChange
  <2> QED
    BY <2>1, <2>2, <2>3, <2>4 DEF Pending
<1> QED
  BY <1>1, <1>4, Zenon DEF Moving

(* A session sends: one more unit is pending for its user. *)
LEMMA TrafficUses ==
  ASSUME IInv, IInv', NEW d \in Dispatchers, Traffic(d)
  PROVE  /\ uid[d] \in UIDs \ Bypass /\ used' = [used EXCEPT ![uid[d]] = @ + 1]
         /\ UNCHANGED <<credit, lost>>
         /\ \A u \in UIDs : Pending(u)' = IF u = uid[d] THEN Pending(u) + 1 ELSE Pending(u)
<1>1. /\ UNCHANGED uid /\ UNCHANGED user /\ UNCHANGED <<queued, carry, collected, credit, lost>>
      /\ used' = [used EXCEPT ![uid[d]] = @ + 1] /\ valve' = [valve EXCEPT ![user[d]] = @ + 1]
      /\ d \in open /\ uid[d] \notin Bypass
  BY Zenon DEF Traffic, inputVars, queueVars, tickVars, dbVars
<1>2. /\ user[d] \in Dispatchers /\ uid[user[d]] = uid[d] /\ uid[d] \in UIDs
      /\ valve \in [Dispatchers -> Nat]
  BY <1>1 DEF IInv, TypeOK, UserHeld, UsersMatch, Threads
<1>3. /\ \A p \in Dispatchers \ {user[d]} : valve'[p] = valve[p]
      /\ valve'[user[d]] = valve[user[d]] + 1 /\ valve[user[d]] \in Nat
  BY Zenon, <1>1, <1>2
<1>4. ASSUME NEW u \in UIDs
      PROVE  Pending(u)' = IF u = uid[d] THEN Pending(u) + 1 ELSE Pending(u)
  <2>1. Carried(u)' = Carried(u) /\ Collected(u)' = Collected(u) /\ queued'[u] = queued[u]
    BY <1>1, PlaceKept, Zenon
  <2>2. InValves(u) \in Nat /\ Carried(u) \in Nat /\ queued[u] \in Nat /\ Collected(u) \in Nat
    BY PlacesTyped, Zenon DEF PlacesNat
  <2>3. InValves(u)' = InValves(u) + (IF uid[user[d]] = u THEN valve'[user[d]] - valve[user[d]] ELSE 0)
    BY Zenon, <1>1, <1>2, <1>3, ValveChange
  <2> QED
    BY <1>2, <1>3, <2>1, <2>2, <2>3 DEF Pending
<1> QED
  BY <1>1, <1>2, <1>4, Zenon

(* An upload takes the statuses of its ticker out of what is pending, and  *)
(* charges each or gives it up.                                            *)
Settling(t) ==
  /\ used' = used
  /\ \A u \in UIDs :
       /\ collected[t][u] \in Nat /\ collected[t][u] <= Pending(u)
       /\ Pending(u)' = Pending(u) - collected[t][u]
       /\ \/ credit'[u] = credit[u] - collected[t][u] /\ lost'[u] = lost[u]
          \/ credit'[u] = credit[u] /\ lost'[u] = lost[u] + collected[t][u]

(* Both outcomes of an upload do that. *)
LEMMA UploadSettles ==
  ASSUME IInv, IInv', NEW t \in Tickers, UploadStatus(t) \/ UploadFails(t)
  PROVE  Settling(t)
<1>1. /\ UNCHANGED uid /\ UNCHANGED user /\ UNCHANGED <<valve, queued, carry, used>>
      /\ collected' = [collected EXCEPT ![t] = [u \in UIDs |-> 0]]
  BY Zenon DEF UploadStatus, UploadFails, inputVars, queueVars
<1>2. /\ collected \in [Tickers -> [UIDs -> Nat]]
      /\ credit \in [UIDs -> Int] /\ lost \in [UIDs -> Nat]
  BY Zenon DEF IInv, TypeOK
<1>3. ASSUME NEW u \in UIDs
      PROVE  /\ collected[t][u] \in Nat /\ collected[t][u] <= Pending(u)
             /\ Pending(u)' = Pending(u) - collected[t][u]
  <2>1. Carried(u)' = Carried(u) /\ InValves(u)' = InValves(u) /\ queued'[u] = queued[u]
    BY <1>1, PlaceKept, Zenon
  <2>2. InValves(u) \in Nat /\ Carried(u) \in Nat /\ queued[u] \in Nat /\ Collected(u) \in Nat
    BY PlacesTyped, Zenon DEF PlacesNat
  <2>3. Collected(u)' \in Nat
    BY PlacesTyped, Zenon DEF PlacesNat
  <2>4. /\ \A s \in Tickers \ {t} : collected'[s][u] = collected[s][u]
        /\ collected'[t][u] = 0 /\ collected[t][u] \in Nat
    BY <1>1, <1>2
  <2>5. Collected(u)' = Collected(u) + (collected'[t][u] - collected[t][u])
    BY Zenon, <2>4, CollectedChange
  <2> QED
    BY <2>1, <2>2, <2>3, <2>4, <2>5 DEF Pending
<1>4. ASSUME NEW u \in UIDs
      PROVE  \/ credit'[u] = credit[u] - collected[t][u] /\ lost'[u] = lost[u]
             \/ credit'[u] = credit[u] /\ lost'[u] = lost[u] + collected[t][u]
  <2>1. collected[t][u] \in Nat /\ credit[u] \in Int /\ lost[u] \in Nat
    BY <1>2
  <2>2. CASE UploadFails(t)
    BY Zenon, <2>2 DEF UploadFails, dbVars
  <2>3. CASE UploadStatus(t)
    <3>1. /\ credit'[u] = credit[u] - Charged(t, u)
          /\ lost'[u] = lost[u] + collected[t][u] - Charged(t, u)
      BY Zenon, <2>3 DEF UploadStatus
    <3>2. Charged(t, u) = collected[t][u] \/ Charged(t, u) = 0
      BY Zenon DEF Charged
    <3> QED
      BY <2>1, <3>1, <3>2
  <2> QED
    BY Zenon, <2>2, <2>3
<1> QED
  BY <1>1, <1>3, <1>4, Zenon DEF Settling

(* Those are all the steps there are. *)
LEMMA StepKinds ==
  ASSUME IInv, IInv', [Next]_vars
  PROVE  \/ Moving
         \/ \E d \in Dispatchers : Traffic(d)
         \/ \E t \in Tickers : Settling(t)
<1>1. ASSUME UNCHANGED <<uid, user, valve, queued, carry, collected, used, credit, lost>> PROVE Moving
  BY <1>1, PlaceKept, StillMoves, Zenon
<1>2. ASSUME NEW t \in Threads, TerminateStep(t) PROVE Moving
  <2>1. CASE CloseAllSessions(t)
    BY <1>1, <2>1, Zenon DEF CloseAllSessions, inputVars, queueVars, usageVars, dbVars, tickVars
  <2> QED
    BY Zenon, <1>2, <2>1, TerminateNullifyMoves, UpdateUsageQueueForOneMoves, SwitchMoves DEF TerminateStep
<1>3. ASSUME NEW d \in Dispatchers, DispatcherStep(d) \/ ServeSession(d) \/ SessionEnds(d)
      PROVE  Moving
  <2>1. CASE GetSession(d) \/ FinishHandshake(d) \/ CloseSession(d) \/ ServeSession(d) \/ SessionEnds(d)
    BY <1>1, <2>1, Zenon DEF GetSession, FinishHandshake, CloseSession, ServeSession, SessionEnds,
                             inputVars, queueVars, usageVars, dbVars, tickVars
  <2>2. d \in Threads
    BY Zenon DEF Threads
  <2> QED
    BY <1>2, <1>3, <2>1, <2>2, GetUserMoves, Zenon DEF DispatcherStep
<1>4. ASSUME NEW t \in Tickers, TickerStep(t) \/ UploadFails(t)
      PROVE  Moving \/ Settling(t)
  <2>1. CASE TickStarts(t) \/ CommitUpdate(t) \/ CollectDone(t) \/ RespondDone(t)
    BY <1>1, <2>1, Zenon DEF TickStarts, CommitUpdate, CollectDone, RespondDone, inputVars, queueVars,
                             usageVars, dbVars, tickVars
  <2>2. t \in Threads
    BY Zenon DEF Threads
  <2>3. ASSUME NEW u \in UIDs, CollectStatus(t, u) \/ Respond(t, u) PROVE Moving
    BY <2>2, <2>3, CollectStatusMoves, SwitchMoves, Zenon
  <2>4. CASE UpdateUsageQueue(t)
    BY Zenon, <2>4, UpdateUsageQueueMoves
  <2>5. CASE UploadStatus(t) \/ UploadFails(t)
    BY Zenon, <2>5, UploadSettles
  <2> QED
    BY <1>2, <1>4, <2>1, <2>2, <2>3, <2>4, <2>5, Zenon DEF TickerStep
<1>5. ASSUME NEW u, NEW how, Revoke(u, how) PROVE Moving
  BY <1>1, <1>5, Zenon DEF Revoke, inputVars, queueVars, usageVars, tickVars
<1>6. CASE UNCHANGED vars
  BY <1>1, <1>6, Zenon DEF vars, inputVars, queueVars, usageVars, dbVars, tickVars
<1> QED
  BY <1>3, <1>4, <1>5, <1>6, Zenon DEF Next

(* The books of a new panel are balanced, and credit is never given. *)
Accounts == UsageConserved /\ \A u \in UIDs : credit[u] <= Credit

(* Nothing is anywhere in a new panel. *)
LEMMA InitPending ==
  ASSUME Init, NEW u \in UIDs
  PROVE  Pending(u) = 0
<1>1. IInv
  BY Zenon, InitIInv
<1>2. /\ \A o \in Dispatchers : ValveOf(u)[o] = 0
      /\ \A t \in Threads : CarryOf(u)[t] = 0
      /\ \A t \in Tickers : CollectedOf(u)[t] = 0
  BY Zenon DEF Init, ValveOf, CarryOf, CollectedOf
<1>3. IsFiniteSet(Threads)
  BY Zenon, FS_Union DEF Threads
<1>4. InValves(u) = 0 /\ Carried(u) = 0 /\ Collected(u) = 0
  BY <1>2, <1>3, SumZero, SumIs, Zenon DEF InValves, Carried, Collected
<1>5. queued[u] = 0
  BY Zenon DEF Init
<1> QED
  BY <1>4, <1>5 DEF Pending

(* The books of a new panel are balanced. *)
LEMMA InitAccounts == Init => Accounts
<1> SUFFICES ASSUME Init PROVE Accounts
  BY Zenon
<1>1. \A u \in UIDs : used[u] = 0 /\ lost[u] = 0 /\ credit[u] = Credit
  BY Zenon DEF Init
<1> QED
  BY <1>1, InitPending DEF Accounts, UsageConserved

(* They stay so. *)
LEMMA AccountsKept == IInv /\ IInv' /\ Accounts /\ [Next]_vars => Accounts'
<1> SUFFICES ASSUME IInv, IInv', Accounts, [Next]_vars PROVE Accounts'
  BY Zenon
<1>1. /\ used \in [UIDs -> 0 .. MaxUse] /\ lost \in [UIDs -> Nat] /\ credit \in [UIDs -> Int]
  BY Zenon DEF IInv, TypeOK
<1>2. \A u \in UIDs : Pending(u) \in Nat
  BY PlacesTyped DEF PlacesNat, Pending
<1>3. CASE Moving
  BY Zenon, <1>3 DEF Moving, Accounts, UsageConserved
<1>4. ASSUME NEW d \in Dispatchers, Traffic(d) PROVE Accounts'
  <2>1. /\ uid[d] \in UIDs \ Bypass /\ used' = [used EXCEPT ![uid[d]] = @ + 1]
        /\ UNCHANGED <<credit, lost>>
        /\ \A u \in UIDs : Pending(u)' = IF u = uid[d] THEN Pending(u) + 1 ELSE Pending(u)
    BY <1>4, TrafficUses, Zenon
  <2>2. \A u \in UIDs : used'[u] = IF u = uid[d] THEN used[u] + 1 ELSE used[u]
    BY Zenon, <1>1, <2>1
  <2>3. ASSUME NEW u \in UIDs \ Bypass
        PROVE  used'[u] = Pending(u)' + (Credit - credit'[u]) + lost'[u]
    <3>1. used[u] = Pending(u) + (Credit - credit[u]) + lost[u]
      BY Zenon DEF Accounts, UsageConserved
    <3>2. used[u] \in Int /\ Pending(u) \in Int /\ credit[u] \in Int /\ lost[u] \in Int
      BY <1>1, <1>2
    <3> QED
      BY <2>1, <2>2, <3>1, <3>2
  <2> QED
    BY Zenon, <2>1, <2>3 DEF Accounts, UsageConserved
<1>5. ASSUME NEW t \in Tickers, Settling(t) PROVE Accounts'
  <2>1. ASSUME NEW u \in UIDs
        PROVE  /\ u \notin Bypass => used'[u] = Pending(u)' + (Credit - credit'[u]) + lost'[u]
               /\ credit'[u] <= Credit
    <3>1. u \notin Bypass => used[u] = Pending(u) + (Credit - credit[u]) + lost[u]
      BY Zenon DEF Accounts, UsageConserved
    <3>2. used[u] \in Int /\ Pending(u) \in Int /\ credit[u] \in Int /\ lost[u] \in Int
          /\ credit[u] <= Credit
      BY <1>1, <1>2 DEF Accounts
    <3> QED
      BY <1>5, <3>1, <3>2 DEF Settling
  <2> QED
    BY Zenon, <2>1 DEF Accounts, UsageConserved
<1> QED
  BY Zenon, <1>3, <1>4, <1>5, StepKinds

(* The books are always balanced. *)
LEMMA Balanced == Spec => []Accounts
BY InitAccounts, AccountsKept, Invariance, PTL DEF Spec

(* No usage of a metered user is charged twice or forgotten: through every *)
(* race of uploads, terminations and sessions it is on its way, charged or *)
(* lost with an upload that failed or found the user deleted.              *)
THEOREM UsageNeverLost == Spec => []UsageConserved
BY Balanced, PTL DEF Accounts

(* Every step of the panel is a step of Metering, or none. *)
LEMMA StepMeters ==
  IInv /\ IInv' /\ Accounts /\ Accounts' /\ [Next]_vars => [Meter!Next]_(Meter!vars)
<1> SUFFICES ASSUME IInv, IInv', Accounts, Accounts', [Next]_vars
             PROVE  Meter!Next \/ UNCHANGED Meter!vars
  BY Zenon
<1>1. CASE Moving
  BY Zenon, <1>1 DEF Moving, Meter!vars
<1>2. ASSUME NEW d \in Dispatchers, Traffic(d) PROVE Meter!Next
  <2>1. /\ uid[d] \in UIDs \ Bypass /\ used' = [used EXCEPT ![uid[d]] = @ + 1]
        /\ UNCHANGED <<credit, lost>>
        /\ \A u \in UIDs : Pending(u)' = IF u = uid[d] THEN Pending(u) + 1 ELSE Pending(u)
    BY <1>2, TrafficUses, Zenon
  <2>2. used \in [UIDs -> 0 .. MaxUse]
    BY Zenon DEF IInv, TypeOK
  <2>3. [u \in UIDs \ Bypass |-> used'[u]]
          = [[u \in UIDs \ Bypass |-> used[u]] EXCEPT ![uid[d]] = @ + 1]
    BY Zenon, <2>1, <2>2
  <2>4. [u \in UIDs \ Bypass |-> Pending(u)']
          = [[u \in UIDs \ Bypass |-> Pending(u)] EXCEPT ![uid[d]] = @ + 1]
    BY Zenon, <2>1
  <2>5. PICK w \in UIDs \ Bypass : w = uid[d]
    BY Zenon, <2>1
  <2>6. Meter!Use(w)
    BY <2>1, <2>3, <2>4, <2>5, Zenon DEF Meter!Use
  <2> QED
    BY <2>6, Zenon DEF Meter!Next
<1>3. ASSUME NEW t \in Tickers, Settling(t) PROVE Meter!Next
  <2> DEFINE Users == UIDs \ Bypass
             ch == [u \in Users |-> Credit - credit'[u]]
             lo == [u \in Users |-> lost'[u]]
  <2>1. /\ credit \in [UIDs -> Int] /\ credit' \in [UIDs -> Int]
        /\ lost \in [UIDs -> Nat] /\ lost' \in [UIDs -> Nat] /\ used \in [UIDs -> 0 .. MaxUse]
    BY Zenon DEF IInv, TypeOK
  <2>2. used' = used
    BY <1>3, Zenon DEF Settling
  <2>3. ch \in [Users -> Nat] /\ lo \in [Users -> Nat]
    BY <2>1 DEF Accounts
  <2>4. ASSUME NEW u \in Users
        PROVE  /\ Credit - credit'[u] >= Credit - credit[u] /\ lost'[u] >= lost[u]
               /\ (Credit - credit'[u]) + lost'[u] <= used[u]
               /\ Pending(u)' = used[u] - ((Credit - credit'[u]) + lost'[u])
    <3>1. /\ credit[u] \in Int /\ credit'[u] \in Int /\ lost[u] \in Nat /\ lost'[u] \in Nat
          /\ used[u] \in Int /\ Credit \in Int
      BY <2>1
    <3>2. used[u] = Pending(u)' + (Credit - credit'[u]) + lost'[u]
      BY Zenon, <2>2 DEF Accounts, UsageConserved
    <3>3. Pending(u)' \in Nat
      BY PlacesTyped DEF PlacesNat, Pending
    <3>4. credit'[u] <= credit[u] /\ lost'[u] >= lost[u]
      BY <1>3, <3>1 DEF Settling
    <3> QED
      BY <3>1, <3>2, <3>3, <3>4
  <2>5. [u \in Users |-> Pending(u)'] = [u \in Users |-> [v \in Users |-> used[v]][u] - (ch[u] + lo[u])]
    BY Zenon, <2>4
  <2>6. Meter!Settle
    BY Zenon, <2>2, <2>3, <2>4, <2>5 DEF Meter!Settle
  <2> QED
    BY <2>6, Zenon DEF Meter!Next
<1> QED
  BY Zenon, <1>1, <1>2, <1>3, StepKinds

(* The panel implements Metering, for any number of users, dispatchers and *)
(* overlapping uploads.                                                    *)
THEOREM Refinement == Spec => ImplementsMetering
<1>1. Init => Meter!Init
  <2> SUFFICES ASSUME Init PROVE Meter!Init
    BY Zenon
  <2>1. \A u \in UIDs : used[u] = 0 /\ lost[u] = 0 /\ Credit - credit[u] = 0
    BY DEF Init
  <2> QED
    BY Zenon, <2>1, InitPending DEF Meter!Init
<1> QED
  BY <1>1, StepMeters, Balanced, Invariance, PTL DEF Spec, ImplementsMetering, Meter!Spec
=============================================================================
