------------------------------ MODULE UserPanel ------------------------------
(***************************************************************************)
(* The server's bookkeeping of users: userPanel, ActiveUser and the local  *)
(* user manager, run by the goroutines that meet there:                    *)
(*   Dispatchers  one per accepted connection: dispatchConnection from the *)
(*                authenticated UID on, and serveSession when the session  *)
(*                is new;                                                  *)
(*   Tickers      the goroutines regularQueueUpload starts, one for each   *)
(*                uploadInterval.                                          *)
(* An ActiveUser and a session have no names of their own: each is called  *)
(* by the dispatcher that made it.                                         *)
(*                                                                         *)
(* usageUpdateQueueM and activeUsersM are variables because they are held  *)
(* while the other one is waited for.  sessionsM is held for one step      *)
(* only: Session.Close is taken to return (module Session).  Up and down   *)
(* usage are treated alike and are one number here.  A transaction of the  *)
(* database is one step.                                                   *)
(***************************************************************************)
EXTENDS Integers, FiniteSets, FiniteSetsExt

CONSTANTS
  Dispatchers, Tickers,
  UIDs,
  Bypass,             \* the UIDs in BypassUID
  SIDs,               \* session ids
  SessionsCap, Credit, \* of every user, in the database
  MaxUse,             \* bound: units of traffic of each user
  None

ASSUME PanelAssumption ==
  /\ IsFiniteSet(Dispatchers) /\ IsFiniteSet(Tickers)
  /\ Dispatchers \cap Tickers = {}
  /\ None \notin Dispatchers \cup Tickers
  /\ Bypass \subseteq UIDs
  /\ SessionsCap \in Nat /\ Credit \in Nat /\ MaxUse \in Nat

Threads == Dispatchers \cup Tickers

VARIABLES
  uid, sid,           \* what the connection of each dispatcher asks for
  activeUsers,        \* the panel's map
  activeUsersM,       \* holder of activeUsersM
  usageUpdateQueue,   \* UIDs in the queue, with the usage queued
  queued,
  usageUpdateQueueM,  \* holder of usageUpdateQueueM
  sessions,           \* of each ActiveUser: session id -> session
  open,               \* sessions that are not closed
  valve,              \* traffic of each ActiveUser since the last Nullify
  credit, status,     \* the database
  pc,
  user,               \* the ActiveUser a goroutine works with
  carry,              \* usage nullified by a goroutine and not queued yet
  statuses,           \* UIDs a ticker collected, and their usage
  collected,
  responses,          \* UIDs it was told to terminate
  used, lost          \* history: all traffic, and what was never charged

dbVars == <<credit, status>>
queueVars == <<usageUpdateQueue, queued, usageUpdateQueueM>>
panelVars == <<activeUsers, activeUsersM>>
sessionVars == <<sessions, open>>
tickVars == <<statuses, collected, responses>>
inputVars == <<uid, sid>>
usageVars == <<valve, used, lost>>
vars == <<inputVars, panelVars, queueVars, sessionVars, usageVars, dbVars, pc,
          user, carry, tickVars>>

Labels == {"idle", "getSession", "handshake", "join", "serving", "closeSession",
           "terminate", "queueOne", "closeAll", "delete", "lockQueue", "commit",
           "collect", "upload", "respond", "done"}

TypeOK ==
  /\ uid \in [Dispatchers -> UIDs] /\ sid \in [Dispatchers -> SIDs]
  /\ activeUsers \in [UIDs -> Dispatchers \cup {None}]
  /\ activeUsersM \in Tickers \cup {None}
  /\ usageUpdateQueue \subseteq UIDs
  /\ queued \in [UIDs -> Nat]
  /\ usageUpdateQueueM \in Tickers \cup {None}
  /\ sessions \in [Dispatchers -> [SIDs -> Dispatchers \cup {None}]]
  /\ open \subseteq Dispatchers
  /\ valve \in [Dispatchers -> Nat]
  /\ credit \in [UIDs -> Int]
  /\ status \in [UIDs -> {"valid", "expired", "deleted"}]
  /\ pc \in [Threads -> Labels]
  /\ user \in [Threads -> Dispatchers \cup {None}]
  /\ carry \in [Threads -> Nat]
  /\ statuses \in [Tickers -> SUBSET UIDs]
  /\ collected \in [Tickers -> [UIDs -> Nat]]
  /\ responses \in [Tickers -> SUBSET UIDs]
  /\ used \in [UIDs -> 0 .. MaxUse] /\ lost \in [UIDs -> Nat]

Init ==
  /\ uid \in [Dispatchers -> UIDs] /\ sid \in [Dispatchers -> SIDs]
  /\ activeUsers = [u \in UIDs |-> None]
  /\ activeUsersM = None
  /\ usageUpdateQueue = {}
  /\ queued = [u \in UIDs |-> 0]
  /\ usageUpdateQueueM = None
  /\ sessions = [o \in Dispatchers |-> [i \in SIDs |-> None]]
  /\ open = {}
  /\ valve = [o \in Dispatchers |-> 0]
  /\ credit = [u \in UIDs |-> Credit]
  /\ status = [u \in UIDs |-> "valid"]
  /\ pc = [t \in Threads |-> "idle"]
  /\ user = [t \in Threads |-> None]
  /\ carry = [t \in Threads |-> 0]
  /\ statuses = [t \in Tickers |-> {}]
  /\ collected = [t \in Tickers |-> [u \in UIDs |-> 0]]
  /\ responses = [t \in Tickers |-> {}]
  /\ used = [u \in UIDs |-> 0] /\ lost = [u \in UIDs |-> 0]

Goto(t, label) == pc' = [pc EXCEPT ![t] = label]
NumSession(o) == Cardinality({i \in SIDs : sessions[o][i] # None})
-----------------------------------------------------------------------------
(* localManager: the checks AuthenticateUser and AuthoriseNewSession share. *)
InGoodStanding(u) == status[u] = "valid" /\ credit[u] > 0

AuthoriseNewSession(u, o) == InGoodStanding(u) /\ NumSession(o) < SessionsCap

(* Time runs out, or the administrator deletes the user. *)
Revoke(u, how) ==
  /\ status[u] = "valid"
  /\ status' = [status EXCEPT ![u] = how]
  /\ UNCHANGED <<inputVars, panelVars, queueVars, sessionVars, usageVars, credit,
                 pc, user, carry, tickVars>>
-----------------------------------------------------------------------------
(* GetUser and GetBypassUser *)
GetUser(d) ==
  LET u == uid[d] IN
  /\ pc[d] = "idle"
  /\ activeUsersM = None
  /\ \/ /\ activeUsers[u] # None
        /\ user' = [user EXCEPT ![d] = activeUsers[u]]
        /\ Goto(d, "getSession")
        /\ UNCHANGED activeUsers
     \/ /\ activeUsers[u] = None
        /\ u \in Bypass \/ InGoodStanding(u)
        /\ user' = [user EXCEPT ![d] = d]
        /\ activeUsers' = [activeUsers EXCEPT ![u] = d]
        /\ Goto(d, "getSession")
     \/ /\ activeUsers[u] = None
        /\ ~(u \in Bypass \/ InGoodStanding(u))
        /\ Goto(d, "done")
        /\ UNCHANGED <<user, activeUsers>>
  /\ UNCHANGED <<inputVars, activeUsersM, queueVars, sessionVars, usageVars,
                 dbVars, carry, tickVars>>

GetSession(d) ==
  LET o == user[d] IN
  /\ pc[d] = "getSession"
  /\ \/ /\ sessions[o][sid[d]] # None
        /\ Goto(d, "join")
        /\ UNCHANGED sessionVars
     \/ /\ sessions[o][sid[d]] = None
        /\ uid[d] \in Bypass \/ AuthoriseNewSession(uid[d], o)
        /\ sessions' = [sessions EXCEPT ![o][sid[d]] = d]
        /\ open' = open \cup {d}
        /\ Goto(d, "handshake")
     \/ /\ sessions[o][sid[d]] = None
        /\ ~(uid[d] \in Bypass \/ AuthoriseNewSession(uid[d], o))
        /\ Goto(d, "closeSession")
        /\ UNCHANGED sessionVars
  /\ UNCHANGED <<inputVars, panelVars, queueVars, usageVars, dbVars, user, carry,
                 tickVars>>

(* The dispatcher that made a session ("handshake") goes on to serve it;   *)
(* one that found it ("join") adds its connection and is done.  When the   *)
(* handshake fails either is done, and a new session stays in the map.     *)
FinishHandshake(d) ==
  /\ \/ pc[d] = "handshake" /\ Goto(d, "serving")
     \/ pc[d] \in {"handshake", "join"} /\ Goto(d, "done")
  /\ UNCHANGED <<inputVars, panelVars, queueVars, sessionVars, usageVars, dbVars,
                 user, carry, tickVars>>

(* A session ends by itself: closed by the remote, broken or idle. *)
SessionEnds(s) ==
  /\ s \in open
  /\ open' = open \ {s}
  /\ UNCHANGED <<inputVars, panelVars, queueVars, sessions, usageVars, dbVars, pc,
                 user, carry, tickVars>>

(* AddRx and AddTx of the valve all sessions of an ActiveUser share. *)
Traffic(s) ==
  /\ s \in open
  /\ uid[s] \notin Bypass
  /\ used[uid[s]] < MaxUse
  /\ used' = [used EXCEPT ![uid[s]] = @ + 1]
  /\ valve' = [valve EXCEPT ![user[s]] = @ + 1]
  /\ UNCHANGED <<inputVars, panelVars, queueVars, sessionVars, lost, dbVars, pc,
                 user, carry, tickVars>>

(* serveSession: Accept finds the session broken, or the dial to the       *)
(* proxied service fails.                                                  *)
ServeSession(d) ==
  /\ pc[d] = "serving"
  /\ Goto(d, "closeSession")
  /\ UNCHANGED <<inputVars, panelVars, queueVars, sessionVars, usageVars, dbVars,
                 user, carry, tickVars>>

CloseSession(d) ==
  LET o == user[d] IN
  /\ pc[d] = "closeSession"
  /\ sessions' = [sessions EXCEPT ![o][sid[d]] = None]
  /\ open' = open \ {sessions[o][sid[d]]}
  /\ Goto(d, IF \A i \in SIDs : sessions'[o][i] = None THEN "terminate"
                                                       ELSE "done")
  /\ UNCHANGED <<inputVars, panelVars, queueVars, usageVars, dbVars, user, carry,
                 tickVars>>
-----------------------------------------------------------------------------
(* TerminateActiveUser, run by a dispatcher or a ticker on user[t]. *)
UIDOf(t) == uid[user[t]]

(* updateUsageQueueForOne nullifies the valve before it takes the lock. *)
TerminateNullify(t) ==
  /\ pc[t] = "terminate"
  /\ IF UIDOf(t) \in Bypass
       THEN Goto(t, "closeAll") /\ UNCHANGED <<carry, valve>>
       ELSE /\ carry' = [carry EXCEPT ![t] = valve[user[t]]]
            /\ valve' = [valve EXCEPT ![user[t]] = 0]
            /\ Goto(t, "queueOne")
  /\ UNCHANGED <<inputVars, panelVars, queueVars, sessionVars, used, lost, dbVars,
                 user, tickVars>>

(* Mutant: the queued usage is overwritten. *)
UpdateUsageQueueForOne_Overwrites(t) ==
  /\ pc[t] = "queueOne"
  /\ usageUpdateQueueM = None
  /\ usageUpdateQueue' = usageUpdateQueue \cup {UIDOf(t)}
  /\ queued' = [queued EXCEPT ![UIDOf(t)] = carry[t]]
  /\ carry' = [carry EXCEPT ![t] = 0]
  /\ Goto(t, "closeAll")
  /\ UNCHANGED <<inputVars, panelVars, usageUpdateQueueM, sessionVars, usageVars,
                 dbVars, user, tickVars>>

UpdateUsageQueueForOne(t) ==
  /\ pc[t] = "queueOne"
  /\ usageUpdateQueueM = None
  /\ usageUpdateQueue' = usageUpdateQueue \cup {UIDOf(t)}
  /\ queued' = [queued EXCEPT ![UIDOf(t)] = @ + carry[t]]
  /\ carry' = [carry EXCEPT ![t] = 0]
  /\ Goto(t, "closeAll")
  /\ UNCHANGED <<inputVars, panelVars, usageUpdateQueueM, sessionVars, usageVars,
                 dbVars, user, tickVars>>

CloseAllSessions(t) ==
  LET o == user[t] IN
  /\ pc[t] = "closeAll"
  /\ sessions' = [sessions EXCEPT ![o] = [i \in SIDs |-> None]]
  /\ open' = open \ {sessions[o][i] : i \in SIDs}
  /\ Goto(t, "delete")
  /\ UNCHANGED <<inputVars, panelVars, queueVars, usageVars, dbVars, user, carry,
                 tickVars>>

(* The entry is deleted by UID, whichever ActiveUser it holds by now. *)
DeleteActiveUser(t) ==
  /\ pc[t] = "delete"
  /\ activeUsersM = None
  /\ activeUsers' = [activeUsers EXCEPT ![UIDOf(t)] = None]
  /\ user' = IF t \in Tickers THEN [user EXCEPT ![t] = None] ELSE user
  /\ Goto(t, IF t \in Tickers THEN "respond" ELSE "done")
  /\ UNCHANGED <<inputVars, activeUsersM, queueVars, sessionVars, usageVars,
                 dbVars, carry, tickVars>>
-----------------------------------------------------------------------------
(* updateUsageQueue: activeUsersM first, then usageUpdateQueueM. *)
TickStarts(t) ==
  /\ pc[t] = "idle"
  /\ activeUsersM = None
  /\ activeUsersM' = t
  /\ Goto(t, "lockQueue")
  /\ UNCHANGED <<inputVars, activeUsers, queueVars, sessionVars, usageVars,
                 dbVars, user, carry, tickVars>>

(* Mutant: a user without usage is left out of the queue. *)
Metered_WithUsage == {u \in UIDs \ Bypass : /\ activeUsers[u] # None
                                            /\ valve[activeUsers[u]] > 0}

Metered == {u \in UIDs \ Bypass : activeUsers[u] # None}

UpdateUsageQueue(t) ==
  /\ pc[t] = "lockQueue"
  /\ usageUpdateQueueM = None
  /\ usageUpdateQueue' = usageUpdateQueue \cup Metered
  /\ queued' = [u \in UIDs |-> IF u \in Metered
                                 THEN queued[u] + valve[activeUsers[u]]
                                 ELSE queued[u]]
  /\ valve' = [o \in Dispatchers |->
                 IF \E u \in Metered : activeUsers[u] = o THEN 0 ELSE valve[o]]
  /\ activeUsersM' = None
  /\ Goto(t, "commit")
  /\ UNCHANGED <<inputVars, activeUsers, usageUpdateQueueM, sessionVars, used,
                 lost, dbVars, user, carry, tickVars>>

(* commitUpdate: usageUpdateQueueM first, then activeUsersM for each entry. *)
CommitUpdate(t) ==
  /\ pc[t] = "commit"
  /\ usageUpdateQueueM = None
  /\ usageUpdateQueueM' = t
  /\ Goto(t, "collect")
  /\ UNCHANGED <<inputVars, panelVars, usageUpdateQueue, queued, sessionVars,
                 usageVars, dbVars, user, carry, tickVars>>

(* Mutant: the amounts collected stay in the queue. *)
CollectStatus_KeepsQueue(t, u) ==
  /\ pc[t] = "collect"
  /\ u \in usageUpdateQueue
  /\ activeUsersM = None
  /\ usageUpdateQueue' = usageUpdateQueue \ {u}
  /\ statuses' = [statuses EXCEPT ![t] = @ \cup {u}]
  /\ collected' = [collected EXCEPT ![t][u] = queued[u]]
  /\ UNCHANGED <<inputVars, panelVars, usageUpdateQueueM, queued, sessionVars,
                 usageVars, dbVars, pc, user, carry, responses>>

CollectStatus(t, u) ==
  /\ pc[t] = "collect"
  /\ u \in usageUpdateQueue
  /\ activeUsersM = None
  /\ usageUpdateQueue' = usageUpdateQueue \ {u}
  /\ queued' = [queued EXCEPT ![u] = 0]
  /\ statuses' = [statuses EXCEPT ![t] = @ \cup {u}]
  /\ collected' = [collected EXCEPT ![t][u] = queued[u]]
  /\ UNCHANGED <<inputVars, panelVars, usageUpdateQueueM, sessionVars, usageVars,
                 dbVars, pc, user, carry, responses>>

(* Mutant: the early return keeps usageUpdateQueueM. *)
CollectDone_KeepsLock(t) ==
  /\ pc[t] = "collect"
  /\ usageUpdateQueue = {}
  /\ usageUpdateQueueM' = IF statuses[t] = {} THEN t ELSE None
  /\ Goto(t, IF statuses[t] = {} THEN "idle" ELSE "upload")
  /\ UNCHANGED <<inputVars, panelVars, usageUpdateQueue, queued, sessionVars,
                 usageVars, dbVars, user, carry, tickVars>>

CollectDone(t) ==
  /\ pc[t] = "collect"
  /\ usageUpdateQueue = {}
  /\ usageUpdateQueueM' = None
  /\ Goto(t, IF statuses[t] = {} THEN "idle" ELSE "upload")
  /\ UNCHANGED <<inputVars, panelVars, usageUpdateQueue, queued, sessionVars,
                 usageVars, dbVars, user, carry, tickVars>>

(* UploadStatus charges every user and asks for the end of those who are   *)
(* gone, expired or out of credit.                                         *)
Charged(t, u) == IF u \in statuses[t] /\ status[u] # "deleted"
                   THEN collected[t][u] ELSE 0

UploadStatus(t) ==
  /\ pc[t] = "upload"
  /\ credit' = [u \in UIDs |-> credit[u] - Charged(t, u)]
  /\ lost' = [u \in UIDs |-> lost[u] + collected[t][u] - Charged(t, u)]
  /\ responses' = [responses EXCEPT ![t] =
                     {u \in statuses[t] : status[u] # "valid" \/ credit'[u] <= 0}]
  /\ statuses' = [statuses EXCEPT ![t] = {}]
  /\ collected' = [collected EXCEPT ![t] = [u \in UIDs |-> 0]]
  /\ Goto(t, "respond")
  /\ UNCHANGED <<inputVars, panelVars, queueVars, sessionVars, valve, used, status,
                 user, carry>>

(* The transaction fails: the usage it was to charge is forgotten. *)
UploadFails(t) ==
  /\ pc[t] = "upload"
  /\ lost' = [u \in UIDs |-> lost[u] + collected[t][u]]
  /\ statuses' = [statuses EXCEPT ![t] = {}]
  /\ collected' = [collected EXCEPT ![t] = [u \in UIDs |-> 0]]
  /\ Goto(t, "idle")
  /\ UNCHANGED <<inputVars, panelVars, queueVars, sessionVars, valve, used, dbVars,
                 user, carry, responses>>

Respond(t, u) ==
  /\ pc[t] = "respond"
  /\ u \in responses[t]
  /\ activeUsersM = None
  /\ responses' = [responses EXCEPT ![t] = @ \ {u}]
  /\ user' = [user EXCEPT ![t] = activeUsers[u]]
  /\ Goto(t, IF activeUsers[u] = None THEN "respond" ELSE "terminate")
  /\ UNCHANGED <<inputVars, panelVars, queueVars, sessionVars, usageVars, dbVars,
                 carry, statuses, collected>>

RespondDone(t) ==
  /\ pc[t] = "respond"
  /\ responses[t] = {}
  /\ Goto(t, "idle")
  /\ UNCHANGED <<inputVars, panelVars, queueVars, sessionVars, usageVars, dbVars,
                 user, carry, tickVars>>
-----------------------------------------------------------------------------
TerminateStep(t) ==
  \/ TerminateNullify(t) \/ UpdateUsageQueueForOne(t)
  \/ CloseAllSessions(t) \/ DeleteActiveUser(t)

DispatcherStep(d) ==
  \/ GetUser(d) \/ GetSession(d) \/ FinishHandshake(d) \/ CloseSession(d)
  \/ TerminateStep(d)

TickerStep(t) ==
  \/ TickStarts(t) \/ UpdateUsageQueue(t) \/ CommitUpdate(t)
  \/ \E u \in UIDs : CollectStatus(t, u) \/ Respond(t, u)
  \/ CollectDone(t) \/ UploadStatus(t) \/ RespondDone(t)
  \/ TerminateStep(t)

Next ==
  \/ \E d \in Dispatchers :
        DispatcherStep(d) \/ ServeSession(d) \/ SessionEnds(d) \/ Traffic(d)
  \/ \E t \in Tickers : TickerStep(t) \/ UploadFails(t)
  \/ \E u \in UIDs \ Bypass, how \in {"expired", "deleted"} : Revoke(u, how)

Spec == Init /\ [][Next]_vars

(* Goroutines are scheduled and mutexes granted; a serving dispatcher      *)
(* notices that its session is closed; the next tick comes, and uploads do *)
(* not fail for ever.  Nothing makes a session end, or traffic flow.       *)
FairSpec ==
  /\ Spec
  /\ \A d \in Dispatchers :
       /\ WF_vars(DispatcherStep(d))
       /\ WF_vars(d \notin open /\ ServeSession(d))
  /\ \A t \in Tickers : SF_vars(TickerStep(t)) /\ SF_vars(UploadStatus(t))
-----------------------------------------------------------------------------
(* Where the traffic of a user is until it is uploaded: in the valves of   *)
(* its ActiveUsers, in the hands of a goroutine that nullified one, in the *)
(* queue, and in the statuses that tickers collected.                      *)
ValveOf(u) == [o \in Dispatchers |-> IF uid[o] = u THEN valve[o] ELSE 0]
CarryOf(u) == [t \in Threads |-> IF user[t] # None /\ UIDOf(t) = u THEN carry[t] ELSE 0]
CollectedOf(u) == [t \in Tickers |-> collected[t][u]]

InValves(u) == SumFunctionOnSet(ValveOf(u), Dispatchers)
Carried(u) == SumFunctionOnSet(CarryOf(u), Threads)
Collected(u) == SumFunctionOnSet(CollectedOf(u), Tickers)
Pending(u) == InValves(u) + Carried(u) + queued[u] + Collected(u)

(* No traffic of a metered user is charged twice or forgotten: at every    *)
(* moment all of it is on its way to an upload or taken from the credit.   *)
(* The one leak is an upload that fails or finds the user deleted (lost).  *)
UsageConserved ==
  \A u \in UIDs \ Bypass :
     used[u] = Pending(u) + (Credit - credit[u]) + lost[u]

(* The panel meters as Metering promises: a step of any goroutine that     *)
(* moves usage from one place to the next settles nothing, an upload       *)
(* settles only what is pending, and credit once taken is never given      *)
(* back.                                                                   *)
Meter == INSTANCE Metering WITH
  Users <- UIDs \ Bypass,
  used <- [u \in UIDs \ Bypass |-> used[u]],
  pending <- [u \in UIDs \ Bypass |-> Pending(u)],
  charged <- [u \in UIDs \ Bypass |-> Credit - credit[u]],
  lost <- [u \in UIDs \ Bypass |-> lost[u]]
ImplementsMetering == Meter!Spec

(* A user the panel knows and the database refuses loses its sessions: the *)
(* next tick uploads its status even when it has no usage, is told to      *)
(* terminate it and closes every session of that ActiveUser.  That needs   *)
(* the entry to stay until then, so it is promised only when no goroutine  *)
(* is about to delete it: none past closeAllSessions, and none still       *)
(* working with an earlier ActiveUser of the UID.                          *)
Refused(u) == u \notin Bypass /\ ~InGoodStanding(u)
EntryStays(o) ==
  \A t \in Threads :
     user[t] # None /\ UIDOf(t) = uid[o] /\ pc[t] # "done"
        => user[t] = o /\ pc[t] # "delete"

RefusedUserTerminated ==
  \A o \in Dispatchers :
     (activeUsers[uid[o]] = o /\ Refused(uid[o]) /\ EntryStays(o))
        ~> {s \in open : user[s] = o} = {}

(* A tick that took usage from the valves commits it: updateUsageQueue and *)
(* commitUpdate take the two mutexes in opposite orders, which is harmless *)
(* as long as ticks do not overlap.                                        *)
TickReturns ==
  \A t \in Tickers : pc[t] = "lockQueue" ~> pc[t] = "idle"
=============================================================================
