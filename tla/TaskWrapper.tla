----------------------------- MODULE TaskWrapper -----------------------------
(***************************************************************************)
(* The task registry of ck-client-wrapper and ck-server-wrapper: the same  *)
(* code in both.  Start calls (StartCloakClient, StartCloakServer)         *)
(* register a task and spawn its goroutine; StopTask calls look a task up, *)
(* cancel it and wait for it; a task's goroutine ends with finishTask.     *)
(* The calls come from different threads of the host application.          *)
(*                                                                         *)
(* A client's goroutine is in RouteTCP or RouteUDP, which do not return    *)
(* and do not see the context; a server's waits for the context and then   *)
(* closes its listeners.  Responses are the pc of a call; the ports they   *)
(* are sent to are left out.                                               *)
(***************************************************************************)
EXTENDS Naturals, FiniteSets

CONSTANTS
  Starters,           \* calls that start a task
  Stoppers,           \* calls of StopTask
  Addrs,              \* bound: bind addresses of a server's configuration
  Kinds               \* a subset of {"client", "server"}

ASSUME WrapperAssumption ==
  IsFiniteSet(Starters) /\ IsFiniteSet(Addrs) /\ Kinds \subseteq {"client", "server"}

(* nextTask is incremented once by each Start call. *)
Ids == 1 .. Cardinality(Starters)

VARIABLES
  kind,               \* which wrapper this is
  nextTask,
  tasks,              \* ids in the map
  done, cancelled,    \* ids whose done channel is closed, whose context is over
  tpc,                \* the goroutine of each task
  listening,          \* addresses a task's listeners are bound to
  spc, sid,           \* Start calls and the id they drew
  kpc, kid            \* StopTask calls and the id they were given

regVars == <<tasks, done, cancelled>>
taskVars == <<tpc, listening>>
startVars == <<nextTask, spc, sid>>
stopVars == <<kpc, kid>>
vars == <<kind, regVars, taskVars, startVars, stopVars>>

TypeOK ==
  /\ kind \in Kinds
  /\ nextTask \in 0 .. Cardinality(Starters)
  /\ tasks \subseteq Ids /\ done \subseteq Ids /\ cancelled \subseteq Ids
  /\ tpc \in [Ids -> {"none", "setup", "running", "finishing", "ended"}]
  /\ listening \in [Ids -> SUBSET Addrs]
  /\ spc \in [Starters -> {"idle", "insert", "returned"}]
  /\ sid \in [Starters -> Ids \cup {0}]
  /\ kpc \in [Stoppers -> {"idle", "cancel", "wait", "notFound", "stopped"}]
  /\ kid \in [Stoppers -> Ids \cup {0}]

Init ==
  /\ kind \in Kinds
  /\ nextTask = 0
  /\ tasks = {} /\ done = {} /\ cancelled = {}
  /\ tpc = [i \in Ids |-> "none"]
  /\ listening = [i \in Ids |-> {}]
  /\ spc = [s \in Starters |-> "idle"] /\ sid = [s \in Starters |-> 0]
  /\ kpc = [k \in Stoppers |-> "idle"] /\ kid = [k \in Stoppers |-> 0]
-----------------------------------------------------------------------------
(* addTask: the atomic increment, then the entry, under tasksMu; the       *)
(* goroutine is spawned at once.                                           *)
DrawId(s) ==
  /\ spc[s] = "idle"
  /\ nextTask' = nextTask + 1
  /\ sid' = [sid EXCEPT ![s] = nextTask + 1]
  /\ spc' = [spc EXCEPT ![s] = "insert"]
  /\ UNCHANGED <<kind, regVars, taskVars, stopVars>>

AddTask(s) ==
  /\ spc[s] = "insert"
  /\ tasks' = tasks \cup {sid[s]}
  /\ tpc' = [tpc EXCEPT ![sid[s]] = "setup"]
  /\ spc' = [spc EXCEPT ![s] = "returned"]
  /\ UNCHANGED <<kind, done, cancelled, listening, nextTask, sid, stopVars>>
-----------------------------------------------------------------------------
(* The configuration is parsed and processed and the addresses are bound,  *)
(* one after the other: all of a server's, the only one of a client.       *)
Bound(i) == IF kind = "server" THEN listening[i] = Addrs ELSE listening[i] # {}

Bind(i, a) ==
  /\ tpc[i] = "setup"
  /\ ~Bound(i)
  /\ \A j \in Ids : a \notin listening[j]
  /\ listening' = [listening EXCEPT ![i] = @ \cup {a}]
  /\ UNCHANGED <<kind, regVars, tpc, startVars, stopVars>>

(* A bad configuration, or an address that cannot be bound: a response,    *)
(* and the deferred calls.  Listeners a server has bound before the one    *)
(* that failed stay open.                                                  *)
SetupFails(i) ==
  /\ tpc[i] = "setup"
  /\ ~Bound(i)
  /\ tpc' = [tpc EXCEPT ![i] = "finishing"]
  /\ UNCHANGED <<kind, regVars, listening, startVars, stopVars>>

Running(i) ==
  /\ tpc[i] = "setup"
  /\ Bound(i)
  /\ tpc' = [tpc EXCEPT ![i] = "running"]
  /\ UNCHANGED <<kind, regVars, listening, startVars, stopVars>>

(* A server sees that its context is over, and closes its listeners. *)
ServerCancelled_KeepsOne(i) ==  \* mutant: the first listener is left open
  /\ kind = "server"
  /\ tpc[i] = "running"
  /\ i \in cancelled
  /\ listening' = [listening EXCEPT ![i] = {CHOOSE a \in @ : TRUE}]
  /\ tpc' = [tpc EXCEPT ![i] = "finishing"]
  /\ UNCHANGED <<kind, regVars, startVars, stopVars>>

ServerCancelled(i) ==
  /\ kind = "server"
  /\ tpc[i] = "running"
  /\ i \in cancelled
  /\ listening' = [listening EXCEPT ![i] = {}]
  /\ tpc' = [tpc EXCEPT ![i] = "finishing"]
  /\ UNCHANGED <<kind, regVars, startVars, stopVars>>

(* Where a receive from the done channel leaves a call of StopTask. *)
Received(i, closed) == IF i \in closed THEN "stopped" ELSE "wait"

(* Closing the channel releases whoever waits on it. *)
FinishTask(i) ==
  /\ tpc[i] = "finishing"
  /\ done' = IF i \in tasks THEN done \cup {i} ELSE done
  /\ tasks' = tasks \ {i}
  /\ tpc' = [tpc EXCEPT ![i] = "ended"]
  /\ kpc' = [k \in Stoppers |-> IF kpc[k] = "wait" THEN Received(kid[k], done')
                                                  ELSE kpc[k]]
  /\ UNCHANGED <<kind, cancelled, listening, startVars, kid>>
-----------------------------------------------------------------------------
(* StopTask: the lookup deletes the entry. *)
StopTask_KeepsEntry(k, i) ==  \* mutant: the lookup does not delete
  /\ kpc[k] = "idle"
  /\ kid' = [kid EXCEPT ![k] = i]
  /\ kpc' = [kpc EXCEPT ![k] = IF i \in tasks THEN "cancel" ELSE "notFound"]
  /\ UNCHANGED <<kind, regVars, taskVars, startVars>>

StopTask(k, i) ==
  /\ kpc[k] = "idle"
  /\ kid' = [kid EXCEPT ![k] = i]
  /\ tasks' = tasks \ {i}
  /\ kpc' = [kpc EXCEPT ![k] = IF i \in tasks THEN "cancel" ELSE "notFound"]
  /\ UNCHANGED <<kind, done, cancelled, taskVars, startVars>>

(* The context is over, and the call receives from the done channel. *)
Cancel(k) ==
  /\ kpc[k] = "cancel"
  /\ cancelled' = cancelled \cup {kid[k]}
  /\ kpc' = [kpc EXCEPT ![k] = Received(kid[k], done)]
  /\ UNCHANGED <<kind, tasks, done, taskVars, startVars, kid>>
-----------------------------------------------------------------------------
TaskStep(i) ==
  \/ Running(i) \/ ServerCancelled(i) \/ FinishTask(i)
  \/ \E a \in Addrs : Bind(i, a)

Next ==
  \/ \E s \in Starters : DrawId(s) \/ AddTask(s)
  \/ \E i \in Ids : TaskStep(i) \/ SetupFails(i)
  \/ \E k \in Stoppers : Cancel(k) \/ \E i \in Ids : StopTask(k, i)

Spec == Init /\ [][Next]_vars

(* The goroutines of the tasks and of the calls are scheduled, and a setup *)
(* succeeds or fails.  Nothing makes the application call.                 *)
FairSpec ==
  /\ Spec
  /\ \A s \in Starters : WF_vars(AddTask(s))
  /\ \A i \in Ids : WF_vars(TaskStep(i) \/ SetupFails(i))
  /\ \A k \in Stoppers : WF_vars(Cancel(k))
-----------------------------------------------------------------------------
(* Until its goroutine ends, a task can be stopped or is being stopped: it *)
(* is in the map, or exactly one StopTask call has taken it out and no     *)
(* other call will find it.                                                *)
Holders(i) == {k \in Stoppers : kid[k] = i /\ kpc[k] \in {"cancel", "wait"}}

TaskNeverLost ==
  \A i \in Ids :
     tpc[i] \in {"setup", "running", "finishing"} =>
        Cardinality(Holders(i)) = IF i \in tasks THEN 0 ELSE 1

(* Cancelling a server that came up closes all its listeners, although the *)
(* StopTask call that did it does not see it.                              *)
StopFreesAddresses ==
  \A i \in Ids :
     (kind = "server" /\ i \in cancelled /\ Bound(i))
        ~> listening[i] = {}

(* "Stop a running task": StopTask answers once the task has ended. *)
StopTaskReturns == \A k \in Stoppers : kpc[k] = "wait" ~> kpc[k] = "stopped"
=============================================================================
