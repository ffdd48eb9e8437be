-------------------------- MODULE TaskWrapper_proofs --------------------------
(***************************************************************************)
(* The registry loses no task, for any number of Start and StopTask calls  *)
(* and any number of addresses.                                            *)
(***************************************************************************)
EXTENDS TaskWrapper, FiniteSetTheorems, TLAPS

USE WrapperAssumption

Live == {"setup", "running", "finishing"}
Begun == {s \in Starters : spc[s] # "idle"}

(* The atomic counter: it has counted the calls that have drawn an id, and *)
(* no two of them have the same.  An id not given out yet has no task.     *)
IdsDistinct ==
  /\ nextTask = Cardinality(Begun)
  /\ \A s \in Begun : sid[s] \in 1 .. nextTask
  /\ \A s, t \in Begun : s # t => sid[s] # sid[t]
  /\ \A i \in Ids : i > nextTask => tpc[i] = "none"
  /\ \A s \in Starters : spc[s] = "insert" => tpc[sid[s]] = "none"

(* A task is held by the map or by one call, and only from its start to    *)
(* its end.                                                                *)
HeldOnce ==
  /\ \A i \in Ids : tpc[i] \in Live =>
       IF i \in tasks THEN Holders(i) = {} ELSE \E k \in Stoppers : Holders(i) = {k}
  /\ \A i \in Ids : tpc[i] = "none" => i \notin tasks /\ Holders(i) = {}
  /\ \A i \in Ids : tpc[i] = "ended" => i \notin tasks
  /\ \A i \in done : tpc[i] = "ended"
  /\ \A k \in Stoppers : kpc[k] # "idle" => kid[k] \in Ids

IInv == TypeOK /\ IdsDistinct /\ HeldOnce

(* The number of Start calls is a natural number. *)
LEMMA StartersCount == Cardinality(Starters) \in Nat
BY FS_CardinalityType

(* The invariant holds before any call. *)
LEMMA InitIInv == Init => IInv
<1> SUFFICES ASSUME Init PROVE IInv
  OBVIOUS
<1>1. TypeOK
  BY StartersCount DEF Init, TypeOK, Ids
<1>2. Begun = {} /\ Cardinality(Begun) = 0
  BY Zenon, FS_EmptySet DEF Init, Begun
<1>3. IdsDistinct
  BY <1>2 DEF Init, IdsDistinct, Ids
<1>4. HeldOnce
  BY DEF Init, HeldOnce, Live, Holders
<1> QED
  BY <1>1, <1>3, <1>4 DEF IInv

(* A call that has not drawn its id yet will get one within bounds.        *)
LEMMA IdWithinBounds ==
  ASSUME IInv, NEW s \in Starters, spc[s] = "idle"
  PROVE  /\ nextTask + 1 \in Ids
         /\ IsFiniteSet(Begun) /\ Cardinality(Begun \cup {s}) = nextTask + 1
<1>1. IsFiniteSet(Begun)
  BY FS_Subset DEF Begun
<1>2. Cardinality(Begun \cup {s}) = nextTask + 1
  BY Zenon, <1>1, FS_AddElement DEF IInv, IdsDistinct, Begun
<1>3. Cardinality(Begun \cup {s}) <= Cardinality(Starters)
  BY FS_Subset DEF Begun
<1> QED
  BY <1>1, <1>2, <1>3, StartersCount DEF IInv, TypeOK, Ids

(* addTask's increment. *)
LEMMA DrawIdKeeps ==
  ASSUME IInv, NEW s \in Starters, DrawId(s)
  PROVE  IInv'
<1>a. Begun' = Begun \cup {s}
  BY DEF DrawId, IInv, TypeOK, Begun
<1>b. nextTask \in Nat
  BY StartersCount DEF IInv, TypeOK
<1>c. spc[s] = "idle"
  BY DEF DrawId
<1>1. nextTask + 1 \in Ids /\ nextTask \in Nat /\ Cardinality(Begun') = nextTask + 1
  BY <1>a, <1>b, <1>c, IdWithinBounds
<1>2. TypeOK'
  BY <1>1, StartersCount DEF DrawId, IInv, TypeOK, regVars, taskVars, stopVars, Ids
<1>3. IdsDistinct'
  <2>1. s \notin Begun
    BY DEF DrawId, Begun
  <2>2. \A t \in Begun : sid'[t] = sid[t] /\ sid[t] \in 1 .. nextTask
    BY <2>1 DEF DrawId, IInv, TypeOK, IdsDistinct, Begun
  <2>3. sid'[s] = nextTask + 1 /\ nextTask' = nextTask + 1 /\ tpc' = tpc
    BY DEF DrawId, IInv, TypeOK, taskVars
  <2>4. /\ \A t \in Begun' : sid'[t] \in 1 .. nextTask'
        /\ \A t, u \in Begun' : t # u => sid'[t] # sid'[u]
    BY <1>a, <1>1, <2>2, <2>3 DEF IInv, IdsDistinct
  <2>5. \A i \in Ids : i > nextTask' => tpc'[i] = "none"
    BY <1>1, <2>3 DEF IInv, IdsDistinct, Ids
  <2>6. \A t \in Starters : spc'[t] = "insert" => tpc'[sid'[t]] = "none"
    BY <1>1, <2>3 DEF DrawId, IInv, TypeOK, IdsDistinct, Ids
  <2> QED
    BY <1>1, <2>3, <2>4, <2>5, <2>6 DEF IdsDistinct
<1>4. HeldOnce'
  BY DEF DrawId, IInv, HeldOnce, Holders, regVars, taskVars, stopVars
<1> QED
  BY <1>2, <1>3, <1>4 DEF IInv

(* addTask's entry, which is that of no other call. *)
LEMMA AddTaskKeeps ==
  ASSUME IInv, NEW s \in Starters, AddTask(s)
  PROVE  IInv'
<1>a. s \in Begun /\ Begun' = Begun
  BY DEF AddTask, IInv, TypeOK, Begun
<1>b. sid[s] \in 1 .. nextTask /\ tpc[sid[s]] = "none"
  BY <1>a DEF AddTask, IInv, IdsDistinct
<1>1. sid[s] \in Ids /\ sid[s] <= nextTask /\ nextTask \in Nat /\ tpc[sid[s]] = "none"
  BY <1>b, StartersCount DEF IInv, TypeOK, Ids
<1>2. TypeOK'
  BY <1>1 DEF AddTask, IInv, TypeOK, stopVars
<1>3. IdsDistinct'
  <2>1. \A t \in Starters : t # s /\ spc[t] = "insert" => sid[t] # sid[s]
    BY <1>a DEF IInv, IdsDistinct, Begun
  <2>2. \A t \in Starters : spc'[t] = "insert" => tpc'[sid'[t]] = "none"
    BY <1>1, <2>1 DEF AddTask, IInv, TypeOK, IdsDistinct
  <2>3. \A i \in Ids : i > nextTask' => tpc'[i] = "none"
    BY <1>1 DEF AddTask, IInv, TypeOK, IdsDistinct, Ids
  <2> QED
    BY <1>a, <2>2, <2>3 DEF AddTask, IInv, IdsDistinct
<1>4. HeldOnce'
  BY <1>1 DEF AddTask, IInv, TypeOK, HeldOnce, Live, Holders, stopVars
<1> QED
  BY <1>2, <1>3, <1>4 DEF IInv

(* A goroutine's steps up to finishTask. *)
LEMMA TaskRunsKeeps ==
  ASSUME IInv, NEW i \in Ids,
         Running(i) \/ ServerCancelled(i) \/ SetupFails(i) \/ \E a \in Addrs : Bind(i, a)
  PROVE  IInv'
<1>1. /\ UNCHANGED <<kind, regVars, startVars, stopVars>>
      /\ tpc[i] \in Live
      /\ \/ tpc' = tpc
         \/ \E label \in Live : tpc' = [tpc EXCEPT ![i] = label]
  BY DEF Running, ServerCancelled, SetupFails, Bind, Live
<1>2. listening' \in [Ids -> SUBSET Addrs]
  BY DEF Running, ServerCancelled, SetupFails, Bind, IInv, TypeOK
<1>3. TypeOK'
  BY <1>1, <1>2 DEF IInv, TypeOK, regVars, startVars, stopVars, Live
<1>4. IdsDistinct'
  <2>1. Begun' = Begun /\ nextTask' = nextTask /\ sid' = sid /\ spc' = spc
    BY <1>1 DEF Begun, startVars
  <2>2. \A j \in Ids : tpc[j] = "none" => tpc'[j] = "none"
    BY <1>1 DEF IInv, TypeOK, Live
  <2>3. \A t \in Begun : sid[t] \in Ids
    BY StartersCount DEF IInv, TypeOK, IdsDistinct, Ids
  <2>4. \A t \in Starters : spc[t] = "insert" => tpc'[sid[t]] = "none"
    BY <2>2, <2>3 DEF IInv, IdsDistinct, Begun
  <2> QED
    BY <2>1, <2>2, <2>4 DEF IInv, IdsDistinct
<1>5. HeldOnce'
  BY <1>1 DEF IInv, TypeOK, HeldOnce, Live, Holders, regVars, stopVars
<1> QED
  BY <1>3, <1>4, <1>5 DEF IInv

(* finishTask: only a task that has ended is let go of. *)
LEMMA FinishTaskKeeps ==
  ASSUME IInv, NEW i \in Ids, FinishTask(i)
  PROVE  IInv'
<1>1. TypeOK'
  BY DEF FinishTask, Received, IInv, TypeOK, startVars
<1>2. IdsDistinct'
  BY DEF FinishTask, IInv, TypeOK, IdsDistinct, Begun, startVars, Ids
<1>3. \A j \in Ids : tpc[j] # "ended" /\ j # i => Holders(j)' = Holders(j)
  BY DEF FinishTask, Received, IInv, TypeOK, HeldOnce, Holders
<1>4. HeldOnce'
  BY <1>3 DEF FinishTask, IInv, TypeOK, HeldOnce, Live
<1> QED
  BY <1>1, <1>2, <1>4 DEF IInv

(* StopTask's lookup, which takes the entry. *)
LEMMA StopTaskKeeps ==
  ASSUME IInv, NEW k \in Stoppers, NEW i \in Ids, StopTask(k, i)
  PROVE  IInv'
<1>1. TypeOK'
  BY DEF StopTask, IInv, TypeOK, taskVars, startVars
<1>2. IdsDistinct'
  BY DEF StopTask, IInv, TypeOK, IdsDistinct, Begun, taskVars, startVars
<1>3. /\ \A j \in Ids \ {i} : Holders(j)' = Holders(j)
      /\ i \in tasks => Holders(i)' = Holders(i) \cup {k}
      /\ i \notin tasks => Holders(i)' = Holders(i)
  BY DEF StopTask, IInv, TypeOK, Holders
<1>4. HeldOnce'
  BY <1>3 DEF StopTask, IInv, TypeOK, HeldOnce, Live, taskVars
<1> QED
  BY <1>1, <1>2, <1>4 DEF IInv

(* StopTask's cancel: it returns at once only from a task that has ended. *)
LEMMA CancelKeeps ==
  ASSUME IInv, NEW k \in Stoppers, Cancel(k)
  PROVE  IInv'
<1>1. kid[k] \in Ids
  BY DEF Cancel, IInv, HeldOnce
<1>2. TypeOK'
  BY <1>1 DEF Cancel, Received, IInv, TypeOK, taskVars, startVars
<1>3. IdsDistinct'
  BY DEF Cancel, IInv, IdsDistinct, Begun, taskVars, startVars
<1>4. \A j \in Ids : tpc[j] # "ended" => Holders(j)' = Holders(j)
  BY DEF Cancel, Received, IInv, TypeOK, HeldOnce, Holders
<1>5. HeldOnce'
  BY <1>4 DEF Cancel, IInv, HeldOnce, Live, taskVars
<1> QED
  BY <1>2, <1>3, <1>5 DEF IInv

(* Every step of a call or of a task keeps the invariant. *)
LEMMA StepKeeps ==
  ASSUME IInv, [Next]_vars
  PROVE  IInv'
<1>1. ASSUME NEW i \in Ids, TaskStep(i) \/ SetupFails(i) PROVE IInv'
  BY <1>1, TaskRunsKeeps, FinishTaskKeeps DEF TaskStep
<1>2. CASE UNCHANGED vars
  BY <1>2 DEF vars, regVars, taskVars, startVars, stopVars, IInv, TypeOK, IdsDistinct, Begun,
              HeldOnce, Holders
<1> QED
  BY <1>1, <1>2, DrawIdKeeps, AddTaskKeeps, StopTaskKeeps, CancelKeeps DEF Next

(* The registry's variables have their types: the counter stays within the *)
(* number of Start calls, and a task is only bound to its own addresses.   *)
THEOREM TypeCorrect == Spec => []TypeOK
<1>1. IInv /\ [Next]_vars => IInv'
  BY StepKeeps
<1>2. IInv => TypeOK
  BY DEF IInv
<1> QED
  BY InitIInv, <1>1, <1>2, PTL DEF Spec

(* StopTask's lookup and delete under one lock: until its goroutine ends a *)
(* task is in the map, or one call alone has taken it out to stop it.      *)
THEOREM NoTaskLost == Spec => []TaskNeverLost
<1>1. IInv /\ [Next]_vars => IInv'
  BY StepKeeps
<1>2. IInv => TaskNeverLost
  <2> SUFFICES ASSUME IInv, NEW i \in Ids, tpc[i] \in Live
               PROVE  Cardinality(Holders(i)) = IF i \in tasks THEN 0 ELSE 1
    BY DEF TaskNeverLost, Live
  <2>1. CASE i \in tasks
    BY <2>1, FS_EmptySet DEF IInv, HeldOnce
  <2>2. CASE i \notin tasks
    <3>1. PICK k \in Stoppers : Holders(i) = {k}
      BY Zenon, <2>2 DEF IInv, HeldOnce
    <3> QED
      BY Zenon, <2>2, <3>1, FS_Singleton
  <2> QED
    BY <2>1, <2>2
<1> QED
  BY InitIInv, <1>1, <1>2, PTL DEF Spec
=============================================================================
