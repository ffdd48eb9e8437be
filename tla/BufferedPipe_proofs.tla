------------------------- MODULE BufferedPipe_proofs -------------------------
(***************************************************************************)
(* The pipes lose no wakeup, for any number of readers and writers, any    *)
(* limit and any sizes, and a datagram pipe keeps its datagrams whole.      *)
(***************************************************************************)
EXTENDS BufferedPipe, TLAPS

USE PipeThreadsAssumption, PipeBoundsAssumption

(* Between the check and Wait nobody else can take the reason to sleep     *)
(* away, as the mutex is held; but the timer can fire.                     *)
MustSleep(t) ==
  /\ ~closed
  /\ t \in Readers => Empty
  /\ t \in Writers => ~Room

WillBeWoken == rDeadline = "none" \/ timer # "off" \/ missed

(* The bound on the payloads of each writer is kept by Lock. *)
WithinBudget ==
  \A w \in Writers : pc[w] \in {"check", "park", "asleep"} => written[w] < MaxWrites

Sleepers == {t \in Threads : pc[t] = "park" \/ t \in waiting}

IInv ==
  /\ TypeOK
  /\ MutexHeldInside
  /\ WithinBudget
  /\ \A t \in Sleepers : MustSleep(t)
  /\ \A r \in Readers \cap Sleepers : WillBeWoken

(* The invariant holds of a new pipe. *)
LEMMA InitIInv == Init => IInv
<1> SUFFICES ASSUME Init PROVE IInv
  OBVIOUS
<1>1. pLens \in Seq(Sizes)
  BY DEF Init
<1>a. /\ len \in Int /\ len <= Limit + MaxSize
      /\ written \in [Writers -> 0 .. MaxWrites] /\ sets \in 0 .. MaxDeadlines
  BY DEF Init
<1>b. /\ datagram \in BOOLEAN /\ closed \in BOOLEAN /\ missed \in BOOLEAN
      /\ L \in Threads \cup {Free} /\ waiting \subseteq Threads
      /\ pc \in [Threads -> {"idle", "check", "park", "asleep", "done"}]
      /\ rDeadline \in {"none", "future", "past"}
      /\ timer \in {"off", "pending", "stale", "due"}
  BY Zenon DEF Init
<1>2. TypeOK
  BY <1>1, <1>a, <1>b DEF TypeOK
<1>3. MutexHeldInside /\ Sleepers = {} /\ WithinBudget
  BY DEF Init, MutexHeldInside, Sleepers, Threads, WithinBudget
<1> QED
  BY <1>2, <1>3 DEF IInv

(* A step that changes what is waited for, under the mutex, and then wakes *)
(* everybody.                                                              *)
LEMMA BroadcastKeeps ==
  ASSUME IInv, TypeOK', MutexHeldInside', WithinBudget', Broadcast,
         \A t \in Threads : pc'[t] # "park"
  PROVE  IInv'
BY DEF IInv, Sleepers, Broadcast

(* A step that changes nothing that is waited for, and adds no sleeper. *)
LEMMA QuietKeeps ==
  ASSUME IInv, TypeOK', MutexHeldInside', WithinBudget',
         UNCHANGED <<waiting, bufVars, closed, timeVars>>,
         \A t \in Threads : pc'[t] = "park" => pc[t] = "park"
  PROVE  IInv'
BY DEF IInv, Sleepers, MustSleep, WillBeWoken, Empty, Room, bufVars, timeVars

(* While a goroutine is past its check no other is about to Wait. *)
LEMMA OneInside ==
  ASSUME IInv, NEW t \in Threads, pc[t] \in {"check", "park"}
  PROVE  L = t /\ \A u \in Threads : pc[u] \in {"check", "park"} => u = t
BY DEF IInv, MutexHeldInside

(* Lock, on entry and on the way out of Wait. *)
LEMMA LockKeeps ==
  ASSUME IInv, NEW t \in Threads, Lock(t)
  PROVE  IInv'
<1>1. TypeOK'
  BY DEF Lock, Goto, IInv, TypeOK, bufVars, timeVars
<1>2. MutexHeldInside'
  BY DEF Lock, Goto, IInv, TypeOK, MutexHeldInside, Threads
<1>3. \A u \in Threads : pc'[u] = "park" => pc[u] = "park"
  BY DEF Lock, Goto, IInv, TypeOK
<1>4. UNCHANGED <<waiting, bufVars, closed, timeVars>>
  BY DEF Lock
<1>5. WithinBudget'
  BY DEF Lock, Goto, IInv, TypeOK, WithinBudget, Threads, bufVars
<1> QED
  BY <1>1, <1>2, <1>3, <1>4, <1>5, QuietKeeps

(* What a Return does to the mutex and to the goroutines. *)
LEMMA ReturnFrees ==
  ASSUME IInv, NEW t \in Threads, pc[t] \in {"check", "park"},
         NEW label \in {"idle", "done", "asleep"}, Return(t, label)
  PROVE  /\ MutexHeldInside'
         /\ L' = Free
         /\ pc' \in [Threads -> {"idle", "check", "park", "asleep", "done"}]
         /\ \A u \in Threads : pc'[u] # "park"
BY OneInside DEF Return, Goto, IInv, TypeOK, MutexHeldInside, Threads

(* A Return is within the bound on payloads. *)
LEMMA ReturnWithinBudget ==
  ASSUME IInv, NEW t \in Threads, pc[t] \in {"check", "park"},
         NEW label \in {"idle", "done", "asleep"}, Return(t, label),
         \/ written' = written
         \/ label = "idle" /\ t \in Writers /\ written' = [written EXCEPT ![t] = @ + 1]
  PROVE  WithinBudget'
BY DEF Return, Goto, IInv, TypeOK, WithinBudget, Threads

(* Wait: the goroutine on the list still has its reason to sleep. *)
LEMMA ParkKeeps ==
  ASSUME IInv, NEW t \in Threads, Park(t)
  PROVE  IInv'
<1>1. /\ MutexHeldInside' /\ L' = Free
      /\ pc' \in [Threads -> {"idle", "check", "park", "asleep", "done"}]
      /\ \A u \in Threads : pc'[u] # "park"
  BY ReturnFrees DEF Park
<1>4. WithinBudget'
  BY ReturnWithinBudget DEF Park, bufVars
<1>2. TypeOK'
  BY <1>1 DEF Park, IInv, TypeOK, bufVars, timeVars
<1>3. Sleepers' = Sleepers
  BY <1>1, OneInside DEF Park, Sleepers
<1> QED
  BY <1>1, <1>2, <1>3, <1>4 DEF Park, IInv, MustSleep, WillBeWoken, Empty, Room, bufVars, timeVars

(* A Read or Write that returns and changes nothing. *)
LEMMA ReturnKeeps ==
  ASSUME IInv, NEW t \in Threads, pc[t] = "check", Return(t, "done"),
         UNCHANGED <<waiting, bufVars, closed, timeVars>>
  PROVE  IInv'
<1>1. /\ MutexHeldInside' /\ L' = Free
      /\ pc' \in [Threads -> {"idle", "check", "park", "asleep", "done"}]
      /\ \A u \in Threads : pc'[u] # "park"
  BY ReturnFrees
<1>2. TypeOK'
  BY <1>1 DEF IInv, TypeOK, bufVars, timeVars
<1>3. WithinBudget'
  BY ReturnWithinBudget DEF bufVars
<1> QED
  BY <1>1, <1>2, <1>3, QuietKeeps

(* A stream's Read that takes data. *)
LEMMA ReadDataKeeps ==
  ASSUME IInv, NEW r \in Readers, ReadData(r)
  PROVE  IInv'
<1> USE DEF Threads
<1>1. /\ MutexHeldInside' /\ L' = Free
      /\ pc' \in [Threads -> {"idle", "check", "park", "asleep", "done"}]
      /\ \A u \in Threads : pc'[u] # "park"
  BY Zenon, ReturnFrees DEF ReadData, CanRead
<1>2. len' \in Int /\ len' <= Limit + MaxSize
  BY DEF ReadData, IInv, TypeOK
<1>3. TypeOK'
  BY <1>1, <1>2 DEF ReadData, Broadcast, IInv, TypeOK, timeVars
<1>4. Broadcast
  BY DEF ReadData
<1>5. WithinBudget'
  BY ReturnWithinBudget DEF ReadData, CanRead
<1> QED
  BY <1>1, <1>3, <1>4, <1>5, BroadcastKeeps

(* A datagram pipe's Read, which takes a whole datagram or nothing. *)
LEMMA ReadDatagramKeeps ==
  ASSUME IInv, NEW r \in Readers, ReadDatagram(r)
  PROVE  IInv'
<1> USE DEF Threads
<1>1. /\ pc[r] = "check"
      /\ \/ Return(r, "done") /\ UNCHANGED <<waiting, bufVars, closed, timeVars>>
         \/ /\ pLens # <<>>
            /\ pLens' = Tail(pLens) /\ len' = len - Head(pLens)
            /\ Broadcast /\ Return(r, "idle")
            /\ UNCHANGED <<datagram, written, closed, timeVars>>
  BY DEF ReadDatagram, CanRead, Empty, bufVars
<1>2. CASE Return(r, "done") /\ UNCHANGED <<waiting, bufVars, closed, timeVars>>
  BY <1>1, <1>2, ReturnKeeps
<1>3. CASE /\ pLens # <<>>
           /\ pLens' = Tail(pLens) /\ len' = len - Head(pLens)
           /\ Broadcast /\ Return(r, "idle")
           /\ UNCHANGED <<datagram, written, closed, timeVars>>
  <2>1. /\ MutexHeldInside' /\ L' = Free
        /\ pc' \in [Threads -> {"idle", "check", "park", "asleep", "done"}]
        /\ \A u \in Threads : pc'[u] # "park"
    BY Zenon, <1>1, <1>3, ReturnFrees
  <2>2. pLens \in Seq(Sizes) /\ len \in Int /\ len <= Limit + MaxSize
    BY DEF IInv, TypeOK
  <2>3. Head(pLens) \in Sizes /\ pLens' \in Seq(Sizes)
    BY <1>3, <2>2
  <2>4. len' \in Int /\ len' <= Limit + MaxSize
    BY <1>3, <2>2, <2>3 DEF Sizes
  <2>5. TypeOK'
    BY <1>3, <2>1, <2>3, <2>4 DEF Broadcast, IInv, TypeOK, timeVars
  <2>6. WithinBudget'
    BY <1>1, <1>3, ReturnWithinBudget
  <2> QED
    BY <1>3, <2>1, <2>5, <2>6, BroadcastKeeps
<1> QED
  BY <1>1, <1>2, <1>3

(* A Write that puts data into the pipe. *)
LEMMA WriteDataKeeps ==
  ASSUME IInv, NEW w \in Writers, w \in Threads, WriteData(w)
  PROVE  IInv'
<1>1. /\ MutexHeldInside' /\ L' = Free
      /\ pc' \in [Threads -> {"idle", "check", "park", "asleep", "done"}]
      /\ \A u \in Threads : pc'[u] # "park"
  BY ReturnFrees DEF WriteData
<1>2. /\ len' \in Int /\ len' <= Limit + MaxSize
      /\ pLens' \in Seq(Sizes)
  <2>1. PICK n \in Sizes : /\ len' = len + n
                           /\ pLens' = IF datagram THEN Append(pLens, n) ELSE pLens
    BY DEF WriteData
  <2>2. len \in Int /\ len <= Limit /\ pLens \in Seq(Sizes)
    BY DEF WriteData, Room, IInv, TypeOK
  <2>3. n \in Int /\ n <= MaxSize
    BY DEF Sizes
  <2>4. pLens' \in Seq(Sizes)
    BY <2>1, <2>2
  <2> QED
    BY <2>1, <2>2, <2>3, <2>4
<1>3. written' \in [Writers -> 0 .. MaxWrites]
  BY DEF WriteData, IInv, TypeOK, WithinBudget
<1>4. TypeOK'
  BY <1>1, <1>2, <1>3 DEF WriteData, Broadcast, IInv, TypeOK, timeVars
<1>5. Broadcast
  BY DEF WriteData
<1>6. WithinBudget'
  BY Zenon, ReturnWithinBudget DEF WriteData
<1> QED
  BY <1>1, <1>4, <1>5, <1>6, BroadcastKeeps

(* A closing frame, in the datagram pipe. *)
LEMMA WriteClosingKeeps ==
  ASSUME IInv, NEW w \in Threads, WriteClosing(w)
  PROVE  IInv'
<1>1. /\ MutexHeldInside' /\ L' = Free
      /\ pc' \in [Threads -> {"idle", "check", "park", "asleep", "done"}]
      /\ \A u \in Threads : pc'[u] # "park"
  BY ReturnFrees DEF WriteClosing
<1>2. TypeOK'
  BY <1>1 DEF WriteClosing, Broadcast, IInv, TypeOK, bufVars, timeVars
<1>3. Broadcast
  BY DEF WriteClosing
<1>4. WithinBudget'
  BY ReturnWithinBudget DEF WriteClosing, bufVars
<1> QED
  BY <1>1, <1>2, <1>3, <1>4, BroadcastKeeps

(* A Read or Write that has to wait, and has seen why under the mutex. *)
LEMMA MustWaitKeeps ==
  ASSUME IInv, NEW t \in Threads,
         \/ t \in Readers /\ ReadMustWait(t)
         \/ t \in Writers /\ WriteMustWait(t)
  PROVE  IInv'
<1>1. /\ pc[t] = "check" /\ Goto(t, "park") /\ MustSleep(t)
      /\ UNCHANGED <<L, waiting, bufVars, closed, rDeadline, sets, missed>>
      /\ timer' = timer \/ timer' = "pending"
      /\ t \in Readers => (rDeadline # "none" => timer' = "pending")
  BY DEF ReadMustWait, WriteMustWait, MustSleep, timeVars
<1>2. TypeOK'
  BY <1>1 DEF Goto, IInv, TypeOK, bufVars
<1>3. MutexHeldInside'
  BY <1>1 DEF Goto, IInv, TypeOK, MutexHeldInside
<1>4. Sleepers' = Sleepers \cup {t}
  BY <1>1 DEF Goto, IInv, TypeOK, Sleepers
<1>5. \A u \in Sleepers' : MustSleep(u)'
  BY <1>1, <1>4 DEF IInv, MustSleep, Empty, Room, bufVars
<1>6. \A r \in Readers \cap Sleepers' : WillBeWoken'
  BY <1>1, <1>4 DEF IInv, WillBeWoken
<1>7. WithinBudget'
  BY <1>1 DEF Goto, IInv, TypeOK, WithinBudget, Threads, bufVars
<1> QED
  BY <1>2, <1>3, <1>5, <1>6, <1>7 DEF IInv

(* Close and SetReadDeadline take the mutex, so nobody is about to Wait. *)
LEMMA OutsideKeeps ==
  ASSUME IInv, Close \/ \E t \in {"none", "future", "past"} : SetReadDeadline(t)
  PROVE  IInv'
<1>1. L = Free /\ UNCHANGED <<L, pc, bufVars>> /\ Broadcast
  BY DEF Close, SetReadDeadline
<1>2. TypeOK'
  <2>1. CASE Close
    BY <2>1 DEF Close, Broadcast, IInv, TypeOK, bufVars, timeVars
  <2>2. ASSUME NEW t \in {"none", "future", "past"}, SetReadDeadline(t) PROVE TypeOK'
    <3>1. sets' \in 0 .. MaxDeadlines
      BY <2>2 DEF SetReadDeadline, IInv, TypeOK
    <3>2. timer' \in {"off", "pending", "stale", "due"}
      BY <2>2 DEF SetReadDeadline, IInv, TypeOK
    <3> QED
      BY <2>2, <3>1, <3>2 DEF SetReadDeadline, Broadcast, IInv, TypeOK, bufVars
  <2> QED
    BY <2>1, <2>2
<1>3. MutexHeldInside' /\ WithinBudget'
  BY <1>1 DEF IInv, MutexHeldInside, WithinBudget, bufVars
<1>4. \A t \in Threads : pc'[t] # "park"
  BY <1>1 DEF IInv, MutexHeldInside, Threads
<1> QED
  BY <1>1, <1>2, <1>3, <1>4, BroadcastKeeps

(* The deadline passes, and with it the instant a pending timer is set to. *)
LEMMA TimePassesKeeps ==
  ASSUME IInv, TimePasses
  PROVE  IInv'
<1>1. /\ UNCHANGED <<L, pc, waiting, bufVars, closed, sets, missed>>
      /\ rDeadline = "future" /\ rDeadline' = "past"
      /\ timer' \in {timer, "due"}
  BY DEF TimePasses
<1>2. TypeOK'
  BY <1>1 DEF IInv, TypeOK, bufVars
<1>3. Sleepers' = Sleepers /\ MutexHeldInside' /\ WithinBudget'
  BY <1>1 DEF IInv, Sleepers, MutexHeldInside, WithinBudget, bufVars
<1>4. \A t \in Sleepers' : MustSleep(t)'
  BY <1>1, <1>3 DEF IInv, MustSleep, Empty, Room, bufVars
<1>5. WillBeWoken => WillBeWoken'
  BY <1>1 DEF WillBeWoken
<1> QED
  BY <1>2, <1>3, <1>4, <1>5 DEF IInv

(* The timer wakes all but a goroutine that is about to Wait, and if that  *)
(* is a Read it is remembered.                                             *)
LEMMA TimerFiresKeeps ==
  ASSUME IInv, TimerFires
  PROVE  IInv'
<1>1. /\ UNCHANGED <<L, pc, bufVars, closed, rDeadline, sets>>
      /\ waiting' = {} /\ timer' = "off"
      /\ missed' \in BOOLEAN
      /\ (\E r \in Readers : pc[r] = "park") => missed'
  BY Zenon DEF TimerFires, Broadcast
<1>2. TypeOK'
  BY <1>1 DEF IInv, TypeOK, bufVars
<1>3. Sleepers' = {t \in Threads : pc[t] = "park"} /\ MutexHeldInside' /\ WithinBudget'
  BY <1>1 DEF IInv, Sleepers, MutexHeldInside, WithinBudget, bufVars
<1>4. \A t \in Sleepers' : MustSleep(t)'
  BY <1>1, <1>3 DEF IInv, Sleepers, MustSleep, Empty, Room, bufVars
<1>5. \A r \in Readers \cap Sleepers' : WillBeWoken'
  BY <1>1, <1>3 DEF WillBeWoken
<1> QED
  BY <1>2, <1>3, <1>4, <1>5 DEF IInv

(* Every step keeps the invariant. *)
LEMMA StepKeeps ==
  ASSUME IInv, [Next]_vars
  PROVE  IInv'
<1> Readers \subseteq Threads /\ Writers \subseteq Threads
  BY DEF Threads
<1>1. ASSUME NEW r \in Readers, ReaderStep(r) PROVE IInv'
  <2>1. CASE ReadEOF(r) \/ ReadTimeout(r)
    BY <2>1, ReturnKeeps DEF ReadEOF, ReadTimeout
  <2>2. CASE ReadMustWait(r)
    BY <2>2, MustWaitKeeps
  <2>3. CASE ReadData(r) \/ ReadDatagram(r)
    BY <2>3, ReadDataKeeps, ReadDatagramKeeps
  <2> QED
    BY <1>1, <2>1, <2>2, <2>3, LockKeeps, ParkKeeps DEF ReaderStep
<1>2. ASSUME NEW w \in Writers, WriterStep(w) PROVE IInv'
  <2>1. CASE WriteClosed(w)
    <3>1. /\ w \in Threads /\ pc[w] = "check" /\ Return(w, "done")
          /\ UNCHANGED <<waiting, bufVars, closed, timeVars>>
      BY <2>1 DEF WriteClosed
    <3> QED
      BY <3>1, ReturnKeeps
  <2>2. CASE WriteData(w)
    BY <2>2, WriteDataKeeps
  <2>3. CASE WriteMustWait(w)
    BY <2>3, MustWaitKeeps
  <2> QED
    BY <1>2, <2>1, <2>2, <2>3, LockKeeps, ParkKeeps, WriteClosingKeeps DEF WriterStep
<1>3. CASE UNCHANGED vars
  BY <1>3 DEF vars, bufVars, timeVars, IInv, TypeOK, MutexHeldInside, WithinBudget, Sleepers,
              MustSleep, WillBeWoken, Empty, Room
<1> QED
  BY <1>1, <1>2, <1>3, OutsideKeeps, TimePassesKeeps, TimerFiresKeeps DEF Next

(* The pipe's variables have their types; in particular a Write goes at    *)
(* most one payload past recvBufferSizeLimit.                              *)
THEOREM TypeCorrect == Spec => []TypeOK
<1>1. IInv /\ [Next]_vars => IInv'
  BY StepKeeps
<1>2. IInv => TypeOK
  BY DEF IInv
<1> QED
  BY InitIInv, <1>1, <1>2, PTL DEF Spec

(* rwCond.L is held exactly from Lock to the Unlock of Wait or of return.  *)
THEOREM MutexCorrect == Spec => []MutexHeldInside
<1>1. IInv /\ [Next]_vars => IInv'
  BY StepKeeps
<1>2. IInv => MutexHeldInside
  BY DEF IInv
<1> QED
  BY InitIInv, <1>1, <1>2, PTL DEF Spec

(* No wakeup is lost: every goroutine on the notify list still has its     *)
(* reason to sleep.                                                        *)
THEOREM NoLostWakeup == Spec => []SleepersMustSleep
<1>1. IInv /\ [Next]_vars => IInv'
  BY StepKeeps
<1>2. IInv => SleepersMustSleep
  BY DEF IInv, TypeOK, SleepersMustSleep, Sleepers, MustSleep
<1> QED
  BY InitIInv, <1>1, <1>2, PTL DEF Spec

(* A Read asleep past its deadline has a timer on its way, unless the      *)
(* timer has fired while a Read was between arming it and Wait.            *)
THEOREM DeadlineKept == Spec => []DeadlineWakes
<1>1. IInv /\ [Next]_vars => IInv'
  BY StepKeeps
<1>2. IInv => DeadlineWakes
  BY DEF IInv, TypeOK, DeadlineWakes, Sleepers, WillBeWoken
<1> QED
  BY InitIInv, <1>1, <1>2, PTL DEF Spec

(* The cuts of a datagram pipe, in order: a datagram that leaves shifts    *)
(* those behind it by its own length.                                      *)
Cut ==
  datagram => \E ends \in [0 .. Len(pLens) -> Int] :
                /\ CutsAt(ends)
                /\ \A i, j \in 0 .. Len(pLens) : i <= j => ends[i] <= ends[j]

(* A Write cuts the buffer once more, where the new datagram ends. *)
LEMMA AppendCuts ==
  ASSUME TypeOK, Cut, datagram, datagram' = datagram, NEW n \in Sizes,
         len' = len + n, pLens' = Append(pLens, n)
  PROVE  Cut'
<1>1. PICK ends \in [0 .. Len(pLens) -> Int] :
        /\ CutsAt(ends)
        /\ \A i, j \in 0 .. Len(pLens) : i <= j => ends[i] <= ends[j]
  BY DEF Cut
<1>2. /\ n \in Nat /\ len \in Int /\ pLens \in Seq(Sizes)
  BY DEF TypeOK, Sizes
<1>3. /\ Len(pLens) \in Nat /\ Len(pLens') = Len(pLens) + 1
      /\ pLens'[Len(pLens) + 1] = n
      /\ \A i \in 1 .. Len(pLens) : pLens'[i] = pLens[i]
  BY <1>2
<1>4. PICK new \in [0 .. Len(pLens') -> Int] :
        /\ \A i \in 0 .. Len(pLens) : new[i] = ends[i]
        /\ new[Len(pLens) + 1] = len + n
  <2> DEFINE f == [i \in 0 .. Len(pLens') |-> IF i <= Len(pLens) THEN ends[i] ELSE len + n]
  <2>1. /\ f \in [0 .. Len(pLens') -> Int]
        /\ \A i \in 0 .. Len(pLens) : f[i] = ends[i]
        /\ f[Len(pLens) + 1] = len + n
    BY <1>1, <1>2, <1>3
  <2> QED
    BY <2>1
<1>5. ends[Len(pLens)] = len /\ ends[0] = 0
  BY <1>1 DEF CutsAt
<1>6. CutsAt(new)'
  <2>1. \A i \in 1 .. Len(pLens') : new[i] = new[i - 1] + pLens'[i]
    <3> SUFFICES ASSUME NEW i \in 1 .. Len(pLens')
                 PROVE  new[i] = new[i - 1] + pLens'[i]
      OBVIOUS
    <3>1. CASE i <= Len(pLens)
      <4>1. ends[i] = ends[i - 1] + pLens[i]
        BY <1>1, <1>3, <3>1 DEF CutsAt
      <4>2. new[i] = ends[i] /\ new[i - 1] = ends[i - 1] /\ pLens'[i] = pLens[i]
        BY <1>3, <1>4, <3>1
      <4> QED
        BY Zenon, <4>1, <4>2
    <3>2. CASE i = Len(pLens) + 1
      BY <1>3, <1>4, <1>5, <3>2
    <3> QED
      BY <1>3, <3>1, <3>2
  <2> QED
    BY <1>3, <1>4, <1>5, <2>1 DEF CutsAt
<1>7. \A i, j \in 0 .. Len(pLens') : i <= j => new[i] <= new[j]
  <2> SUFFICES ASSUME NEW i \in 0 .. Len(pLens'), NEW j \in 0 .. Len(pLens'), i <= j
               PROVE  new[i] <= new[j]
    OBVIOUS
  <2>1. \A k \in 0 .. Len(pLens) : ends[k] \in Int /\ ends[k] <= len
    BY <1>1, <1>3, <1>5
  <2>2. CASE j <= Len(pLens)
    BY <1>1, <1>3, <1>4, <2>2
  <2>3. CASE j = Len(pLens) + 1
    <3>1. CASE i = j
      BY <1>2, <1>4, <2>3, <3>1
    <3>2. CASE i \in 0 .. Len(pLens)
      BY <1>2, <1>4, <2>1, <2>3, <3>2
    <3> QED
      BY <1>3, <2>3, <3>1, <3>2
  <2> QED
    BY <1>3, <2>2, <2>3
<1> QED
  BY <1>4, <1>6, <1>7 DEF Cut

(* A Read that takes a datagram moves the other cuts forward. *)
LEMMA TailCuts ==
  ASSUME TypeOK, Cut, datagram, datagram' = datagram, pLens # <<>>,
         len' = len - Head(pLens), pLens' = Tail(pLens)
  PROVE  Cut'
<1>1. PICK ends \in [0 .. Len(pLens) -> Int] :
        /\ CutsAt(ends)
        /\ \A i, j \in 0 .. Len(pLens) : i <= j => ends[i] <= ends[j]
  BY DEF Cut
<1>2. /\ len \in Int /\ pLens \in Seq(Sizes)
  BY DEF TypeOK
<1>3. /\ Len(pLens) \in Nat \ {0} /\ Len(pLens') = Len(pLens) - 1
      /\ Head(pLens) = pLens[1] /\ pLens[1] \in Int
      /\ \A i \in 1 .. Len(pLens') : pLens'[i] = pLens[i + 1]
  BY <1>2 DEF Sizes
<1>4. PICK new \in [0 .. Len(pLens') -> Int] :
        \A i \in 0 .. Len(pLens') : new[i] = ends[i + 1] - Head(pLens)
  <2> DEFINE f == [i \in 0 .. Len(pLens') |-> ends[i + 1] - Head(pLens)]
  <2>1. /\ f \in [0 .. Len(pLens') -> Int]
        /\ \A i \in 0 .. Len(pLens') : f[i] = ends[i + 1] - Head(pLens)
    BY <1>1, <1>2, <1>3
  <2> QED
    BY Zenon, <2>1
<1>5. /\ ends[Len(pLens)] = len /\ ends[0] = 0
      /\ ends[1] = Head(pLens)
  BY <1>1, <1>3 DEF CutsAt
<1>6. CutsAt(new)'
  <2>1. \A i \in 1 .. Len(pLens') : new[i] = new[i - 1] + pLens'[i]
    <3> SUFFICES ASSUME NEW i \in 1 .. Len(pLens')
                 PROVE  new[i] = new[i - 1] + pLens'[i]
      OBVIOUS
    <3>1. i + 1 \in 1 .. Len(pLens) /\ i \in 0 .. Len(pLens) /\ i - 1 \in 0 .. Len(pLens')
      BY <1>3
    <3>2. ends[i + 1] = ends[i] + pLens[i + 1]
      BY <1>1, <3>1 DEF CutsAt
    <3>3. pLens'[i] = pLens[i + 1] /\ pLens[i + 1] \in Int
      BY <1>2, <1>3, <3>1 DEF Sizes
    <3>4. new[i] = ends[i + 1] - Head(pLens) /\ new[i - 1] = ends[i] - Head(pLens)
      BY <1>3, <1>4, <3>1
    <3> QED
      BY <1>1, <1>3, <3>1, <3>2, <3>3, <3>4
  <2>2. new[0] = 0 /\ new[Len(pLens')] = len'
    BY <1>3, <1>4, <1>5
  <2> QED
    BY <2>1, <2>2 DEF CutsAt
<1>7. \A i, j \in 0 .. Len(pLens') : i <= j => new[i] <= new[j]
  <2> SUFFICES ASSUME NEW i \in 0 .. Len(pLens'), NEW j \in 0 .. Len(pLens'), i <= j
               PROVE  new[i] <= new[j]
    OBVIOUS
  <2>1. i + 1 \in 0 .. Len(pLens) /\ j + 1 \in 0 .. Len(pLens) /\ i + 1 <= j + 1
    BY <1>3
  <2>2. ends[i + 1] <= ends[j + 1] /\ ends[i + 1] \in Int /\ ends[j + 1] \in Int
    BY <1>1, <2>1
  <2> QED
    BY <1>3, <1>4, <2>2
<1> QED
  BY Zenon, <1>4, <1>6, <1>7 DEF Cut

(* No other step touches the buffer. *)
LEMMA StepCuts ==
  ASSUME TypeOK, Cut, [Next]_vars
  PROVE  Cut'
<1>1. ASSUME UNCHANGED <<datagram, len, pLens>> PROVE Cut'
  BY <1>1 DEF Cut, CutsAt
<1>2. ASSUME ~datagram, datagram' = datagram PROVE Cut'
  BY <1>2 DEF Cut
<1>3. ASSUME NEW r \in Readers, ReadDatagram(r) PROVE Cut'
  <2>1. \/ UNCHANGED <<datagram, len, pLens>>
        \/ /\ datagram /\ datagram' = datagram /\ pLens # <<>>
           /\ len' = len - Head(pLens) /\ pLens' = Tail(pLens)
    BY <1>3, Zenon DEF ReadDatagram, CanRead, Empty
  <2> QED
    BY <1>1, <2>1, TailCuts
<1>4. ASSUME NEW w \in Writers, WriteData(w) PROVE Cut'
  <2>1. CASE datagram
    <3>1. PICK n \in Sizes : len' = len + n /\ pLens' = Append(pLens, n)
      BY <1>4, <2>1, Zenon DEF WriteData
    <3>2. datagram' = datagram
      BY <1>4, Zenon DEF WriteData
    <3> QED
      BY <2>1, <3>1, <3>2, AppendCuts
  <2>2. CASE ~datagram
    BY <1>2, <1>4, <2>2, Zenon DEF WriteData
  <2> QED
    BY <2>1, <2>2, Zenon
<1>5. ASSUME NEW r \in Readers, ReadData(r) PROVE Cut'
  BY <1>2, <1>5, Zenon DEF ReadData
<1>6. ASSUME NEW r \in Readers, ReaderStep(r) PROVE Cut'
  <2>1. CASE Lock(r) \/ Park(r) \/ ReadEOF(r) \/ ReadTimeout(r) \/ ReadMustWait(r)
    BY <1>1, <2>1, Zenon DEF Lock, Park, ReadEOF, ReadTimeout, ReadMustWait, bufVars
  <2> QED
    BY <1>3, <1>5, <1>6, <2>1, Zenon DEF ReaderStep
<1>7. ASSUME NEW w \in Writers, WriterStep(w) PROVE Cut'
  <2>1. CASE Lock(w) \/ Park(w) \/ WriteClosed(w) \/ WriteClosing(w) \/ WriteMustWait(w)
    BY <1>1, <2>1, Zenon DEF Lock, Park, WriteClosed, WriteClosing, WriteMustWait, bufVars
  <2> QED
    BY <1>4, <1>7, <2>1, Zenon DEF WriterStep
<1>8. CASE Close \/ (\E t \in {"none", "future", "past"} : SetReadDeadline(t))
           \/ TimePasses \/ TimerFires \/ UNCHANGED vars
  BY <1>1, <1>8, Zenon DEF Close, SetReadDeadline, TimePasses, TimerFires, vars, bufVars
<1> QED
  BY <1>6, <1>7, <1>8, Zenon DEF Next

(* The lengths in pLens cut the buffer of a datagram pipe into datagrams,  *)
(* to the last byte, whatever goroutines write, read, or read with too     *)
(* short a target.                                                         *)
THEOREM DatagramsWhole == Spec => []BoundariesKept
<1>1. Init => Cut
  <2> SUFFICES ASSUME Init PROVE Cut
    OBVIOUS
  <2>1. pLens = <<>> /\ len = 0 /\ Len(pLens) = 0
    BY DEF Init
  <2> DEFINE none == [i \in 0 .. 0 |-> 0]
  <2>2. none \in [0 .. Len(pLens) -> Int] /\ none[0] = 0
    BY <2>1
  <2> HIDE DEF none
  <2>3. CutsAt(none) /\ \A i, j \in 0 .. Len(pLens) : i <= j => none[i] <= none[j]
    BY <2>1, <2>2 DEF CutsAt
  <2> QED
    BY <2>2, <2>3 DEF Cut
<1>2. TypeOK /\ Cut /\ [Next]_vars => Cut'
  BY StepCuts
<1>3. TypeOK /\ Cut => BoundariesKept
  <2> SUFFICES ASSUME TypeOK, Cut, datagram
               PROVE  \E ends \in [0 .. Len(pLens) -> 0 .. len] : CutsAt(ends)
    BY DEF BoundariesKept
  <2>1. PICK ends \in [0 .. Len(pLens) -> Int] :
          /\ CutsAt(ends)
          /\ \A i, j \in 0 .. Len(pLens) : i <= j => ends[i] <= ends[j]
    BY DEF Cut
  <2>2. Len(pLens) \in Nat /\ len \in Int
    BY DEF TypeOK
  <2>3. ends[0] = 0 /\ ends[Len(pLens)] = len
    BY <2>1 DEF CutsAt
  <2>4. \A i \in 0 .. Len(pLens) : ends[i] \in 0 .. len
    BY <2>1, <2>2, <2>3
  <2> QED
    BY <2>1, <2>4
<1> QED
  BY <1>1, <1>2, <1>3, TypeCorrect, PTL DEF Spec
=============================================================================
