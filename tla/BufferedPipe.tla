---------------------------- MODULE BufferedPipe ----------------------------
(***************************************************************************)
(* streamBufferedPipe and datagramBufferedPipe at the grain of their       *)
(* condition variable.  Read and Write wait on one sync.Cond; Wait first   *)
(* adds the goroutine to the notify list, then drops the mutex, and a      *)
(* Broadcast wakes exactly the goroutines on the list.  A read deadline is *)
(* enforced by a timer whose function is Broadcast itself, run without the *)
(* mutex.                                                                  *)
(*                                                                         *)
(* The payload is only counted: what matters is who sleeps, who is woken,  *)
(* and whether the reason to sleep still holds.  The datagram pipe also    *)
(* keeps the length of each datagram, closes on a closing frame, and       *)
(* refuses a Read whose target is too short.                               *)
(***************************************************************************)
EXTENDS Integers, Sequences

CONSTANTS
  Readers, Writers,   \* goroutines calling Read and Write
  Free,               \* nobody holds rwCond.L
  Limit,              \* recvBufferSizeLimit
  MaxSize,            \* bound: length of a payload and of a target
  MaxWrites,          \* bound: payloads written by each writer
  MaxDeadlines        \* bound: calls of SetReadDeadline

ASSUME PipeThreadsAssumption ==
  /\ Readers \cap Writers = {}
  /\ Free \notin Readers \cup Writers
ASSUME PipeBoundsAssumption ==
  /\ Limit \in Nat
  /\ MaxSize \in Nat \ {0}
  /\ MaxWrites \in Nat
  /\ MaxDeadlines \in Nat

VARIABLES
  datagram,           \* which of the two pipes this is
  L,                  \* holder of rwCond.L
  pc,                 \* where each goroutine is
  waiting,            \* the notify list of rwCond
  len,                \* buf.Len()
  pLens,              \* the lengths of the datagrams in buf
  closed,
  written,            \* payloads written by each writer so far
  rDeadline,          \* "none", "future" or "past"
  timer,              \* timeoutTimer: "off", "pending" for rDeadline, "stale"
                      \* (pending for an earlier one), or "due"
  sets,               \* calls of SetReadDeadline so far
  missed              \* history: the timer fired while a Read was about to Wait

bufVars == <<datagram, len, pLens, written>>
timeVars == <<rDeadline, timer, sets, missed>>
vars == <<L, pc, waiting, bufVars, closed, timeVars>>

Threads == Readers \cup Writers
Sizes == 1 .. MaxSize

TypeOK ==
  /\ datagram \in BOOLEAN
  /\ L \in Threads \cup {Free}
  /\ pc \in [Threads -> {"idle", "check", "park", "asleep", "done"}]
  /\ waiting \subseteq Threads
  /\ len \in Int /\ len <= Limit + MaxSize
  /\ pLens \in Seq(Sizes)
  /\ closed \in BOOLEAN
  /\ written \in [Writers -> 0 .. MaxWrites]
  /\ rDeadline \in {"none", "future", "past"}
  /\ timer \in {"off", "pending", "stale", "due"}
  /\ sets \in 0 .. MaxDeadlines
  /\ missed \in BOOLEAN

Init ==
  /\ datagram \in BOOLEAN
  /\ L = Free
  /\ pc = [t \in Threads |-> "idle"]
  /\ waiting = {}
  /\ len = 0 /\ pLens = <<>>
  /\ closed = FALSE
  /\ written = [w \in Writers |-> 0]
  /\ rDeadline = "none" /\ timer = "off" /\ sets = 0 /\ missed = FALSE

Goto(t, label) == pc' = [pc EXCEPT ![t] = label]

(* rwCond.Broadcast() *)
Broadcast == waiting' = {}

(* Mutant: no Unlock is deferred. *)
Return_KeepsLock(t, label) == Goto(t, label) /\ UNCHANGED L

(* The method returns and its deferred Unlock runs. *)
Return(t, label) == Goto(t, label) /\ L' = Free
-----------------------------------------------------------------------------
(* A goroutine enters the method, or is on its way out of Wait. *)
Lock(t) ==
  /\ L = Free
  /\ \/ pc[t] = "idle" /\ (t \in Writers => written[t] < MaxWrites)
     \/ pc[t] = "asleep" /\ t \notin waiting
  /\ L' = t
  /\ Goto(t, "check")
  /\ UNCHANGED <<waiting, bufVars, closed, timeVars>>

(* Wait: onto the notify list, then the mutex is dropped. *)
Park(t) ==
  /\ pc[t] = "park"
  /\ waiting' = waiting \cup {t}
  /\ Return(t, "asleep")
  /\ UNCHANGED <<bufVars, closed, timeVars>>

Empty == IF datagram THEN pLens = <<>> ELSE len = 0

ReadEOF(r) ==
  /\ pc[r] = "check"
  /\ closed /\ Empty
  /\ Return(r, "done")
  /\ UNCHANGED <<waiting, bufVars, closed, timeVars>>

ReadTimeout(r) ==
  /\ pc[r] = "check"
  /\ ~(closed /\ Empty)
  /\ rDeadline = "past"
  /\ Return(r, "done")
  /\ UNCHANGED <<waiting, bufVars, closed, timeVars>>

CanRead(r) == pc[r] = "check" /\ rDeadline # "past" /\ ~Empty

(* Mutant: a Read wakes nobody. *)
ReadData_NoBroadcast(r) ==
  /\ CanRead(r)
  /\ ~datagram
  /\ \E n \in 1 .. len : len' = len - n
  /\ Return(r, "idle")
  /\ UNCHANGED <<waiting, datagram, pLens, written, closed, timeVars>>

ReadData(r) ==
  /\ CanRead(r)
  /\ ~datagram
  /\ \E n \in 1 .. len : len' = len - n
  /\ Broadcast
  /\ Return(r, "idle")
  /\ UNCHANGED <<datagram, pLens, written, closed, timeVars>>

(* Mutant: the length is taken off before the target is looked at. *)
ReadDatagram_PopsFirst(r) ==
  /\ CanRead(r)
  /\ datagram
  /\ \E target \in Sizes :
       /\ pLens' = Tail(pLens)
       /\ len' = IF target < Head(pLens) THEN len ELSE len - Head(pLens)
       /\ Return(r, IF target < Head(pLens) THEN "done" ELSE "idle")
       /\ Broadcast
  /\ UNCHANGED <<datagram, written, closed, timeVars>>

(* A datagram leaves whole, or stays: io.ErrShortBuffer takes nothing and  *)
(* wakes nobody, and ends the loop of the caller.                          *)
ReadDatagram(r) ==
  /\ CanRead(r)
  /\ datagram
  /\ \E target \in Sizes :
       \/ /\ target < Head(pLens)
          /\ Return(r, "done")
          /\ UNCHANGED <<waiting, len, pLens>>
       \/ /\ target >= Head(pLens)
          /\ pLens' = Tail(pLens)
          /\ len' = len - Head(pLens)
          /\ Broadcast
          /\ Return(r, "idle")
  /\ UNCHANGED <<datagram, written, closed, timeVars>>

(* Nothing to read.  With a deadline, broadcastAfter replaces the timer;   *)
(* a deadline that passes at this point gives a timer that is due at once. *)
ReadMustWait(r) ==
  /\ pc[r] = "check"
  /\ rDeadline # "past"
  /\ Empty /\ ~closed
  /\ timer' = IF rDeadline = "none" THEN timer ELSE "pending"
  /\ Goto(r, "park")
  /\ UNCHANGED <<L, waiting, bufVars, closed, rDeadline, sets, missed>>

WriteClosed(w) ==
  /\ pc[w] = "check"
  /\ closed
  /\ Return(w, "done")
  /\ UNCHANGED <<waiting, bufVars, closed, timeVars>>

Room == len <= Limit

WriteData(w) ==
  /\ pc[w] = "check"
  /\ ~closed /\ Room
  /\ \E n \in Sizes : /\ len' = len + n
                      /\ pLens' = IF datagram THEN Append(pLens, n) ELSE pLens
  /\ written' = [written EXCEPT ![w] = @ + 1]
  /\ Broadcast
  /\ Return(w, "idle")
  /\ UNCHANGED <<datagram, closed, timeVars>>

(* A closing frame too waits for room in the datagram pipe. *)
WriteClosing(w) ==
  /\ datagram
  /\ pc[w] = "check"
  /\ ~closed /\ Room
  /\ closed' = TRUE
  /\ Broadcast
  /\ Return(w, "done")
  /\ UNCHANGED <<bufVars, timeVars>>

WriteMustWait(w) ==
  /\ pc[w] = "check"
  /\ ~closed /\ ~Room
  /\ Goto(w, "park")
  /\ UNCHANGED <<L, waiting, bufVars, closed, timeVars>>
-----------------------------------------------------------------------------
(* Mutant: Close wakes nobody. *)
Close_NoBroadcast ==
  /\ L = Free
  /\ ~closed
  /\ closed' = TRUE
  /\ UNCHANGED <<L, pc, waiting, bufVars, timeVars>>

Close ==
  /\ L = Free
  /\ ~closed
  /\ closed' = TRUE
  /\ Broadcast
  /\ UNCHANGED <<L, pc, bufVars, timeVars>>

(* Mutant: the new deadline wakes nobody. *)
SetReadDeadline_NoBroadcast(t) ==
  /\ L = Free
  /\ sets < MaxDeadlines
  /\ sets' = sets + 1
  /\ rDeadline' = t
  /\ timer' = IF timer = "pending" THEN "stale" ELSE timer
  /\ UNCHANGED <<L, pc, waiting, bufVars, closed, missed>>

(* The timer of an earlier deadline is left running. *)
SetReadDeadline(t) ==
  /\ L = Free
  /\ sets < MaxDeadlines
  /\ sets' = sets + 1
  /\ rDeadline' = t
  /\ timer' = IF timer = "pending" THEN "stale" ELSE timer
  /\ Broadcast
  /\ UNCHANGED <<L, pc, bufVars, closed, missed>>

(* The clock passes the deadline, and with it the instant the timer is set *)
(* to.                                                                     *)
TimePasses ==
  /\ rDeadline = "future"
  /\ rDeadline' = "past"
  /\ timer' = IF timer = "pending" THEN "due" ELSE timer
  /\ UNCHANGED <<L, pc, waiting, bufVars, closed, sets, missed>>

(* The timer goroutine runs rwCond.Broadcast, which takes no lock. *)
TimerFires ==
  /\ timer \in {"due", "stale"}
  /\ timer' = "off"
  /\ missed' = (missed \/ \E r \in Readers : pc[r] = "park")
  /\ Broadcast
  /\ UNCHANGED <<L, pc, bufVars, closed, rDeadline, sets>>
-----------------------------------------------------------------------------
ReaderStep(r) ==
  \/ Lock(r) \/ Park(r) \/ ReadEOF(r) \/ ReadTimeout(r)
  \/ ReadData(r) \/ ReadDatagram(r) \/ ReadMustWait(r)

WriterStep(w) ==
  \/ Lock(w) \/ Park(w) \/ WriteClosed(w)
  \/ WriteData(w) \/ WriteClosing(w) \/ WriteMustWait(w)

Next ==
  \/ \E r \in Readers : ReaderStep(r)
  \/ \E w \in Writers : WriterStep(w)
  \/ Close
  \/ \E t \in {"none", "future", "past"} : SetReadDeadline(t)
  \/ TimePasses
  \/ TimerFires

Spec == Init /\ [][Next]_vars

(* Goroutines that can run do run; sync.Mutex lets no waiter starve; time  *)
(* passes and a due timer fires.  Close and SetReadDeadline may never come.*)
Fairness ==
  /\ \A r \in Readers : SF_vars(Lock(r)) /\ WF_vars(ReaderStep(r))
  /\ \A w \in Writers : SF_vars(Lock(w)) /\ WF_vars(WriterStep(w))
  /\ WF_vars(TimePasses)
  /\ WF_vars(TimerFires)

FairSpec == Spec /\ Fairness
-----------------------------------------------------------------------------
(* No lost wakeup: a goroutine on the notify list still has its reason to  *)
(* sleep.  A sleeping Read has no data and no closed pipe to report, and a *)
(* sleeping Write has no room: with readers and writers of different needs *)
(* on one condition, every Read, Write and Close must wake all of them.    *)
SleepersMustSleep ==
  \A t \in waiting :
    /\ ~closed
    /\ t \in Readers => Empty
    /\ t \in Writers => ~Room

(* ends[i] is where the i-th datagram of buf ends, by the lengths in pLens. *)
CutsAt(ends) ==
  /\ ends[0] = 0 /\ ends[Len(pLens)] = len
  /\ \A i \in 1 .. Len(pLens) : ends[i] = ends[i - 1] + pLens[i]

(* Datagram boundaries: the lengths kept in pLens cut buf into datagrams,  *)
(* to the last byte, so that no Read, short ones included, leaves the      *)
(* reader in the middle of one.                                            *)
BoundariesKept ==
  datagram => \E ends \in [0 .. Len(pLens) -> 0 .. len] : CutsAt(ends)

(* A Read asleep past its deadline is about to be woken by the timer, but  *)
(* for one case: the timer fired while a Read was between arming it and    *)
(* Wait.  SetReadDeadline and the replacement of the timer leave no other  *)
(* way to sleep through a deadline.                                        *)
DeadlineWakes ==
  \A r \in Readers \cap waiting :
    rDeadline = "past" => (timer # "off" \/ missed)

(* rwCond.L: a goroutine past Lock is alone, and one that is asleep or     *)
(* outside does not hold it, so Wait has always given the mutex back.      *)
MutexHeldInside ==
  \A t \in Threads : pc[t] \in {"check", "park"} <=> L = t

(* A Write on a full pipe is released by the reads that follow, or by      *)
(* Close, as long as someone reads: no writer sleeps for ever while a      *)
(* reader keeps reading.                                                   *)
WritersReleased ==
  \A w \in Writers :
    pc[w] = "asleep" ~> (pc[w] # "asleep" \/ \A r \in Readers : pc[r] = "done")

(* Every Read of a closed pipe returns, and after the buffered data it     *)
(* returns io.EOF.                                                         *)
ReadersSeeClose ==
  \A r \in Readers : closed ~> pc[r] = "done"
=============================================================================
