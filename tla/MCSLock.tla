------------------------------ MODULE MCSLock ------------------------------
(***************************************************************************)
(* mcs-lock/mcs-lock.cc on the C11 memory, driven as by the threads of     *)
(* main.cc: each owns one guard, whose node is on its stack, locks and     *)
(* unlocks with it a number of times, and lets it go out of scope.         *)
(***************************************************************************)
EXTENDS C11Memory, FiniteSetsExt

CONSTANTS
  Null,      \* the null pointer
  MaxCalls   \* bound: calls of lock() in a run

ASSUME MCSAssumption ==
  /\ Null \notin Thread
  /\ MaxCalls \in Nat
  /\ AcquireFences = FALSE

VARIABLES
  peer,   \* the local pred of lock(), then the local next of unlock()
  calls   \* calls of lock() so far

vars == <<hist, cur, acq, rel, sc, pc, peer, calls>>

(* A node is named by the thread whose guard holds it.                     *)
MTail == <<"tail">>
Shared == <<"shared">>
NextOf(n) == <<"next", n>>
Gate(n) == <<"gate", n>>
Loc == {MTail, Shared} \cup {NextOf(n) : n \in Thread} \cup {Gate(n) : n \in Thread}

(* The memory orders, one per atomic operation that has one to weaken.     *)

(* Mutant of OrderExchange: injection #1.                                  *)
OrderExchangeAcquire == acquire

OrderExchange == acq_rel
OrderLink == release
OrderSpinGate == acquire
OrderLoadNext == acquire
OrderUnlockCAS == release
OrderSpinNext == acquire

(* Mutant of OrderOpenGate: injection #8.                                  *)
OrderOpenGateRelaxed == relaxed

OrderOpenGate == release

(* Mutant of Init: the constructor of mcs_node leaves the gate alone.      *)
InitWithoutGate ==
  /\ MemInit([x \in Loc |-> IF x = Shared THEN 0 ELSE Null])
  /\ pc = [t \in Thread |-> "idle"]
  /\ peer = [t \in Thread |-> Null]
  /\ calls = 0

(* The constructors of mcs_mutex and mcs_node: no waiter, gates at 0.      *)
Init ==
  /\ MemInit([x \in Loc |-> IF x = Shared \/ x \in {Gate(n) : n \in Thread} THEN 0 ELSE Null])
  /\ pc = [t \in Thread |-> "idle"]
  /\ peer = [t \in Thread |-> Null]
  /\ calls = 0

Lock_StoreNext(t) ==
  /\ Goto(t, "idle", "setgate")
  /\ calls < MaxCalls
  /\ calls' = calls + 1
  /\ Store(t, NextOf(t), Null, relaxed)
  /\ UNCHANGED peer

Lock_StoreGate(t) ==
  /\ Goto(t, "setgate", "exchange")
  /\ Store(t, Gate(t), 1, relaxed)
  /\ UNCHANGED <<peer, calls>>

(* The exchange makes t the tail; without a predecessor it has the lock.   *)
Lock_ExchangeTail(t) ==
  /\ pc[t] = "exchange"
  /\ \E i \in Extendable(t, MTail, OrderExchange) :
       /\ ReadModifyWrite(t, MTail, i, t, OrderExchange)
       /\ peer' = [peer EXCEPT ![t] = Val(MTail, i)]
       /\ MoveTo(t, IF Val(MTail, i) = Null THEN "cs" ELSE "link")
  /\ UNCHANGED calls

Lock_LinkPred(t) ==
  /\ Goto(t, "link", "wait")
  /\ Store(t, NextOf(peer[t]), t, OrderLink)
  /\ UNCHANGED <<peer, calls>>

(* Mutant of Lock_LoadGate: the test of the spin is inverted.              *)
LeaveOnClosedGate(t) ==
  /\ pc[t] = "wait"
  /\ \E i \in Readable(t, Gate(t), OrderSpinGate) :
       /\ Load(t, Gate(t), i, OrderSpinGate)
       /\ MoveTo(t, IF Val(Gate(t), i) = 1 THEN "cs" ELSE "wait")
  /\ UNCHANGED <<peer, calls>>

(* One iteration of the spin: leave it when the gate is open, else yield.  *)
Lock_LoadGate(t) ==
  /\ pc[t] = "wait"
  /\ \E i \in Readable(t, Gate(t), OrderSpinGate) :
       /\ Load(t, Gate(t), i, OrderSpinGate)
       /\ MoveTo(t, IF Val(Gate(t), i) = 0 THEN "cs" ELSE "wait")
  /\ UNCHANGED <<peer, calls>>

ReadShared(t) ==
  /\ Goto(t, "cs", "unlock")
  /\ \E i \in Readable(t, Shared, relaxed) : Load(t, Shared, i, relaxed)
  /\ UNCHANGED <<peer, calls>>

WriteShared(t) ==
  /\ Goto(t, "cs", "unlock")
  /\ Store(t, Shared, 1, relaxed)
  /\ UNCHANGED <<peer, calls>>

(* unlock() returns, to another lock() or as the destructor of the guard,  *)
(* after which the node is gone.                                           *)
Return(t, from) == \E to \in {"idle", "done"} : Goto(t, from, to)

Unlock_LoadNext(t) ==
  /\ pc[t] = "unlock"
  /\ \E i \in Readable(t, NextOf(t), OrderLoadNext) :
       /\ Load(t, NextOf(t), i, OrderLoadNext)
       /\ peer' = [peer EXCEPT ![t] = Val(NextOf(t), i)]
       /\ MoveTo(t, IF Val(NextOf(t), i) = Null THEN "cas" ELSE "open")
  /\ UNCHANGED calls

(* The compare_exchange finds t still the tail and takes it out.           *)
Unlock_RemoveTail(t) ==
  /\ Return(t, "cas")
  /\ \E i \in Extendable(t, MTail, OrderUnlockCAS) :
       /\ Val(MTail, i) = t
       /\ ReadModifyWrite(t, MTail, i, Null, OrderUnlockCAS)
  /\ UNCHANGED <<peer, calls>>

(* Mutant of Unlock_FindSuccessor: unlock() does not wait for the link.    *)
ReturnOnFailedCAS(t) ==
  /\ Return(t, "cas")
  /\ \E i \in Readable(t, MTail, relaxed) :
       /\ Val(MTail, i) # t
       /\ Load(t, MTail, i, relaxed)
  /\ UNCHANGED <<peer, calls>>

(* The compare_exchange fails: somebody is about to link itself to t.      *)
Unlock_FindSuccessor(t) ==
  /\ Goto(t, "cas", "await")
  /\ \E i \in Readable(t, MTail, relaxed) :
       /\ Val(MTail, i) # t
       /\ Load(t, MTail, i, relaxed)
  /\ UNCHANGED <<peer, calls>>

(* One iteration of the loop that waits for the successor to be linked.    *)
Unlock_AwaitNext(t) ==
  /\ pc[t] = "await"
  /\ \E i \in Readable(t, NextOf(t), OrderSpinNext) :
       /\ Load(t, NextOf(t), i, OrderSpinNext)
       /\ peer' = [peer EXCEPT ![t] = Val(NextOf(t), i)]
       /\ MoveTo(t, IF Val(NextOf(t), i) = Null THEN "await" ELSE "open")
  /\ UNCHANGED calls

Unlock_OpenGate(t) ==
  /\ Return(t, "open")
  /\ Store(t, Gate(peer[t]), 0, OrderOpenGate)
  /\ UNCHANGED <<peer, calls>>

Terminated ==
  /\ \A t \in Thread : pc[t] = "done" \/ (pc[t] = "idle" /\ calls = MaxCalls)
  /\ UNCHANGED vars

ThreadStep(t) ==
  \/ Lock_StoreNext(t)
  \/ Lock_StoreGate(t)
  \/ Lock_ExchangeTail(t)
  \/ Lock_LinkPred(t)
  \/ Lock_LoadGate(t)
  \/ ReadShared(t)
  \/ WriteShared(t)
  \/ Unlock_LoadNext(t)
  \/ Unlock_RemoveTail(t)
  \/ Unlock_FindSuccessor(t)
  \/ Unlock_AwaitNext(t)
  \/ Unlock_OpenGate(t)

Next == (\E t \in Thread : ThreadStep(t)) \/ Terminated

Spec == Init /\ [][Next]_vars

(* The scheduler runs every thread that is not idle, and a spin eventually *)
(* loads the newest gate or link (C11 7.17.3).                             *)
Loads(t, x) == <<x, hist[x][Newest(x)].id>> \in cur'[t]
SpinOnNewest(t) ==
  \/ Lock_LoadGate(t) /\ Loads(t, Gate(t))
  \/ Unlock_AwaitNext(t) /\ Loads(t, NextOf(t))

Straight(t) ==
  \/ Lock_StoreGate(t) \/ Lock_ExchangeTail(t) \/ Lock_LinkPred(t)
  \/ ReadShared(t) \/ WriteShared(t)
  \/ Unlock_LoadNext(t) \/ Unlock_RemoveTail(t) \/ Unlock_FindSuccessor(t)
  \/ Unlock_OpenGate(t)

Fairness == \A t \in Thread : WF_vars(SpinOnNewest(t)) /\ WF_vars(Straight(t))

FairSpec == Spec /\ Fairness

-----------------------------------------------------------------------------
Waiting == {"link", "wait"}
At(labels) == {t \in Thread : pc[t] \in labels}
Holders == At({"cs", "unlock", "cas", "await", "open"})

(* The values the declarations of mcs-lock.h allow in each variable.       *)
TypeOK ==
  /\ pc \in [Thread -> {"idle", "setgate", "exchange", "link", "wait", "cs", "unlock", "cas",
                        "await", "open", "done"}]
  /\ peer \in [Thread -> Thread \cup {Null}]
  /\ calls \in 0..MaxCalls
  /\ \A x \in {MTail} \cup {NextOf(n) : n \in Thread} :
       \A i \in 1..Newest(x) : Val(x, i) \in Thread \cup {Null}
  /\ \A n \in Thread : \A i \in 1..Newest(Gate(n)) : Val(Gate(n), i) \in {0, 1}

(* The thread that enters has seen every write of the earlier holders,     *)
(* whether the lock was handed over by the gate or found free at the tail. *)
HandoffHappensBefore == \A t \in Thread : pc[t] = "cs" => Synchronized(t, Shared)

(* A thread that is about to write to the node of another one finds it in  *)
(* the call it means: the predecessor still has to see the link, and the   *)
(* successor still waits at its gate.  So the node is neither reused for   *)
(* the next lock() nor gone with the stack frame of its guard.             *)
NodeOutlivesAccess ==
  \A t \in Thread :
    /\ pc[t] = "link" => pc[peer[t]] \in Waiting \cup {"cs", "unlock", "cas", "await"}
    /\ pc[t] = "open" => pc[peer[t]] = "wait"

(* The threads get the lock in the order of their exchanges: a holder     *)
(* precedes whoever waits, and any other holder, so there is none.         *)
Turn(t) == Max({i \in 1..Newest(MTail) : Val(MTail, i) = t})
QueueOrder ==
  \A t \in Holders, u \in Holders \cup At(Waiting) : t # u => Turn(t) < Turn(u)

(* Every thread that is in the queue gets the lock, and unlock() returns:  *)
(* neither of the two waits is for a store that never comes.               *)
NobodyWaitsForever ==
  \A t \in Thread :
    /\ pc[t] = "link" ~> pc[t] = "cs"
    /\ pc[t] = "cs" ~> pc[t] \in {"idle", "done"}
=============================================================================
