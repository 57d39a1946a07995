----------------------------- MODULE TicketLock -----------------------------
(***************************************************************************)
(* ticket-lock/lock.c on the C11 memory, driven by the loop of main.c:     *)
(* lock, access the shared datum, unlock.                                  *)
(***************************************************************************)
EXTENDS C11Memory

CONSTANTS
  UintRange,   \* number of values of the unsigned counters
  MaxRequests  \* bound: calls of lock() in a run

ASSUME TicketAssumption ==
  /\ UintRange \in Nat \ {0}
  /\ MaxRequests \in Nat
  /\ AcquireFences = FALSE

VARIABLES
  ticket,  \* the local ticket of lock()
  turn     \* the local turn of unlock()

ticketVars == <<hist, cur, acq, rel, sc, pc, ticket, turn>>

(* The two counters of struct TicketLock and the datum they protect.       *)
TicketLoc == {"ticket", "turn", "shareddata"}

(* The memory orders of the loads and stores of turn; ticket is relaxed.   *)
OrderSpin == acquire
OrderUnlockLoad == relaxed

(* Mutant of OrderUnlockStore: injection #2.                               *)
OrderUnlockStoreRelaxed == relaxed

OrderUnlockStore == release

(* initTicketLock *)
TicketInit ==
  /\ MemInit([x \in TicketLoc |-> 0])
  /\ pc = [t \in Thread |-> "idle"]
  /\ ticket = [t \in Thread |-> 0]
  /\ turn = [t \in Thread |-> 0]

(* Mutant of Increment: the counter does not wrap.                         *)
IncrementUnwrapped(n) == n + 1

Increment(n) == (n + 1) % UintRange

(* Mutant of Lock_FetchAddTicket: a load and a store instead of fetch_add. *)
FetchAddNotAtomic(t) ==
  /\ Newest("ticket") <= MaxRequests
  /\ Goto(t, "idle", "spin")
  /\ \E i \in Readable(t, "ticket", relaxed) :
       /\ Store(t, "ticket", Increment(Val("ticket", i)), relaxed)
       /\ ticket' = [ticket EXCEPT ![t] = Val("ticket", i)]
  /\ UNCHANGED turn

Lock_FetchAddTicket(t) ==
  /\ Newest("ticket") <= MaxRequests
  /\ Goto(t, "idle", "spin")
  /\ \E i \in Extendable(t, "ticket", relaxed) :
       /\ ReadModifyWrite(t, "ticket", i, Increment(Val("ticket", i)), relaxed)
       /\ ticket' = [ticket EXCEPT ![t] = Val("ticket", i)]
  /\ UNCHANGED turn

(* Mutant of Lock_LoadTurn: the spin ends at any turn up to the ticket.    *)
SpinUpToTicket(t) ==
  /\ \E i \in Readable(t, "turn", OrderSpin) :
       /\ Load(t, "turn", i, OrderSpin)
       /\ Goto(t, "spin", IF Val("turn", i) <= ticket[t] THEN "cs" ELSE "spin")
  /\ UNCHANGED <<ticket, turn>>

(* One iteration of the spin: leave it on the own ticket, else yield.      *)
Lock_LoadTurn(t) ==
  /\ \E i \in Readable(t, "turn", OrderSpin) :
       /\ Load(t, "turn", i, OrderSpin)
       /\ Goto(t, "spin", IF Val("turn", i) = ticket[t] THEN "cs" ELSE "spin")
  /\ UNCHANGED <<ticket, turn>>

ReadShared(t) ==
  /\ Goto(t, "cs", "unlock")
  /\ \E i \in Readable(t, "shareddata", relaxed) : Load(t, "shareddata", i, relaxed)
  /\ UNCHANGED <<ticket, turn>>

WriteShared(t) ==
  /\ Goto(t, "cs", "unlock")
  /\ Store(t, "shareddata", 1, relaxed)
  /\ UNCHANGED <<ticket, turn>>

Unlock_LoadTurn(t) ==
  /\ Goto(t, "unlock", "publish")
  /\ \E i \in Readable(t, "turn", OrderUnlockLoad) :
       /\ Load(t, "turn", i, OrderUnlockLoad)
       /\ turn' = [turn EXCEPT ![t] = Val("turn", i)]
  /\ UNCHANGED ticket

(* Mutant of Unlock_StoreTurn: the turn is not advanced.                   *)
StoreSameTurn(t) ==
  /\ Goto(t, "publish", "idle")
  /\ Store(t, "turn", turn[t], OrderUnlockStore)
  /\ UNCHANGED <<ticket, turn>>

Unlock_StoreTurn(t) ==
  /\ Goto(t, "publish", "idle")
  /\ Store(t, "turn", Increment(turn[t]), OrderUnlockStore)
  /\ UNCHANGED <<ticket, turn>>

(* The drivers have made all their calls.                                  *)
TicketTerminated ==
  /\ Newest("ticket") > MaxRequests
  /\ \A t \in Thread : pc[t] = "idle"
  /\ UNCHANGED ticketVars

ThreadStep(t) ==
  \/ Lock_FetchAddTicket(t)
  \/ Lock_LoadTurn(t)
  \/ ReadShared(t)
  \/ WriteShared(t)
  \/ Unlock_LoadTurn(t)
  \/ Unlock_StoreTurn(t)

TicketNext == (\E t \in Thread : ThreadStep(t)) \/ TicketTerminated

TicketSpec == TicketInit /\ [][TicketNext]_ticketVars

(* The scheduler runs every thread that has started an operation, and a    *)
(* spinning thread eventually loads the newest turn (C11 7.17.3: stores    *)
(* become visible to loads in a finite time).                              *)
SpinOnNewestTurn(t) ==
  Lock_LoadTurn(t) /\ Event("turn", Newest("turn")) \in cur'[t]

TicketFairness ==
  \A t \in Thread :
    /\ WF_ticketVars(SpinOnNewestTurn(t))
    /\ WF_ticketVars(ReadShared(t) \/ WriteShared(t))
    /\ WF_ticketVars(Unlock_LoadTurn(t))
    /\ WF_ticketVars(Unlock_StoreTurn(t))

TicketFairSpec == TicketSpec /\ TicketFairness

-----------------------------------------------------------------------------
(* From the successful load of lock() to the store of unlock().            *)
Holders == {t \in Thread : pc[t] \in {"cs", "unlock", "publish"}}

(* The counters, program counters and locals range over the values the     *)
(* declarations of lock.h and the control flow of lock.c allow.            *)
TicketTypeOK ==
  /\ pc \in [Thread -> {"idle", "spin", "cs", "unlock", "publish"}]
  /\ ticket \in [Thread -> 0..(UintRange - 1)]
  /\ turn \in [Thread -> 0..(UintRange - 1)]
  /\ \A x \in {"ticket", "turn"} : \A i \in 1..Newest(x) : Val(x, i) \in 0..(UintRange - 1)

(* No two threads are between the return of lock() and the store of        *)
(* unlock(): the precondition STATE(lock) == false of lock().              *)
MutualExclusion == \A t, u \in Holders : t = u

(* A thread enters the critical section only after it has seen every write *)
(* of the earlier ones: unlock() happens before the lock() that follows.   *)
HandoffHappensBefore == \A t \in Thread : pc[t] = "cs" => Synchronized(t, "shareddata")

(* The lock is granted in the order of the fetch_add: whoever spins holds  *)
(* a later ticket than the holder.                                         *)
FirstComeFirstServed ==
  \A t \in Holders, u \in Thread : pc[u] = "spin" => ticket[t] < ticket[u]

(* The relaxed load in unlock() never returns a stale turn: it is the      *)
(* ticket of the thread that unlocks.                                      *)
UnlockReadsOwnTurn == \A t \in Thread : pc[t] = "publish" => turn[t] = ticket[t]

(* lock() and unlock() implement the abstract lock.                        *)
Lock == INSTANCE AbstractLock WITH owner <- Holders
ImplementsLock == Lock!Spec

(* Every thread that has drawn a ticket gets the lock.                     *)
LockIsGranted == \A t \in Thread : pc[t] = "spin" ~> pc[t] = "cs"
=============================================================================
