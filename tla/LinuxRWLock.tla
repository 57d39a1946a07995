---------------------------- MODULE LinuxRWLock ----------------------------
(***************************************************************************)
(* linuxrwlocks/linuxrwlocks.c on the C11 memory.  The threads call the    *)
(* operations in any order a program may: lock or try to lock, access the  *)
(* shared datum as main.c does, unlock in the mode they hold.              *)
(***************************************************************************)
EXTENDS C11Memory, Integers, FiniteSets

CONSTANTS
  Bias,        \* RW_LOCK_BIAS
  MaxAttempts  \* bound: attempts to take the lock, retries included

ASSUME RWLockAssumption ==
  /\ IsFiniteSet(Thread)
  /\ Bias \in Nat \ {0}
  /\ MaxAttempts \in Nat
  /\ AcquireFences = FALSE

VARIABLES
  attempts  \* attempts so far

vars == <<hist, cur, acq, rel, sc, pc, attempts>>

(* The counter, the datum, and the reads of the datum by each thread: a    *)
(* race needs to know of them too.                                         *)
Lock == <<"lock">>
Shared == <<"shareddata">>
ReadBy(t) == <<"read", t>>
Loc == {Lock, Shared} \cup {ReadBy(t) : t \in Thread}

(* The memory orders; every other access of the counter is relaxed.        *)
OrderReadLock == acquire
OrderReadRetry == acquire
OrderWriteLock == acquire
OrderWriteRetry == acquire
OrderReadTry == acquire
OrderWriteTry == acquire

(* Mutant of OrderReadUnlock: injection #7.                                *)
OrderReadUnlockRelaxed == relaxed

OrderReadUnlock == release
OrderWriteUnlock == release

(* The drivers initialise the counter to RW_LOCK_BIAS.                     *)
Init ==
  /\ MemInit([x \in Loc |-> IF x = Lock THEN Bias ELSE 0])
  /\ pc = [t \in Thread |-> "idle"]
  /\ attempts = 0

FetchAdd(t, n, ord) ==
  \E i \in Extendable(t, Lock, ord) : ReadModifyWrite(t, Lock, i, Val(Lock, i) + n, ord)

ReadGranted(v) == v > 0

(* Mutant of WriteGranted: any positive value will do.                     *)
WriteGrantedIfPositive(v) == v > 0

WriteGranted(v) == v = Bias

(* atomic_fetch_sub and the branch on the prior value.                     *)
TakeAsReader(t, ord, from, failed) ==
  \E i \in Extendable(t, Lock, ord) :
    /\ ReadModifyWrite(t, Lock, i, Val(Lock, i) - 1, ord)
    /\ Goto(t, from, IF ReadGranted(Val(Lock, i)) THEN "reader" ELSE failed)

TakeAsWriter(t, ord, from, failed) ==
  \E i \in Extendable(t, Lock, ord) :
    /\ ReadModifyWrite(t, Lock, i, Val(Lock, i) - Bias, ord)
    /\ Goto(t, from, IF WriteGranted(Val(Lock, i)) THEN "writer" ELSE failed)

NewAttempt == attempts < MaxAttempts /\ attempts' = attempts + 1

ReadLock(t) ==
  /\ NewAttempt
  /\ TakeAsReader(t, OrderReadLock, "idle", "readUndo")

ReadLock_Undo(t) ==
  /\ Goto(t, "readUndo", "readSpin")
  /\ FetchAdd(t, 1, relaxed)
  /\ UNCHANGED attempts

(* One iteration of the inner loop of read_lock.                           *)
ReadLock_Spin(t) ==
  /\ pc[t] = "readSpin"
  /\ \E i \in Readable(t, Lock, relaxed) :
       /\ Load(t, Lock, i, relaxed)
       /\ IF Val(Lock, i) <= 0
          THEN UNCHANGED <<pc, attempts>>
          ELSE NewAttempt /\ Goto(t, "readSpin", "readRetry")

ReadLock_Retry(t) ==
  /\ TakeAsReader(t, OrderReadRetry, "readRetry", "readUndo")
  /\ UNCHANGED attempts

WriteLock(t) ==
  /\ NewAttempt
  /\ TakeAsWriter(t, OrderWriteLock, "idle", "writeUndo")

WriteLock_Undo(t) ==
  /\ Goto(t, "writeUndo", "writeSpin")
  /\ FetchAdd(t, Bias, relaxed)
  /\ UNCHANGED attempts

(* One iteration of the inner loop of write_lock.                          *)
WriteLock_Spin(t) ==
  /\ pc[t] = "writeSpin"
  /\ \E i \in Readable(t, Lock, relaxed) :
       /\ Load(t, Lock, i, relaxed)
       /\ IF Val(Lock, i) # Bias
          THEN UNCHANGED <<pc, attempts>>
          ELSE NewAttempt /\ Goto(t, "writeSpin", "writeRetry")

WriteLock_Retry(t) ==
  /\ TakeAsWriter(t, OrderWriteRetry, "writeRetry", "writeUndo")
  /\ UNCHANGED attempts

ReadTrylock(t) ==
  /\ NewAttempt
  /\ TakeAsReader(t, OrderReadTry, "idle", "tryReadUndo")

(* Mutant of ReadTrylock_Undo: the failing path forgets to add back.       *)
ReturnWithoutUndo(t) ==
  /\ Goto(t, "tryReadUndo", "idle")
  /\ UNCHANGED <<hist, cur, acq, rel, sc, attempts>>

(* The failing return of read_trylock.                                     *)
ReadTrylock_Undo(t) ==
  /\ Goto(t, "tryReadUndo", "idle")
  /\ FetchAdd(t, 1, relaxed)
  /\ UNCHANGED attempts

WriteTrylock(t) ==
  /\ NewAttempt
  /\ TakeAsWriter(t, OrderWriteTry, "idle", "tryWriteUndo")

(* The failing return of write_trylock.                                    *)
WriteTrylock_Undo(t) ==
  /\ Goto(t, "tryWriteUndo", "idle")
  /\ FetchAdd(t, Bias, relaxed)
  /\ UNCHANGED attempts

(* read_can_lock and write_can_lock: the caller sees a value and is free   *)
(* to do what it likes with the answer.                                    *)
CanLock(t) ==
  /\ pc[t] = "idle"
  /\ \E i \in Readable(t, Lock, relaxed) : Load(t, Lock, i, relaxed)
  /\ UNCHANGED <<pc, attempts>>

(* load_32 and store_32 of the shared datum.                               *)
ReadShared(t) ==
  /\ Goto(t, "reader", "readUnlock")
  /\ Store(t, ReadBy(t), 0, relaxed)
  /\ UNCHANGED attempts

WriteShared(t) ==
  /\ Goto(t, "writer", "writeUnlock")
  /\ Store(t, Shared, 0, relaxed)
  /\ UNCHANGED attempts

(* Mutant of ReadUnlock: a reader releases what a writer took.             *)
ReleaseAsWriter(t) ==
  /\ Goto(t, "readUnlock", "idle")
  /\ FetchAdd(t, Bias, OrderReadUnlock)
  /\ UNCHANGED attempts

ReadUnlock(t) ==
  /\ Goto(t, "readUnlock", "idle")
  /\ FetchAdd(t, 1, OrderReadUnlock)
  /\ UNCHANGED attempts

WriteUnlock(t) ==
  /\ Goto(t, "writeUnlock", "idle")
  /\ FetchAdd(t, Bias, OrderWriteUnlock)
  /\ UNCHANGED attempts

(* The drivers have returned; who still spins has used up the attempts.    *)
Terminated ==
  /\ attempts = MaxAttempts
  /\ \A t \in Thread : pc[t] \in {"idle", "readSpin", "writeSpin"}
  /\ UNCHANGED vars

ThreadStep(t) ==
  \/ ReadLock(t) \/ ReadLock_Undo(t) \/ ReadLock_Spin(t) \/ ReadLock_Retry(t)
  \/ WriteLock(t) \/ WriteLock_Undo(t) \/ WriteLock_Spin(t) \/ WriteLock_Retry(t)
  \/ ReadTrylock(t) \/ ReadTrylock_Undo(t)
  \/ WriteTrylock(t) \/ WriteTrylock_Undo(t)
  \/ CanLock(t)
  \/ ReadShared(t) \/ WriteShared(t)
  \/ ReadUnlock(t) \/ WriteUnlock(t)

Next == (\E t \in Thread : ThreadStep(t)) \/ Terminated

Spec == Init /\ [][Next]_vars

-----------------------------------------------------------------------------
At(labels) == {t \in Thread : pc[t] \in labels}
Readers == At({"reader", "readUnlock"})
Writers == At({"writer", "writeUnlock"})

(* The threads whose failed attempt is still subtracted from the counter.  *)
FailedReaders == At({"readUndo", "tryReadUndo"})
FailedWriters == At({"writeUndo", "tryWriteUndo"})

(* The values the counter and the control flow allow.                      *)
TypeOK ==
  /\ pc \in [Thread -> {"idle", "reader", "readUndo", "readSpin", "readRetry", "readUnlock",
                        "writer", "writeUndo", "writeSpin", "writeRetry", "writeUnlock",
                        "tryReadUndo", "tryWriteUndo"}]
  /\ attempts \in 0..MaxAttempts
  /\ \A i \in 1..Newest(Lock) :
       Val(Lock, i) \in (-Cardinality(Thread) * Bias)..Bias

(* Properties 1, 2 and 4 of the list in linuxrwlocks.c: a writer is alone, *)
(* and there are at most RW_LOCK_BIAS readers.                             *)
HoldersCompatible ==
  /\ \A w \in Writers : Writers = {w} /\ Readers = {}
  /\ Cardinality(Readers) <= Bias

(* Property 3 of the list: the counter is RW_LOCK_BIAS less what the       *)
(* holders and the failed attempts in progress have taken; nothing is      *)
(* released that was not acquired, nothing is lost.                        *)
CounterAccounts ==
  Val(Lock, Newest(Lock)) =
    Bias - Cardinality(Readers \cup FailedReaders)
         - Bias * Cardinality(Writers \cup FailedWriters)

(* Property 5 of the list: write_unlock and read_unlock happen before the  *)
(* write_lock, and write_unlock before the read_lock, that comes later.    *)
UnlockHappensBeforeLock ==
  /\ \A t \in At({"reader"}) : Synchronized(t, Shared)
  /\ \A t \in At({"writer"}) :
       Synchronized(t, Shared) /\ \A u \in Thread : Synchronized(t, ReadBy(u))

(* An attempt fails only because of somebody else: a holder, or another    *)
(* attempt that is still to be undone.  For a reader it takes a writer or  *)
(* RW_LOCK_BIAS readers.                                                   *)
Taken(t, mode) == pc[t] \notin mode /\ pc'[t] \in mode
FailsOnlyUnderContention ==
  [][ \A t \in Thread :
        /\ Taken(t, {"readUndo", "tryReadUndo"}) =>
             \/ Writers \cup FailedWriters # {}
             \/ Cardinality(Readers \cup FailedReaders) >= Bias
        /\ Taken(t, {"writeUndo", "tryWriteUndo"}) =>
             Readers \cup Writers \cup FailedReaders \cup FailedWriters # {} ]_vars
=============================================================================
