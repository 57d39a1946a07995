----------------------------- MODULE EventCount -----------------------------
(***************************************************************************)
(* spsc-bugfix/eventcount.h on the C11 memory, as actions for the module   *)
(* of its client: a thread enters signal() at "signal", get() at "get" and *)
(* wait() at "wait", and leaves them at the place done.                    *)
(***************************************************************************)
EXTENDS C11Memory

CONSTANTS
  CountRange,  \* the values of count without its flag: 2^31
  MaxWakes     \* bound: wake-ups without a notification in a run

VARIABLES
  cmp,      \* thread -> the local cmp
  waiters,  \* sleeps since the last signal that found the flag
  wakes     \* wake-ups without a notification so far

ecVars == <<cmp, waiters, wakes>>

(* The low bits of count, and its highest bit, "someone may be waiting".   *)
Count == <<"count">>
CountOf(n, flag) == [n |-> n, flag |-> flag]

(* The mutex guard, 1 while it is locked.                                  *)
Guard == <<"guard">>
EventCountLoc == {Count, Guard}
EventCountInit(x) == IF x = Count THEN CountOf(0, FALSE) ELSE 0

OrderSignal == seq_cst
OrderGet == seq_cst
OrderWait == seq_cst
OrderSignalCAS == relaxed

LockGuard(t) == Val(Guard, Newest(Guard)) = 0 /\ ReadModifyWrite(t, Guard, Newest(Guard), 1, acquire)
UnlockGuard(t) == Store(t, Guard, 0, release)

(* ---- signal ----------------------------------------------------------- *)

(* Mutant of Signal_FetchAdd: signal_relaxed().                            *)
SignalLoadRelaxed(t, done) ==
  /\ pc[t] = "signal"
  /\ \E i \in Readable(t, Count, relaxed) :
       /\ Load(t, Count, i, relaxed)
       /\ cmp' = [cmp EXCEPT ![t] = Val(Count, i)]
       /\ MoveTo(t, IF Val(Count, i).flag THEN "signalLock" ELSE done)
  /\ UNCHANGED <<waiters, wakes>>

(* fetch_add(0): nobody waits unless the flag is set.                      *)
Signal_FetchAdd(t, done) ==
  /\ pc[t] = "signal"
  /\ \E i \in Extendable(t, Count, OrderSignal) :
       /\ ReadModifyWrite(t, Count, i, Val(Count, i), OrderSignal)
       /\ cmp' = [cmp EXCEPT ![t] = Val(Count, i)]
       /\ MoveTo(t, IF Val(Count, i).flag THEN "signalLock" ELSE done)
  /\ UNCHANGED <<waiters, wakes>>

Signal_Lock(t) ==
  /\ Goto(t, "signalLock", "signalCAS")
  /\ LockGuard(t)
  /\ UNCHANGED ecVars

(* (cmp + 1) & 0x7FFFFFFF: one more event, and the flag is down.           *)
Signal_CAS(t) ==
  /\ Goto(t, "signalCAS", "signalUnlock")
  /\ \E i \in Extendable(t, Count, OrderSignalCAS) :
       /\ Val(Count, i) = cmp[t]
       /\ ReadModifyWrite(t, Count, i, CountOf((cmp[t].n + 1) % CountRange, FALSE), OrderSignalCAS)
  /\ UNCHANGED ecVars

(* The weak compare_exchange may fail at any time.                         *)
Signal_CASFails(t) ==
  /\ pc[t] = "signalCAS"
  /\ \E i \in Readable(t, Count, OrderSignalCAS) :
       Load(t, Count, i, OrderSignalCAS) /\ cmp' = [cmp EXCEPT ![t] = Val(Count, i)]
  /\ UNCHANGED <<pc, waiters, wakes>>

(* Leave the number of waiters in the local w, here the place to go to.    *)
Signal_Unlock(t, done) ==
  /\ Goto(t, "signalUnlock", IF waiters > 0 THEN "notify" ELSE done)
  /\ UnlockGuard(t)
  /\ waiters' = 0
  /\ UNCHANGED <<cmp, wakes>>

Signal_Notify(t, done) ==
  /\ pc[t] = "notify"
  /\ pc' = [u \in Thread |-> IF u = t THEN done ELSE IF pc[u] = "asleep" THEN "relock" ELSE pc[u]]
  /\ UNCHANGED memVars
  /\ UNCHANGED ecVars

(* ---- get, wait -------------------------------------------------------- *)

Get(t, done) ==
  /\ Goto(t, "get", done)
  /\ \E i \in Extendable(t, Count, OrderGet) :
       /\ ReadModifyWrite(t, Count, i, CountOf(Val(Count, i).n, TRUE), OrderGet)
       /\ cmp' = [cmp EXCEPT ![t] = CountOf(Val(Count, i).n, FALSE)]
  /\ UNCHANGED <<waiters, wakes>>

Wait_Load(t, done) ==
  /\ pc[t] = "wait"
  /\ \E i \in Readable(t, Count, OrderWait) :
       /\ Load(t, Count, i, OrderWait)
       /\ MoveTo(t, IF Val(Count, i).n = cmp[t].n THEN "waitLock" ELSE done)
  /\ UNCHANGED ecVars

Wait_Lock(t) ==
  /\ Goto(t, "waitLock", "recheck")
  /\ LockGuard(t)
  /\ UNCHANGED ecVars

(* The second look at count.                                               *)
Wait_Recheck(t) ==
  /\ pc[t] = "recheck"
  /\ \E i \in Readable(t, Count, OrderWait) :
       /\ Load(t, Count, i, OrderWait)
       /\ LET again == Val(Count, i).n = cmp[t].n
          IN  /\ MoveTo(t, IF again THEN "sleep" ELSE "waitUnlock")
              /\ waiters' = IF again THEN waiters + 1 ELSE waiters
  /\ UNCHANGED <<cmp, wakes>>

(* cv.wait(guard): unlock and sleep in one step, until a notification or   *)
(* without any; then lock again.                                           *)
Wait_Sleep(t) == Goto(t, "sleep", "asleep") /\ UnlockGuard(t) /\ UNCHANGED ecVars

Wait_WakeSpuriously(t) ==
  /\ Goto(t, "asleep", "relock")
  /\ wakes < MaxWakes
  /\ wakes' = wakes + 1
  /\ UNCHANGED memVars
  /\ UNCHANGED <<cmp, waiters>>

Wait_Relock(t) == Goto(t, "relock", "waitUnlock") /\ LockGuard(t) /\ UNCHANGED ecVars

Wait_Unlock(t, done) == Goto(t, "waitUnlock", done) /\ UnlockGuard(t) /\ UNCHANGED ecVars

Signal(t, done) ==
  \/ Signal_FetchAdd(t, done) \/ Signal_Lock(t) \/ Signal_CAS(t) \/ Signal_CASFails(t)
  \/ Signal_Unlock(t, done) \/ Signal_Notify(t, done)

Wait(t, done) ==
  \/ Wait_Load(t, done) \/ Wait_Lock(t) \/ Wait_Recheck(t) \/ Wait_Sleep(t)
  \/ Wait_WakeSpuriously(t) \/ Wait_Relock(t) \/ Wait_Unlock(t, done)
=============================================================================
