-------------------------------- MODULE RCU --------------------------------
(***************************************************************************)
(* read-copy-update/rcu.cc on the C11 memory.  The threads call read() and *)
(* write() in any order.                                                   *)
(***************************************************************************)
EXTENDS C11Memory, FiniteSets

CONSTANTS
  Argument,  \* the pairs write() is called with
  Uninit,    \* the value of memory that new has not initialised
  MaxReads,  \* bound: calls of read() in a run
  MaxWrites  \* bound: calls of write() in a run

ASSUME RCUAssumption ==
  /\ Argument \subseteq Nat \X Nat
  /\ Uninit \notin Nat
  /\ MaxReads \in Nat /\ MaxWrites \in Nat
  /\ AcquireFences = FALSE

VARIABLES
  ptr,    \* the local res of read(), prev of write()
  tmp,    \* the local tmp of write()
  data1,  \* what read() and inc() have loaded from *ptr
  data2,
  reads,  \* calls of read() so far
  args    \* the arguments of the calls of write() so far

locals == <<ptr, tmp, data1, data2, reads, args>>
vars == <<hist, cur, acq, rel, sc, pc, locals>>

(* Data 0 is dataInit, data n the one the n-th call of write() allocates.  *)
DataPtr == <<"dataPtr">>
Node == 0..MaxWrites
Data1(n) == <<"data1", n>>
Data2(n) == <<"data2", n>>
Loc == {DataPtr} \cup {Data1(n) : n \in Node} \cup {Data2(n) : n \in Node}

(* The memory orders, one per operation that has one to weaken.            *)

(* Mutant of OrderRead: injection #1.                                      *)
OrderReadRelaxed == relaxed

OrderRead == acquire
OrderWriteLoad == acquire
OrderWriteCAS == release

(* As the drivers leave it: dataInit holds zeros, dataPtr points to it.    *)
Init ==
  /\ MemInit([x \in Loc |-> IF x \in {DataPtr, Data1(0), Data2(0)} THEN 0 ELSE Uninit])
  /\ pc = [t \in Thread |-> "idle"]
  /\ ptr = [t \in Thread |-> 0]
  /\ tmp = [t \in Thread |-> 0]
  /\ data1 = [t \in Thread |-> 0]
  /\ data2 = [t \in Thread |-> 0]
  /\ reads = 0
  /\ args = <<>>

LoadPtr(t, ord) ==
  \E i \in Readable(t, DataPtr, ord) :
    /\ Load(t, DataPtr, i, ord)
    /\ ptr' = [ptr EXCEPT ![t] = Val(DataPtr, i)]

LoadData1(t) ==
  /\ \E i \in Readable(t, Data1(ptr[t]), relaxed) :
       /\ Load(t, Data1(ptr[t]), i, relaxed)
       /\ data1' = [data1 EXCEPT ![t] = Val(Data1(ptr[t]), i)]
  /\ UNCHANGED <<ptr, tmp, data2, reads, args>>

LoadData2(t) ==
  /\ \E i \in Readable(t, Data2(ptr[t]), relaxed) :
       /\ Load(t, Data2(ptr[t]), i, relaxed)
       /\ data2' = [data2 EXCEPT ![t] = Val(Data2(ptr[t]), i)]
  /\ UNCHANGED <<ptr, tmp, data1, reads, args>>

Idle(t) == pc[t] \in {"idle", "returned"}

Read_LoadPtr(t) ==
  /\ Idle(t)
  /\ pc' = [pc EXCEPT ![t] = "readData1"]
  /\ reads < MaxReads
  /\ reads' = reads + 1
  /\ LoadPtr(t, OrderRead)
  /\ UNCHANGED <<tmp, data1, data2, args>>

Read_LoadData1(t) == Goto(t, "readData1", "readData2") /\ LoadData1(t)
Read_LoadData2(t) == Goto(t, "readData2", "returned") /\ LoadData2(t)

(* Mutant of Write_New: all calls share one allocation.                    *)
ShareTmp(t) ==
  /\ Idle(t)
  /\ pc' = [pc EXCEPT ![t] = "load"]
  /\ Len(args) < MaxWrites
  /\ \E a \in Argument : args' = Append(args, a)
  /\ tmp' = [tmp EXCEPT ![t] = 1]
  /\ UNCHANGED <<hist, cur, acq, rel, sc, ptr, data1, data2, reads>>

Write_New(t) ==
  /\ Idle(t)
  /\ pc' = [pc EXCEPT ![t] = "load"]
  /\ Len(args) < MaxWrites
  /\ \E a \in Argument : args' = Append(args, a)
  /\ tmp' = [tmp EXCEPT ![t] = Len(args) + 1]
  /\ UNCHANGED <<hist, cur, acq, rel, sc, ptr, data1, data2, reads>>

Write_LoadPtr(t) ==
  /\ Goto(t, "load", "incLoad1")
  /\ LoadPtr(t, OrderWriteLoad)
  /\ UNCHANGED <<tmp, data1, data2, reads, args>>

(* What is computed from uninitialised memory is as undefined.             *)
Plus(v, d) == IF v = Uninit THEN Uninit ELSE v + d

Inc_LoadData1(t) == Goto(t, "incLoad1", "incStore1") /\ LoadData1(t)

Inc_StoreData1(t) ==
  /\ Goto(t, "incStore1", "incLoad2")
  /\ Store(t, Data1(tmp[t]), Plus(data1[t], args[tmp[t]][1]), relaxed)
  /\ UNCHANGED locals

Inc_LoadData2(t) == Goto(t, "incLoad2", "incStore2") /\ LoadData2(t)

Inc_StoreData2(t) ==
  /\ Goto(t, "incStore2", "cas")
  /\ Store(t, Data2(tmp[t]), Plus(data2[t], args[tmp[t]][2]), relaxed)
  /\ UNCHANGED locals

(* Mutant of Write_WinCAS: a plain store takes the place of the CAS.       *)
StorePtr(t) ==
  /\ Goto(t, "cas", "idle")
  /\ Store(t, DataPtr, tmp[t], OrderWriteCAS)
  /\ UNCHANGED locals

(* The compare_exchange finds prev still in place and publishes tmp.       *)
Write_WinCAS(t) ==
  /\ Goto(t, "cas", "idle")
  /\ \E i \in Extendable(t, DataPtr, OrderWriteCAS) :
       /\ Val(DataPtr, i) = ptr[t]
       /\ ReadModifyWrite(t, DataPtr, i, tmp[t], OrderWriteCAS)
  /\ UNCHANGED locals

(* Mutant of Write_LoseCAS: the retry does not load prev again.            *)
RetryWithOldPrev(t) ==
  /\ Goto(t, "cas", "cas")
  /\ \E i \in Readable(t, DataPtr, relaxed) :
       /\ Val(DataPtr, i) # ptr[t]
       /\ Load(t, DataPtr, i, relaxed)
  /\ UNCHANGED locals

(* It fails, and the loop starts over with the same tmp.                   *)
Write_LoseCAS(t) ==
  /\ Goto(t, "cas", "load")
  /\ \E i \in Readable(t, DataPtr, relaxed) :
       /\ Val(DataPtr, i) # ptr[t]
       /\ Load(t, DataPtr, i, relaxed)
  /\ UNCHANGED locals

(* The drivers have made all their calls.                                  *)
Terminated ==
  /\ reads = MaxReads /\ Len(args) = MaxWrites
  /\ \A t \in Thread : Idle(t)
  /\ UNCHANGED vars

ReadStep(t) == Read_LoadPtr(t) \/ Read_LoadData1(t) \/ Read_LoadData2(t)

WriteLoop(t) ==
  \/ Inc_LoadData1(t) \/ Inc_StoreData1(t) \/ Inc_LoadData2(t) \/ Inc_StoreData2(t)
  \/ Write_WinCAS(t) \/ Write_LoseCAS(t)

Next ==
  \/ \E t \in Thread : ReadStep(t) \/ Write_New(t) \/ Write_LoadPtr(t) \/ WriteLoop(t)
  \/ Terminated

Spec == Init /\ [][Next]_vars

(* The scheduler runs every thread that is in a call, and a thread that    *)
(* keeps loading dataPtr eventually loads the newest (C11 7.17.3).         *)
LoadsNewest(t) == Event(DataPtr, Newest(DataPtr)) \in cur'[t]
Fairness ==
  \A t \in Thread : WF_vars(WriteLoop(t)) /\ WF_vars(Write_LoadPtr(t) /\ LoadsNewest(t))

FairSpec == Spec /\ Fairness

-----------------------------------------------------------------------------
Published == {Val(DataPtr, k) : k \in 1..Newest(DataPtr)}
Content(n) ==
  <<Val(Data1(n), Newest(Data1(n))), Val(Data2(n), Newest(Data2(n)))>>

(* The values the declarations of rcu.h and the control flow allow; each   *)
(* writer works on a Data of its own that nobody else can reach.           *)
Writing == {t \in Thread : ~Idle(t) /\ pc[t] \notin {"readData1", "readData2"}}
TypeOK ==
  /\ \A t \in Writing : tmp[t] \notin Published /\ \A u \in Writing \ {t} : tmp[t] # tmp[u]
  /\ pc \in [Thread -> {"idle", "returned", "readData1", "readData2", "load", "incLoad1",
                        "incStore1", "incLoad2", "incStore2", "cas"}]
  /\ ptr \in [Thread -> Node] /\ tmp \in [Thread -> Node]
  /\ \A k \in 1..Newest(DataPtr) : Val(DataPtr, k) \in Node

(* read() returns both counters of one published version, complete and     *)
(* initialised: what the injected weak orders of rcu.cc are detected by.   *)
ReadIsSnapshot ==
  \A t \in Thread :
    pc[t] = "returned" =>
      /\ ptr[t] \in Published
      /\ <<data1[t], data2[t]>> = Content(ptr[t])
      /\ Uninit \notin {data1[t], data2[t]}

(* The newest version implements the pair of counters: what is published   *)
(* is the version it replaces plus the arguments of the writer, so that no *)
(* write is lost however many times the loop was retried.                  *)
Abstract ==
  INSTANCE AbstractCounters WITH pair <- Content(Val(DataPtr, Newest(DataPtr)))
ImplementsCounters == Abstract!Spec

(* A writer publishes, as the others run out of writes to overtake it.     *)
WriteReturns == \A t \in Thread : pc[t] = "load" ~> pc[t] = "idle"
=============================================================================
