------------------------------ MODULE SeqLock ------------------------------
(***************************************************************************)
(* seqlock/seqlock.cc on the C11 memory.  The threads call read() and      *)
(* write() in any order, as many at once as there are threads.             *)
(***************************************************************************)
EXTENDS C11Memory, Integers, FiniteSets

CONSTANTS
  IntMax,    \* INT_MAX
  MaxReads,  \* bound: calls of read() in a run
  MaxWrites  \* bound: calls of write() in a run

ASSUME SeqLockAssumption ==
  /\ IntMax \in Nat \ {0} /\ IntMax % 2 = 1
  /\ MaxReads \in Nat /\ MaxWrites \in Nat
  /\ AcquireFences = TRUE

VARIABLES
  oldSeq,  \* the local old_seq of read() and of write()
  data1,   \* what read() has read, the argument of write()
  data2,   \* likewise
  reads,   \* calls of read() so far
  writes   \* calls of write() so far

locals == <<pc, oldSeq, data1, data2, reads, writes>>
vars == <<hist, cur, acq, rel, sc, locals>>

Seq_ == "_seq"
Data1 == "_data1"
Data2 == "_data2"
Loc == {Seq_, Data1, Data2}

(* The memory orders, one per operation that has one to weaken.            *)
OrderReadSeq == acquire

(* Mutant of OrderReadFence: injection #2.                                 *)
OrderReadFenceRelaxed == relaxed

OrderReadFence == acquire
OrderWriteSeq == acquire
OrderWriteFence == release
OrderPublish == release

(* The constructor.                                                        *)
Init ==
  /\ MemInit([x \in Loc |-> 0])
  /\ pc = [t \in Thread |-> "idle"]
  /\ oldSeq = [t \in Thread |-> 0]
  /\ data1 = [t \in Thread |-> 0]
  /\ data2 = [t \in Thread |-> 0]
  /\ reads = 0
  /\ writes = 0

(* _seq is an atomic_int: it wraps from INT_MAX to INT_MIN.                *)
Increment(n) == IF n = IntMax THEN -IntMax - 1 ELSE n + 1

(* Mutant of WriteInProgress: the parity is not looked at.                 *)
NeverInProgress(n) == FALSE

(* n % 2 == 1: the remainder of C has the sign of n.                       *)
WriteInProgress(n) == n > 0 /\ n % 2 = 1

Read_Call(t) ==
  /\ pc[t] \in {"idle", "returned"}
  /\ MoveTo(t, "readSeq")
  /\ reads < MaxReads
  /\ reads' = reads + 1
  /\ UNCHANGED <<hist, cur, acq, rel, sc, oldSeq, data1, data2, writes>>

Read_LoadSeq(t) ==
  /\ pc[t] = "readSeq"
  /\ \E i \in Readable(t, Seq_, OrderReadSeq) :
       /\ Load(t, Seq_, i, OrderReadSeq)
       /\ oldSeq' = [oldSeq EXCEPT ![t] = Val(Seq_, i)]
       /\ MoveTo(t, IF WriteInProgress(Val(Seq_, i)) THEN "readSeq" ELSE "readData1")
  /\ UNCHANGED <<data1, data2, reads, writes>>

Read_LoadData1(t) ==
  /\ Goto(t, "readData1", "readData2")
  /\ \E i \in Readable(t, Data1, relaxed) :
       /\ Load(t, Data1, i, relaxed)
       /\ data1' = [data1 EXCEPT ![t] = Val(Data1, i)]
  /\ UNCHANGED <<oldSeq, data2, reads, writes>>

Read_LoadData2(t) ==
  /\ Goto(t, "readData2", "readFence")
  /\ \E i \in Readable(t, Data2, relaxed) :
       /\ Load(t, Data2, i, relaxed)
       /\ data2' = [data2 EXCEPT ![t] = Val(Data2, i)]
  /\ UNCHANGED <<oldSeq, data1, reads, writes>>

Read_Fence(t) ==
  /\ Goto(t, "readFence", "recheck")
  /\ Fence(t, OrderReadFence, {})
  /\ UNCHANGED <<oldSeq, data1, data2, reads, writes>>

(* Return if the sequence is the one read first, else start over.          *)
Read_Recheck(t) ==
  /\ pc[t] = "recheck"
  /\ \E i \in Readable(t, Seq_, relaxed) :
       /\ Load(t, Seq_, i, relaxed)
       /\ MoveTo(t, IF Val(Seq_, i) = oldSeq[t] THEN "returned" ELSE "readSeq")
  /\ UNCHANGED <<oldSeq, data1, data2, reads, writes>>

(* The n-th call of write() writes the pair <<n, n>>.                      *)
Write_Call(t) ==
  /\ pc[t] \in {"idle", "returned"}
  /\ MoveTo(t, "writeSeq")
  /\ writes < MaxWrites
  /\ writes' = writes + 1
  /\ data1' = [data1 EXCEPT ![t] = writes + 1]
  /\ data2' = [data2 EXCEPT ![t] = writes + 1]
  /\ UNCHANGED <<hist, cur, acq, rel, sc, oldSeq, reads>>

Write_LoadSeq(t) ==
  /\ pc[t] = "writeSeq"
  /\ \E i \in Readable(t, Seq_, OrderWriteSeq) :
       /\ Load(t, Seq_, i, OrderWriteSeq)
       /\ oldSeq' = [oldSeq EXCEPT ![t] = Val(Seq_, i)]
       /\ MoveTo(t, IF WriteInProgress(Val(Seq_, i)) THEN "writeSeq" ELSE "cas")
  /\ UNCHANGED <<data1, data2, reads, writes>>

(* Mutant of Write_WinCAS: a plain store takes the place of the CAS.       *)
StoreOddSeq(t) ==
  /\ Goto(t, "cas", "writeFence")
  /\ Store(t, Seq_, Increment(oldSeq[t]), relaxed)
  /\ UNCHANGED <<oldSeq, data1, data2, reads, writes>>

(* The compare_exchange finds the sequence unchanged.                      *)
Write_WinCAS(t) ==
  /\ Goto(t, "cas", "writeFence")
  /\ \E i \in Extendable(t, Seq_, relaxed) :
       /\ Val(Seq_, i) = oldSeq[t]
       /\ ReadModifyWrite(t, Seq_, i, Increment(oldSeq[t]), relaxed)
  /\ UNCHANGED <<oldSeq, data1, data2, reads, writes>>

(* Mutant of Write_LoseCAS: the writer gives up after a failed CAS.        *)
GiveUp(t) ==
  /\ Goto(t, "cas", "idle")
  /\ \E i \in Readable(t, Seq_, relaxed) :
       /\ Val(Seq_, i) # oldSeq[t]
       /\ Load(t, Seq_, i, relaxed)
  /\ UNCHANGED <<oldSeq, data1, data2, reads, writes>>

(* It fails, and the loop loads the sequence again.                        *)
Write_LoseCAS(t) ==
  /\ Goto(t, "cas", "writeSeq")
  /\ \E i \in Readable(t, Seq_, relaxed) :
       /\ Val(Seq_, i) # oldSeq[t]
       /\ Load(t, Seq_, i, relaxed)
  /\ UNCHANGED <<oldSeq, data1, data2, reads, writes>>

Write_Fence(t) ==
  /\ Goto(t, "writeFence", "storeData1")
  /\ Fence(t, OrderWriteFence, {})
  /\ UNCHANGED <<oldSeq, data1, data2, reads, writes>>

Write_StoreData1(t) ==
  /\ Goto(t, "storeData1", "storeData2")
  /\ Store(t, Data1, data1[t], relaxed)
  /\ UNCHANGED <<oldSeq, data1, data2, reads, writes>>

Write_StoreData2(t) ==
  /\ Goto(t, "storeData2", "publish")
  /\ Store(t, Data2, data2[t], relaxed)
  /\ UNCHANGED <<oldSeq, data1, data2, reads, writes>>

Write_Publish(t) ==
  /\ Goto(t, "publish", "idle")
  /\ \E i \in Extendable(t, Seq_, OrderPublish) :
       ReadModifyWrite(t, Seq_, i, Increment(Val(Seq_, i)), OrderPublish)
  /\ UNCHANGED <<oldSeq, data1, data2, reads, writes>>

(* The drivers have made all their calls.                                  *)
Terminated ==
  /\ reads = MaxReads /\ writes = MaxWrites
  /\ \A t \in Thread : pc[t] \in {"idle", "returned"}
  /\ UNCHANGED vars

ReadStep(t) ==
  \/ Read_LoadSeq(t) \/ Read_LoadData1(t) \/ Read_LoadData2(t)
  \/ Read_Fence(t) \/ Read_Recheck(t)

WriteStep(t) ==
  \/ Write_LoadSeq(t) \/ Write_WinCAS(t) \/ Write_LoseCAS(t) \/ Write_Fence(t)
  \/ Write_StoreData1(t) \/ Write_StoreData2(t) \/ Write_Publish(t)

ThreadStep(t) == Read_Call(t) \/ Write_Call(t) \/ ReadStep(t) \/ WriteStep(t)

Next == (\E t \in Thread : ThreadStep(t)) \/ Terminated

Spec == Init /\ [][Next]_vars

(* The scheduler runs every thread that is in a call, and a thread that    *)
(* keeps loading the sequence eventually loads the newest (C11 7.17.3).    *)
LoadsNewest(t) == Event(Seq_, Newest(Seq_)) \in cur'[t]
Fairness ==
  \A t \in Thread :
    /\ WF_vars((Read_LoadSeq(t) \/ Write_LoadSeq(t)) /\ LoadsNewest(t))
    /\ WF_vars(Read_LoadData1(t) \/ Read_LoadData2(t) \/ Read_Fence(t) \/ Read_Recheck(t))
    /\ WF_vars(Write_WinCAS(t) \/ Write_LoseCAS(t) \/ Write_Fence(t) \/ Write_StoreData1(t)
                 \/ Write_StoreData2(t) \/ Write_Publish(t))

FairSpec == Spec /\ Fairness

-----------------------------------------------------------------------------

(* The values the declarations of seqlock.h and the control flow allow.    *)
TypeOK ==
  /\ pc \in [Thread -> {"idle", "returned", "readSeq", "readData1", "readData2", "readFence",
                        "recheck", "writeSeq", "cas", "writeFence", "storeData1",
                        "storeData2", "publish"}]
  /\ oldSeq \in [Thread -> (-IntMax - 1)..IntMax]
  /\ data1 \in [Thread -> 0..MaxWrites] /\ data2 \in [Thread -> 0..MaxWrites]
  /\ \A t \in Thread : pc[t] \in {"readData1", "readData2", "cas"} => oldSeq[t] % 2 = 0

(* read() never returns one half of a write with the other half of         *)
(* another: the JustifyingPrecondition of read().                          *)
ReadIsConsistent == \A t \in Thread : pc[t] = "returned" => data1[t] = data2[t]

(* read() returns the write its sequence number stands for: the k-th store *)
(* to both words, when it saw the sequence 2k.  So the words and the       *)
(* sequence agree on the order of the writes.                              *)
Version(t) == oldSeq[t] \div 2 + 1
ReadIsVersion ==
  \A t \in Thread :
    pc[t] = "returned" =>
      /\ Version(t) <= Newest(Data1) /\ data1[t] = Val(Data1, Version(t))
      /\ Version(t) <= Newest(Data2) /\ data2[t] = Val(Data2, Version(t))

(* The sequence counts the writes: it is twice their number, and one more  *)
(* while a writer is at work; the words are one store behind until then.   *)
Behind(at) == Cardinality({t \in Thread : pc[t] \in at})
SequenceCountsWrites ==
  /\ Val(Seq_, Newest(Seq_)) =
       2 * (Newest(Data1) - 1 + Behind({"writeFence", "storeData1"}))
         - Behind({"writeFence", "storeData1", "storeData2", "publish"})
  /\ Newest(Data1) = Newest(Data2) + Behind({"storeData2"})

(* When the writers are done, read() returns; and every write() gets to    *)
(* publish, as each failed attempt means that another one has succeeded.   *)
CallsReturn ==
  \A t \in Thread :
    /\ pc[t] = "readSeq" ~> pc[t] = "returned"
    /\ pc[t] = "writeSeq" ~> pc[t] = "publish"
=============================================================================
