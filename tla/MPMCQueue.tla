----------------------------- MODULE MPMCQueue -----------------------------
(***************************************************************************)
(* mpmc-queue/mpmc-queue.cc on the C11 memory: a ring of bins.  m_rdwr     *)
(* counts the reads and the writes that have started, m_read and m_written *)
(* count those that have completed.  The threads write and read as those   *)
(* of the drivers do, any number of times.                                 *)
(***************************************************************************)
EXTENDS C11Memory, FiniteSets

CONSTANTS
  Writer, Reader,  \* the threads that write and those that read
  t_size,          \* the number of bins
  CountRange,      \* the values of a counter: 2^16
  Started,         \* the writes, all read again, before the run
  MaxWrites,       \* bounds: calls of write_prepare() and read_fetch() in a run
  MaxReads

ASSUME MPMCAssumption ==
  /\ Writer \cup Reader = Thread
  /\ t_size \in Nat \ {0} /\ CountRange \in Nat
  /\ CountRange % t_size = 0 /\ CountRange > 2 * t_size
  /\ Started \in Nat
  /\ MaxWrites \in Nat /\ MaxReads \in Nat
  /\ AcquireFences = FALSE

(* The counters may wrap in a run, but none comes round to where it began: *)
(* a thread would take a value it has read before for the same value.      *)
ASSUME NoFullTurn == MaxWrites < CountRange

VARIABLES
  rdwr,    \* thread -> the local rdwr, a record of its halves rd and wr
  writes,  \* calls of write_prepare() so far
  reads,   \* calls of read_fetch() so far
  got      \* thread -> the item it read last

vars == <<hist, cur, acq, rel, sc, pc, rdwr, writes, reads, got>>

RdWr == <<"m_rdwr">>
Read == <<"m_read">>
Written == <<"m_written">>
Bin == 0..(t_size - 1)
Element(k) == <<"m_array", k>>
ReadsOf(k) == <<"reads", k>>  \* the reads of a bin, for the races with later writes
Loc == {RdWr, Read, Written} \cup {Element(k) : k \in Bin} \cup {ReadsOf(k) : k \in Bin}

(* The memory orders, one per operation.                                   *)
OrderFetchLoad == acquire
OrderFetchCAS == acq_rel

(* Mutant of OrderFetchWait: injection #3.                                 *)
OrderFetchWaitRelaxed == relaxed

OrderFetchWait == acquire
OrderConsume == release
OrderPrepareLoad == acquire
OrderPrepareCAS == acq_rel
OrderPrepareWait == acquire
OrderPublish == release

(* The counters of an empty queue that has been in use.                    *)
Init ==
  /\ MemInit([x \in Loc |->
       CASE x = RdWr -> [rd |-> Started % CountRange, wr |-> Started % CountRange]
         [] x \in {Read, Written} -> Started % CountRange
         [] OTHER -> 0])
  /\ pc = [t \in Thread |-> "idle"]
  /\ rdwr = [t \in Thread |-> [rd |-> 0, wr |-> 0]]
  /\ writes = 0 /\ reads = 0
  /\ got = [t \in Thread |-> 0]

(* Mutant of Plus: the sums are not masked.                                *)
PlusUnmasked(m, n) == m + n

Plus(m, n) == (m + n) % CountRange

Empty(v) == v.wr = v.rd
Full(v) == v.wr = Plus(v.rd, t_size)

ClaimWith(t, v, ord) ==
  \E i \in Extendable(t, RdWr, ord) :
    Val(RdWr, i) = rdwr[t] /\ ReadModifyWrite(t, RdWr, i, v, ord)

(* while ((x.load(ord) & 0xFFFF) != n) thrd_yield();                       *)
Await(t, x, n, ord, to) ==
  \E i \in Readable(t, x, ord) :
    /\ Load(t, x, i, ord)
    /\ pc' = IF Val(x, i) = n THEN [pc EXCEPT ![t] = to] ELSE pc

Increment(t, x, ord) ==
  \E i \in Extendable(t, x, ord) : ReadModifyWrite(t, x, i, Plus(Val(x, i), 1), ord)

(* The n-th write after Started, counted from 1, writes the item n.        *)
Item(n) == Plus(n, CountRange - (Started % CountRange)) + 1

(* The bin that write_prepare() or read_fetch() returns.                   *)
WriteBin(t) == rdwr[t].wr % t_size
ReadBin(t) == rdwr[t].rd % t_size

(* ---- write_prepare, write_publish ------------------------------------- *)

(* The load of m_rdwr, at the call and when the weak compare_exchange      *)
(* fails, for whatever reason; NULL if the queue is full.                  *)
Prepare_LoadRdWr(t) ==
  \E i \in Readable(t, RdWr, OrderPrepareLoad) :
    /\ Load(t, RdWr, i, OrderPrepareLoad)
    /\ rdwr' = [rdwr EXCEPT ![t] = Val(RdWr, i)]
    /\ MoveTo(t, IF Full(Val(RdWr, i)) THEN "idle" ELSE "claimBin")

Prepare_Call(t) ==
  /\ pc[t] = "idle"
  /\ t \in Writer
  /\ writes < MaxWrites
  /\ writes' = writes + 1
  /\ Prepare_LoadRdWr(t)
  /\ UNCHANGED <<reads, got>>

Prepare_Claim(t) ==
  /\ Goto(t, "claimBin", "awaitReads")
  /\ ClaimWith(t, [rdwr[t] EXCEPT !.wr = Plus(@, 1)], OrderPrepareCAS)
  /\ UNCHANGED <<rdwr, writes, reads, got>>

Prepare_Retry(t) ==
  /\ pc[t] = "claimBin"
  /\ Prepare_LoadRdWr(t)
  /\ UNCHANGED <<writes, reads, got>>

(* Mutant of Prepare_AwaitReads: a bin is free once its read has started.   *)
WriteAtOnce(t) ==
  /\ Goto(t, "awaitReads", "write")
  /\ UNCHANGED memVars
  /\ UNCHANGED <<rdwr, writes, reads, got>>

Prepare_AwaitReads(t) ==
  /\ pc[t] = "awaitReads"
  /\ Await(t, Read, rdwr[t].rd, OrderPrepareWait, "write")
  /\ UNCHANGED <<rdwr, writes, reads, got>>

(* The store to the bin that the drivers have commented out.               *)
WriteElement(t) ==
  /\ Goto(t, "write", "publish")
  /\ Store(t, Element(WriteBin(t)), Item(rdwr[t].wr), relaxed)
  /\ UNCHANGED <<rdwr, writes, reads, got>>

Publish(t) ==
  /\ Goto(t, "publish", "idle")
  /\ Increment(t, Written, OrderPublish)
  /\ UNCHANGED <<rdwr, writes, reads, got>>

(* ---- read_fetch, read_consume ----------------------------------------- *)

(* As above; NULL if the queue is empty.                                   *)
Fetch_LoadRdWr(t) ==
  \E i \in Readable(t, RdWr, OrderFetchLoad) :
    /\ Load(t, RdWr, i, OrderFetchLoad)
    /\ rdwr' = [rdwr EXCEPT ![t] = Val(RdWr, i)]
    /\ MoveTo(t, IF Empty(Val(RdWr, i)) THEN "idle" ELSE "claimItem")

Fetch_Call(t) ==
  /\ pc[t] = "idle"
  /\ t \in Reader
  /\ reads < MaxReads
  /\ reads' = reads + 1
  /\ Fetch_LoadRdWr(t)
  /\ UNCHANGED <<writes, got>>

Fetch_Claim(t) ==
  /\ Goto(t, "claimItem", "awaitWrites")
  /\ ClaimWith(t, [rdwr[t] EXCEPT !.rd = Plus(@, 1)], OrderFetchCAS)
  /\ UNCHANGED <<rdwr, writes, reads, got>>

Fetch_Retry(t) ==
  /\ pc[t] = "claimItem"
  /\ Fetch_LoadRdWr(t)
  /\ UNCHANGED <<writes, reads, got>>

(* Mutant of Fetch_AwaitWrites: a bin is full once its write has started.   *)
ReadAtOnce(t) ==
  /\ Goto(t, "awaitWrites", "read")
  /\ UNCHANGED memVars
  /\ UNCHANGED <<rdwr, writes, reads, got>>

Fetch_AwaitWrites(t) ==
  /\ pc[t] = "awaitWrites"
  /\ Await(t, Written, rdwr[t].wr, OrderFetchWait, "read")
  /\ UNCHANGED <<rdwr, writes, reads, got>>

(* The load from the bin that the drivers have commented out.              *)
ReadElement(t) ==
  /\ Goto(t, "read", "consume")
  /\ \E i \in Readable(t, Element(ReadBin(t)), relaxed) :
       got' = [got EXCEPT ![t] = Val(Element(ReadBin(t)), i)]
  /\ Store(t, ReadsOf(ReadBin(t)), 0, relaxed)
  /\ UNCHANGED <<rdwr, writes, reads>>

Consume(t) ==
  /\ Goto(t, "consume", "idle")
  /\ Increment(t, Read, OrderConsume)
  /\ UNCHANGED <<rdwr, writes, reads, got>>

(* The drivers have made all their calls.                                  *)
Terminated ==
  /\ writes = MaxWrites /\ reads = MaxReads
  /\ \A t \in Thread : pc[t] = "idle"
  /\ UNCHANGED vars

Write(t) ==
  \/ Prepare_Call(t) \/ Prepare_Claim(t) \/ Prepare_Retry(t) \/ Prepare_AwaitReads(t)
  \/ WriteElement(t) \/ Publish(t)

Fetch(t) ==
  \/ Fetch_Call(t) \/ Fetch_Claim(t) \/ Fetch_Retry(t) \/ Fetch_AwaitWrites(t)
  \/ ReadElement(t) \/ Consume(t)

Next == (\E t \in Thread : Write(t) \/ Fetch(t)) \/ Terminated

Spec == Init /\ [][Next]_vars

(* The scheduler runs every thread that is in a call; a thread that keeps  *)
(* loading a counter eventually loads the newest (C11 7.17.3), and its     *)
(* weak compare_exchange does not fail for ever without a cause.           *)
LoadsNewest(t, x) == Event(x, Newest(x)) \in cur'[t]
Fairness ==
  \A t \in Thread :
    /\ WF_vars(Prepare_AwaitReads(t) /\ LoadsNewest(t, Read))
    /\ WF_vars(Fetch_AwaitWrites(t) /\ LoadsNewest(t, Written))
    /\ WF_vars(Prepare_Claim(t) \/ WriteElement(t) \/ Publish(t))
    /\ WF_vars(Fetch_Claim(t) \/ ReadElement(t) \/ Consume(t))

FairSpec == Spec /\ Fairness

-----------------------------------------------------------------------------
Current(x) == Val(x, Newest(x))

(* The counters stay within their halves of m_rdwr, and never more writes  *)
(* have started than bins are free.                                        *)
TypeOK ==
  /\ Current(RdWr) \in [rd : 0..(CountRange - 1), wr : 0..(CountRange - 1)]
  /\ Current(Read) \in 0..(CountRange - 1) /\ Current(Written) \in 0..(CountRange - 1)
  /\ (Current(RdWr).wr + CountRange - Current(RdWr).rd) % CountRange \in 0..t_size

(* The bin a thread has been given and not yet published or consumed.      *)
Holds(t, k) ==
  \/ pc[t] \in {"write", "publish"} /\ WriteBin(t) = k
  \/ pc[t] \in {"read", "consume"} /\ ReadBin(t) = k

(* A bin is in the hands of one thread at a time: the publication of a bin *)
(* and its fetch, its consumption and its next preparation are ordered, as *)
(* the @Commutativity annotations of mpmc-queue.cc ask.                    *)
BinHasOneHolder ==
  \A t, u \in Thread, k \in Bin : Holds(t, k) /\ Holds(u, k) => t = u

(* A thread that is given a bin has seen every write to it, a writer also  *)
(* every read of it, and what a reader finds there is the item that was    *)
(* written in its turn: first in, first out, each item once.               *)
BinIsHandedOver ==
  \A t \in Thread :
    /\ pc[t] = "read" => Synchronized(t, Element(ReadBin(t)))
    /\ pc[t] = "write" => /\ Synchronized(t, Element(WriteBin(t)))
                          /\ Synchronized(t, ReadsOf(WriteBin(t)))
    /\ pc[t] = "consume" => got[t] = Item(rdwr[t].rd)

(* The waits for m_read and m_written to equal a value end: no operation   *)
(* that would carry the counter past the value can complete before.        *)
WaitsEnd ==
  \A t \in Thread : pc[t] \in {"awaitReads", "awaitWrites"} ~> pc[t] \in {"write", "read"}
=============================================================================
