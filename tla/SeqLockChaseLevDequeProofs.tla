--------------------- MODULE SeqLockChaseLevDequeProofs ---------------------
(***************************************************************************)
(* Proofs about SeqLock, for every set of threads and any number of calls, *)
(* as long as the sequence does not wrap (NoWrap); and, in its second      *)
(* half, about ChaseLevDeque, for every set of thieves and any number of   *)
(* calls, as long as take() follows the first push() (TakeWhenNew) and     *)
(* newArray is installed once (ResizesOnce).                               *)
(***************************************************************************)
EXTENDS SeqLock, ChaseLevDeque, C11MemoryProofs, FiniteSetTheorems

NoWrap == 2 * MaxWrites <= IntMax

InsideLabel == {"writeFence", "storeData1", "storeData2", "publish"}
CallLabel == {"writeSeq", "cas"} \cup InsideLabel
VersionLabel == {"readData1", "readData2", "readFence", "recheck", "returned", "cas"}
Label == {"idle", "readSeq"} \cup VersionLabel \cup CallLabel

Inside == {t \in Thread : pc[t] \in InsideLabel}
InCall == {t \in Thread : pc[t] \in CallLabel}

(* The inductive invariant.  Types: of the memory and of the locals.       *)
Types ==
  /\ MemType(Loc, Int)
  /\ \A l \in {Data1, Data2} : \A i \in 1..Newest(l) : Val(l, i) \in 0..MaxWrites
  /\ pc \in [Thread -> Label]
  /\ oldSeq \in [Thread -> 0..IntMax]
  /\ data1 \in [Thread -> 0..MaxWrites] /\ data2 \in [Thread -> 0..MaxWrites]
  /\ writes \in 0..MaxWrites

(* Chain: the sequence counts up by read-modify-writes, one after the      *)
(* other; all locations are written in the order of their histories.       *)
Chain ==
  /\ \A l \in Loc : Linear(l)
  /\ \A k \in 2..Newest(Seq_) : hist[Seq_][k].kind = "rmw"
  /\ \A k \in 1..Newest(Seq_) : Val(Seq_, k) = k - 1

(* Words: one writer is inside, and how far it has come is in the lengths  *)
(* of the histories.                                                       *)
Words ==
  /\ \A t, u \in Inside : t = u
  /\ Inside = {} =>
       Newest(Seq_) = 2 * Newest(Data1) - 1 /\ Newest(Data2) = Newest(Data1)
  /\ \A t \in Thread :
       /\ pc[t] \in {"writeFence", "storeData1"} =>
            Newest(Seq_) = 2 * Newest(Data1) /\ Newest(Data2) = Newest(Data1)
       /\ pc[t] = "storeData2" =>
            Newest(Seq_) = 2 * Newest(Data1) - 2 /\ Newest(Data2) = Newest(Data1) - 1
       /\ pc[t] = "publish" =>
            Newest(Seq_) = 2 * Newest(Data1) - 2 /\ Newest(Data2) = Newest(Data1)

(* Calls: each call of write() adds two to the sequence.                   *)
Calls ==
  /\ IsFiniteSet(InCall)
  /\ 2 * Cardinality(InCall) + Newest(Seq_) - 1 = 2 * writes + (IF Inside = {} THEN 0 ELSE 1)

(* Carrying: a sequence number carries the words of its version.           *)
Carries(k) ==
  \A j \in 2..(k + 1) :
    2 * j <= k + 1 => <<Data1, j>> \in hist[Seq_][k].view /\ <<Data2, j>> \in hist[Seq_][k].view
Carrying == \A k \in 1..Newest(Seq_) : Carries(k)

(* Marking: a word carries the odd sequence number it was written under.   *)
Marks(l, i) == <<Seq_, 2 * i - 2>> \in hist[l][i].view
Marking == \A l \in {Data1, Data2} : \A i \in 2..Newest(l) : Marks(l, i)

(* Writing: the writer inside has seen all, and its release fence covers   *)
(* the odd number.                                                         *)
Knows(t, l) == \A j \in 1..Newest(l) : <<l, j>> \in cur[t]
WritesWell(t) ==
  /\ pc[t] \in InsideLabel =>
       Knows(t, Data1) /\ Knows(t, Data2) /\ <<Seq_, Newest(Seq_)>> \in cur[t]
  /\ pc[t] \in {"storeData1", "storeData2"} => <<Seq_, Newest(Seq_)>> \in rel[t]

(* Reading: who has accepted a sequence number has seen the words of its   *)
(* version; what it then reads is that version, or newer, and then it has  *)
(* or is about to have seen that the sequence has moved on.                *)
HasVersion(t) ==
  \A j \in 1..(oldSeq[t] + 2) :
    2 * j <= oldSeq[t] + 2 => <<Data1, j>> \in cur[t] /\ <<Data2, j>> \in cur[t]
Overtaken(t, view) == \E n \in 1..Newest(Seq_) : n > oldSeq[t] + 1 /\ <<Seq_, n>> \in view
Good1(t) == data1[t] = Val(Data1, Version(t))
Good2(t) == data2[t] = Val(Data2, Version(t))
ReadsWell(t) ==
  /\ pc[t] \in VersionLabel =>
       oldSeq[t] <= Newest(Seq_) - 1 /\ oldSeq[t] % 2 = 0 /\ HasVersion(t)
  /\ pc[t] \in {"readData2", "readFence"} => Good1(t) \/ Overtaken(t, cur[t] \cup acq[t])
  /\ pc[t] = "readFence" => Good2(t) \/ Overtaken(t, cur[t] \cup acq[t])
  /\ pc[t] = "recheck" => (Good1(t) /\ Good2(t)) \/ Overtaken(t, cur[t])
  /\ pc[t] = "returned" => Good1(t) /\ Good2(t)

IInv ==
  /\ Types /\ Chain /\ Words /\ Calls /\ Carrying /\ Marking
  /\ \A t \in Thread : <<Seq_, 1>> \in cur[t] /\ <<Data1, 1>> \in cur[t] /\ <<Data2, 1>> \in cur[t]
  /\ \A t \in Thread : WritesWell(t) /\ ReadsWell(t)

-----------------------------------------------------------------------------
LEMMA Locations ==
  /\ Seq_ \in Loc /\ Data1 \in Loc /\ Data2 \in Loc
  /\ Seq_ # Data1 /\ Seq_ # Data2 /\ Data1 # Data2
BY DEF Loc, Seq_, Data1, Data2

(* Lengths of the histories are positive numbers.                          *)
LEMMA Lengths ==
  ASSUME Types, NEW l \in Loc
  PROVE  Newest(l) \in Nat /\ Newest(l) >= 1
BY LenProperties DEF Types, MemType, Newest

(* Of a history in linear order, the events are the positions.             *)
LEMMA Events_ ==
  ASSUME IInv, NEW l \in Loc, NEW j \in 1..Newest(l)
  PROVE  Event(l, j) = <<l, j>>
BY DEF IInv, Chain, Linear, Event, Newest

(* The version of an even sequence number.                                 *)
LEMMA Versions ==
  ASSUME NEW t, oldSeq[t] \in Nat, oldSeq[t] % 2 = 0
  PROVE  Version(t) \in Nat /\ Version(t) >= 1 /\ 2 * Version(t) = oldSeq[t] + 2
BY DEF Version

(* A version a thread has accepted has been written.                       *)
LEMMA VersionWritten ==
  ASSUME IInv, NEW t \in Thread, pc[t] \in VersionLabel
  PROVE  /\ Version(t) \in Nat /\ Version(t) >= 1 /\ 2 * Version(t) = oldSeq[t] + 2
         /\ Version(t) <= Newest(Data1) /\ Version(t) <= Newest(Data2)
<1>1. /\ oldSeq[t] \in Nat /\ oldSeq[t] % 2 = 0 /\ oldSeq[t] <= Newest(Seq_) - 1
  <2>1. oldSeq[t] \in 0..IntMax /\ IntMax \in Nat
    BY SeqLockAssumption DEF IInv, Types
  <2>2. oldSeq[t] % 2 = 0 /\ oldSeq[t] <= Newest(Seq_) - 1
    BY DEF IInv, ReadsWell
  <2> QED
    BY <2>1, <2>2
<1>2. Version(t) \in Nat /\ Version(t) >= 1 /\ 2 * Version(t) = oldSeq[t] + 2
  BY <1>1, Versions
<1>3. Newest(Seq_) \in Nat /\ Newest(Data1) \in Nat /\ Newest(Data2) \in Nat
  BY Lengths, Locations DEF IInv
<1>4. \/ Newest(Seq_) = 2 * Newest(Data1) - 1 /\ Newest(Data2) = Newest(Data1)
      \/ Newest(Seq_) = 2 * Newest(Data1) /\ Newest(Data2) = Newest(Data1)
      \/ Newest(Seq_) = 2 * Newest(Data1) - 2 /\ Newest(Data2) = Newest(Data1) - 1
      \/ Newest(Seq_) = 2 * Newest(Data1) - 2 /\ Newest(Data2) = Newest(Data1)
  BY DEF IInv, Words, Inside, InsideLabel
<1> QED
  BY <1>1, <1>2, <1>3, <1>4

(* The sequence stays below its end.                                       *)
LEMMA Bounded ==
  ASSUME IInv, NoWrap
  PROVE  /\ Newest(Seq_) - 1 <= IntMax
         /\ \A t \in InCall : Newest(Seq_) - 1 < IntMax
         /\ \A t \in InCall : Cardinality(InCall) >= 1
<1> DEFINE c == Cardinality(InCall)
           N == Newest(Seq_)
<1>1. /\ N \in Nat /\ c \in Nat /\ writes \in Nat /\ 2 * writes <= IntMax /\ IntMax \in Nat
  BY Lengths, Locations, FS_CardinalityType, SeqLockAssumption DEF IInv, Types, Calls, NoWrap
<1>2. InCall # {} => c >= 1
  BY <1>1, FS_EmptySet DEF IInv, Calls
<1>3. Inside # {} => InCall # {}
  BY DEF Inside, InCall, CallLabel
<1>4. 2 * c + N - 1 = 2 * writes + (IF Inside = {} THEN 0 ELSE 1)
  BY DEF IInv, Calls
<1> HIDE DEF c, N
<1>5. N - 1 <= 2 * writes /\ (InCall # {} => N - 1 < 2 * writes)
  BY <1>1, <1>2, <1>3, <1>4
<1> QED
  BY <1>1, <1>2, <1>5 DEF c, N

-----------------------------------------------------------------------------
(* A step that writes no location: the other threads are as before, and of *)
(* t it has to be shown that its locals are right.                         *)
LEMMA Quiet ==
  ASSUME IInv, NEW t \in Thread, NEW to \in Label, pc' = [pc EXCEPT ![t] = to],
         \/ to \notin InsideLabel /\ pc[t] \notin InsideLabel
         \/ to = "storeData1" /\ pc[t] = "writeFence",
         NEW o \in 0..IntMax, NEW d1 \in 0..MaxWrites, NEW d2 \in 0..MaxWrites,
         oldSeq' = [oldSeq EXCEPT ![t] = o],
         data1' = [data1 EXCEPT ![t] = d1], data2' = [data2 EXCEPT ![t] = d2],
         writes' \in 0..MaxWrites, hist' = hist, MemType(Loc, Int)',
         \A u \in Thread : cur[u] \subseteq cur'[u],
         \A u \in Thread \ {t} : acq'[u] = acq[u] /\ rel'[u] = rel[u],
         Calls', WritesWell(t)', ReadsWell(t)'
  PROVE  IInv'
<1>1. \A l, i : Newest(l)' = Newest(l) /\ Val(l, i)' = Val(l, i)
  BY DEF Newest, Val
<1>2. Types'
  BY <1>1 DEF IInv, Types
<1>3. Chain'
  BY <1>1 DEF IInv, Chain, Linear
<1>4. Inside' = Inside
  BY DEF IInv, Types, Inside, InsideLabel
<1>5. Words'
  <2>1. ASSUME NEW u \in Thread
        PROVE  /\ pc'[u] \in {"writeFence", "storeData1"} => pc[u] \in {"writeFence", "storeData1"}
               /\ pc'[u] = "storeData2" => pc[u] = "storeData2"
               /\ pc'[u] = "publish" => pc[u] = "publish"
    BY DEF IInv, Types, InsideLabel
  <2> QED
    BY <1>1, <1>4, <2>1 DEF IInv, Words
<1>6. Carrying' /\ Marking'
  BY <1>1 DEF IInv, Carrying, Carries, Marking, Marks
<1>7. ASSUME NEW u \in Thread \ {t}
      PROVE  WritesWell(u)' /\ ReadsWell(u)'
  <2>1. /\ pc'[u] = pc[u] /\ oldSeq'[u] = oldSeq[u] /\ data1'[u] = data1[u]
        /\ data2'[u] = data2[u] /\ acq'[u] = acq[u] /\ rel'[u] = rel[u] /\ cur[u] \subseteq cur'[u]
    BY DEF IInv, Types
  <2>2. WritesWell(u)'
    BY <1>1, <2>1 DEF IInv, WritesWell, Knows
  <2>3. HasVersion(u) => HasVersion(u)'
    BY <2>1 DEF HasVersion
  <2>4. /\ Overtaken(u, cur[u]) => Overtaken(u, cur[u])'
        /\ Overtaken(u, cur[u] \cup acq[u]) => Overtaken(u, cur[u] \cup acq[u])'
    BY <1>1, <2>1 DEF Overtaken
  <2>5. (Good1(u) => Good1(u)') /\ (Good2(u) => Good2(u)')
    BY <1>1, <2>1 DEF Good1, Good2, Version
  <2>6. ReadsWell(u)'
    BY <1>1, <2>1, <2>3, <2>4, <2>5 DEF IInv, ReadsWell
  <2> QED
    BY <2>2, <2>6
<1>8. \A u \in Thread :
        <<Seq_, 1>> \in cur'[u] /\ <<Data1, 1>> \in cur'[u] /\ <<Data2, 1>> \in cur'[u]
  BY DEF IInv
<1> QED
  BY <1>2, <1>3, <1>5, <1>6, <1>7, <1>8 DEF IInv

(* A step that starts or ends no call of write() keeps the account.        *)
LEMMA SameCalls ==
  ASSUME IInv, NEW t \in Thread, NEW to \in Label, pc' = [pc EXCEPT ![t] = to],
         to \in InsideLabel <=> pc[t] \in InsideLabel,
         to \in CallLabel <=> pc[t] \in CallLabel,
         writes' = writes, Newest(Seq_)' = Newest(Seq_)
  PROVE  Calls'
<1>1. Inside' = Inside /\ InCall' = InCall
  BY DEF IInv, Types, Inside, InCall
<1> QED
  BY <1>1 DEF IInv, Calls

(* What every load leaves alone, and that views only grow.                 *)
LEMMA Loading ==
  ASSUME IInv, NEW t \in Thread, NEW l \in Loc, NEW i, NEW ord, Load(t, l, i, ord)
  PROVE  /\ i \in 1..Newest(l) /\ hist' = hist /\ MemType(Loc, Int)'
         /\ cur'[t] = Observe(t, l, i, ord) /\ acq'[t] = Pending(t, l, i, ord) /\ rel' = rel
         /\ acq[t] \subseteq acq'[t]
         /\ \A u \in Thread : cur[u] \subseteq cur'[u]
         /\ \A u \in Thread \ {t} : acq'[u] = acq[u] /\ rel'[u] = rel[u]
<1>1. MemType(Loc, Int)
  BY DEF IInv, Types
<1>2. MemType(Loc, Int)' /\ i \in 1..Newest(l)
  BY <1>1, LoadType
<1>3. /\ hist' = hist /\ rel' = rel
      /\ cur' = [cur EXCEPT ![t] = Observe(t, l, i, ord)]
      /\ acq' = [acq EXCEPT ![t] = Pending(t, l, i, ord)]
  BY DEF Load
<1>4. cur[t] \subseteq Observe(t, l, i, ord) /\ acq[t] \subseteq Pending(t, l, i, ord)
  BY DEF Observe, Pending
<1> QED
  BY <1>1, <1>2, <1>3, <1>4 DEF MemType

THEOREM InitInvariant ==
  ASSUME Init
  PROVE  IInv
<1> DEFINE m == Message(1, 0, {}, "store")
<1>1. /\ hist = [l \in Loc |-> <<m>>]
      /\ cur = [t \in Thread |-> {<<l, 1>> : l \in Loc}]
      /\ acq = [t \in Thread |-> {}]
      /\ rel = [t \in Thread |-> {}]
      /\ sc = {}
  BY DEF Init, MemInit
<1>2. /\ pc = [t \in Thread |-> "idle"] /\ oldSeq = [t \in Thread |-> 0]
      /\ data1 = [t \in Thread |-> 0] /\ data2 = [t \in Thread |-> 0] /\ writes = 0
  BY DEF Init
<1>3. m \in Messages(Loc, Int) /\ m.id = 1 /\ m.val = 0
  BY DEF Message, Messages
<1> HIDE DEF m
<1>4. \A l \in Loc : /\ hist[l] = <<m>> /\ hist[l] \in Seq(Messages(Loc, Int))
                     /\ Newest(l) = 1 /\ hist[l][1].id = 1 /\ Val(l, 1) = 0
  BY <1>1, <1>3 DEF Newest, Val
<1>5. IntMax \in Nat /\ MaxWrites \in Nat
  BY SeqLockAssumption
<1>6. Types
  <2>1. MemType(Loc, Int)
    BY <1>1, <1>4 DEF MemType, Events, Newest
  <2>2. \A l \in {Data1, Data2} : \A i \in 1..Newest(l) : Val(l, i) \in 0..MaxWrites
    BY <1>4, <1>5, Locations
  <2> QED
    BY <1>2, <1>5, <2>1, <2>2 DEF Types, Label
<1>7. Chain
  <2>1. \A l \in Loc : Linear(l)
    BY <1>4 DEF Linear, Newest
  <2> QED
    BY <1>4, <2>1, Locations DEF Chain
<1>8. Inside = {} /\ InCall = {}
  BY <1>2 DEF Inside, InCall, InsideLabel, CallLabel
<1>9. Words
  BY <1>2, <1>4, <1>8, Locations DEF Words
<1>10. Calls
  BY <1>2, <1>4, <1>8, Locations, FS_EmptySet DEF Calls
<1>11. Carrying /\ Marking
  BY <1>4, Locations DEF Carrying, Carries, Marking
<1>12. \A t \in Thread : WritesWell(t) /\ ReadsWell(t)
  BY <1>2 DEF WritesWell, ReadsWell, InsideLabel, VersionLabel
<1> QED
  BY <1>1, <1>6, <1>7, <1>9, <1>10, <1>11, <1>12, Locations DEF IInv

-----------------------------------------------------------------------------
(* The acquiring loads of the sequence.                                    *)
LEMMA LoadSeqSteps ==
  ASSUME IInv, NoWrap, NEW t \in Thread, Read_LoadSeq(t) \/ Write_LoadSeq(t)
  PROVE  IInv'
<1>1. PICK i \in Readable(t, Seq_, acquire) :
        /\ Load(t, Seq_, i, acquire)
        /\ oldSeq' = [oldSeq EXCEPT ![t] = Val(Seq_, i)]
        /\ \/ /\ pc[t] = "readSeq"
              /\ MoveTo(t, IF WriteInProgress(Val(Seq_, i)) THEN "readSeq" ELSE "readData1")
           \/ /\ pc[t] = "writeSeq"
              /\ MoveTo(t, IF WriteInProgress(Val(Seq_, i)) THEN "writeSeq" ELSE "cas")
  BY DEF Read_LoadSeq, Write_LoadSeq, OrderReadSeq, OrderWriteSeq
<1>2. UNCHANGED <<data1, data2, writes>>
  BY DEF Read_LoadSeq, Write_LoadSeq
<1>3. /\ i \in 1..Newest(Seq_) /\ hist' = hist /\ MemType(Loc, Int)'
      /\ cur'[t] = Observe(t, Seq_, i, acquire)
      /\ \A u \in Thread : cur[u] \subseteq cur'[u]
      /\ \A u \in Thread \ {t} : acq'[u] = acq[u] /\ rel'[u] = rel[u]
  BY <1>1, Loading, Locations
<1>4. Newest(Seq_) \in Nat /\ Newest(Seq_) - 1 <= IntMax /\ IntMax \in Nat
  BY Bounded, Lengths, Locations, SeqLockAssumption DEF IInv
<1> DEFINE o == Val(Seq_, i)
<1>5. o = i - 1 /\ o \in 0..IntMax /\ o <= Newest(Seq_) - 1
  BY <1>3, <1>4 DEF IInv, Chain
<1> HIDE DEF o
<1>6. PICK to \in {"readSeq", "readData1", "writeSeq", "cas"} :
        /\ pc' = [pc EXCEPT ![t] = to]
        /\ pc[t] \in {"readSeq", "writeSeq"}
        /\ pc[t] = "readSeq" <=> to \in {"readSeq", "readData1"}
        /\ to \in {"readData1", "cas"} => ~WriteInProgress(o)
  BY <1>1 DEF MoveTo, o
<1>7. ~WriteInProgress(o) => o % 2 = 0
  BY <1>5 DEF WriteInProgress
<1>8. pc'[t] = to /\ oldSeq'[t] = o /\ Newest(Seq_)' = Newest(Seq_)
  BY <1>1, <1>3, <1>6 DEF IInv, Types, o, Newest
<1>9. HasVersion(t)'
  <2>1. hist[Seq_][i].view \subseteq cur'[t] /\ cur[t] \subseteq cur'[t]
    BY <1>3 DEF Observe, Acquiring
  <2>2. ASSUME NEW j \in 1..(o + 2), 2 * j <= o + 2
        PROVE  <<Data1, j>> \in cur'[t] /\ <<Data2, j>> \in cur'[t]
    <3>1. CASE j = 1
      BY <2>1, <3>1 DEF IInv
    <3>2. CASE j # 1
      <4>1. j \in 2..(i + 1) /\ 2 * j <= i + 1
        BY <1>3, <1>4, <1>5, <2>2, <3>2
      <4>2. Carries(i)
        BY <1>3 DEF IInv, Carrying
      <4> QED
        BY <2>1, <4>1, <4>2 DEF Carries
    <3> QED
      BY <3>1, <3>2
  <2> QED
    BY <1>8, <2>2 DEF HasVersion
<1>10. WritesWell(t)'
  BY <1>8 DEF WritesWell, InsideLabel
<1>11. ReadsWell(t)'
  BY <1>5, <1>6, <1>7, <1>8, <1>9 DEF ReadsWell, VersionLabel
<1>12. Calls'
  <2>1. /\ to \in Label
        /\ to \in InsideLabel <=> pc[t] \in InsideLabel
        /\ to \in CallLabel <=> pc[t] \in CallLabel
    BY <1>6 DEF Label, InsideLabel, CallLabel, VersionLabel
  <2> QED
    BY <1>2, <1>6, <1>8, <2>1, SameCalls
<1>13. /\ data1' = [data1 EXCEPT ![t] = data1[t]] /\ data1[t] \in 0..MaxWrites
       /\ data2' = [data2 EXCEPT ![t] = data2[t]] /\ data2[t] \in 0..MaxWrites
       /\ writes' \in 0..MaxWrites
  BY <1>2 DEF IInv, Types
<1>14. to \in Label /\ to \notin InsideLabel /\ pc[t] \notin InsideLabel
  BY <1>6 DEF Label, InsideLabel, VersionLabel, CallLabel
<1> QED
  BY <1>1, <1>3, <1>5, <1>6, <1>10, <1>11, <1>12, <1>13, <1>14, Quiet DEF o

(* A relaxed load of a word by a reader finds the version it has accepted, *)
(* or a newer one; of that it gets to know, at its fence, the odd number   *)
(* it was written under.                                                   *)
LEMMA LoadWord ==
  ASSUME IInv, NEW t \in Thread, pc[t] \in VersionLabel, NEW l \in {Data1, Data2},
         NEW i, Load(t, l, i, relaxed)
  PROVE  \/ i = Version(t)
         \/ \E n \in 1..Newest(Seq_) : n > oldSeq[t] + 1 /\ <<Seq_, n>> \in acq'[t]
<1> DEFINE V == Version(t)
<1>1. l \in Loc /\ i \in 1..Newest(l) /\ acq'[t] = Pending(t, l, i, relaxed)
  BY Loading, Locations
<1>2. /\ V \in Nat /\ V >= 1 /\ 2 * V = oldSeq[t] + 2 /\ V <= Newest(l)
  BY VersionWritten
<1>3. oldSeq[t] \in Nat
  BY SeqLockAssumption DEF IInv, Types
<1> HIDE DEF V
<1>4. /\ Newest(Seq_) \in Nat /\ Newest(Data1) \in Nat /\ Newest(Data2) \in Nat
      /\ Newest(l) \in Nat
  BY Lengths, Locations DEF IInv
<1>5. i >= V
  <2>1. V \in 1..(oldSeq[t] + 2) /\ 2 * V <= oldSeq[t] + 2
    BY <1>2, <1>3
  <2>2. HasVersion(t)
    BY DEF IInv, ReadsWell
  <2>3. <<l, V>> \in cur[t]
    BY <2>1, <2>2 DEF HasVersion
  <2>4. Event(l, V) \in Seen(t, relaxed)
    <3>1. V \in 1..Newest(l)
      BY <1>2, <1>4
    <3>2. relaxed # seq_cst
      BY DEF relaxed, seq_cst
    <3> QED
      BY <1>1, <2>3, <3>1, <3>2, Events_ DEF Seen
  <2>5. \A j \in (i + 1)..Newest(l) : Event(l, j) \notin Seen(t, relaxed)
    BY DEF Load, Readable
  <2> QED
    BY <1>1, <1>2, <1>4, <2>4, <2>5
<1>6. ASSUME i # V
      PROVE  \E n \in 1..Newest(Seq_) : n > oldSeq[t] + 1 /\ <<Seq_, n>> \in acq'[t]
  <2>1. i \in 2..Newest(l) /\ i > V
    BY <1>1, <1>2, <1>4, <1>5, <1>6
  <2>2. <<Seq_, 2 * i - 2>> \in hist[l][i].view
    BY <2>1 DEF IInv, Marking, Marks
  <2>3. hist[l][i].view \subseteq acq'[t]
    BY <1>1, SeqLockAssumption DEF Pending, Acquiring, relaxed, acquire, acq_rel, seq_cst
  <2>4. \/ Newest(Seq_) = 2 * Newest(Data1) - 1 /\ Newest(Data2) = Newest(Data1)
        \/ Newest(Seq_) = 2 * Newest(Data1) /\ Newest(Data2) = Newest(Data1)
        \/ Newest(Seq_) = 2 * Newest(Data1) - 2 /\ Newest(Data2) = Newest(Data1) - 1
        \/ Newest(Seq_) = 2 * Newest(Data1) - 2 /\ Newest(Data2) = Newest(Data1)
    BY DEF IInv, Words, Inside, InsideLabel
  <2>5. 2 * i - 2 \in 1..Newest(Seq_) /\ 2 * i - 2 > oldSeq[t] + 1
    BY <1>2, <1>3, <1>4, <2>1, <2>4
  <2> QED
    BY <2>2, <2>3, <2>5
<1> QED
  BY <1>6 DEF V

(* The loads of the words by read().                                       *)
LEMMA LoadWordSteps ==
  ASSUME IInv, NEW t \in Thread, Read_LoadData1(t) \/ Read_LoadData2(t)
  PROVE  IInv'
<1>1. /\ pc[t] \in VersionLabel /\ pc[t] \notin CallLabel /\ UNCHANGED <<oldSeq, writes>>
      /\ pc[t] \in {"readData1", "readData2"}
  BY DEF Read_LoadData1, Read_LoadData2, Goto, VersionLabel, CallLabel, InsideLabel
<1>2. /\ oldSeq' = [oldSeq EXCEPT ![t] = oldSeq[t]] /\ oldSeq[t] \in 0..IntMax
      /\ writes' \in 0..MaxWrites
  BY <1>1 DEF IInv, Types
<1>3. ASSUME NEW l \in {Data1, Data2}, NEW i, Load(t, l, i, relaxed),
             NEW d1 \in 0..MaxWrites, NEW d2 \in 0..MaxWrites,
             data1' = [data1 EXCEPT ![t] = d1], data2' = [data2 EXCEPT ![t] = d2],
             NEW to \in {"readData2", "readFence"}, pc' = [pc EXCEPT ![t] = to],
             Good1(t)' \/ Overtaken(t, cur[t] \cup acq[t])',
             to = "readFence" => Good2(t)' \/ Overtaken(t, cur[t] \cup acq[t])'
      PROVE  IInv'
  <2>1. /\ hist' = hist /\ MemType(Loc, Int)'
        /\ \A u \in Thread : cur[u] \subseteq cur'[u]
        /\ \A u \in Thread \ {t} : acq'[u] = acq[u] /\ rel'[u] = rel[u]
    BY <1>3, Loading, Locations
  <2>2. /\ to \in Label /\ to \notin InsideLabel /\ pc[t] \notin InsideLabel
        /\ to \notin CallLabel /\ to \in VersionLabel
    BY <1>1, <1>3 DEF Label, VersionLabel, CallLabel, InsideLabel
  <2>3. pc'[t] = to /\ Newest(Seq_)' = Newest(Seq_)
    BY <1>3, <2>1 DEF IInv, Types, Newest
  <2>4. Calls'
    BY <1>1, <1>3, <2>2, <2>3, SameCalls
  <2>5. WritesWell(t)'
    BY <1>3, <2>3 DEF WritesWell, InsideLabel
  <2>6. HasVersion(t)'
    BY <1>1, <2>1 DEF IInv, ReadsWell, HasVersion
  <2>7. ReadsWell(t)'
    BY <1>1, <1>3, <2>2, <2>3, <2>6 DEF IInv, ReadsWell
  <2> QED
    BY <1>2, <1>3, <2>1, <2>2, <2>4, <2>5, <2>7, Quiet
<1>4. ASSUME NEW l \in {Data1, Data2}, NEW i, Load(t, l, i, relaxed)
      PROVE  /\ Val(l, i) \in 0..MaxWrites
             /\ \A y, k : Val(y, k)' = Val(y, k)
             /\ Version(t)' = Version(t)
             /\ i = Version(t) \/ Overtaken(t, cur[t] \cup acq[t])'
  <2>1. i \in 1..Newest(l) /\ hist' = hist
    BY <1>4, Loading, Locations
  <2>2. \/ i = Version(t)
        \/ \E n \in 1..Newest(Seq_) : n > oldSeq[t] + 1 /\ <<Seq_, n>> \in acq'[t]
    BY <1>1, <1>4, LoadWord
  <2>3. i = Version(t) \/ Overtaken(t, cur[t] \cup acq[t])'
    BY <1>1, <2>1, <2>2 DEF Overtaken, Newest
  <2>4. Val(l, i) \in 0..MaxWrites
    BY <2>1 DEF IInv, Types
  <2> QED
    BY <1>1, <2>1, <2>3, <2>4 DEF Val, Version
<1>5. CASE Read_LoadData1(t)
  <2>1. PICK i \in Readable(t, Data1, relaxed) :
          Load(t, Data1, i, relaxed) /\ data1' = [data1 EXCEPT ![t] = Val(Data1, i)]
    BY <1>5 DEF Read_LoadData1
  <2>2. data2' = [data2 EXCEPT ![t] = data2[t]] /\ data2[t] \in 0..MaxWrites
    BY <1>5 DEF Read_LoadData1, IInv, Types
  <2>3. pc' = [pc EXCEPT ![t] = "readData2"]
    BY <1>5 DEF Read_LoadData1, Goto, MoveTo
  <2>4. data1'[t] = Val(Data1, i)
    BY <2>1 DEF IInv, Types
  <2>5. Good1(t)' \/ Overtaken(t, cur[t] \cup acq[t])'
    BY <1>4, <2>1, <2>4 DEF Good1
  <2> QED
    BY <1>3, <1>4, <2>1, <2>2, <2>3, <2>5
<1>6. CASE Read_LoadData2(t)
  <2>1. PICK i \in Readable(t, Data2, relaxed) :
          Load(t, Data2, i, relaxed) /\ data2' = [data2 EXCEPT ![t] = Val(Data2, i)]
    BY <1>6 DEF Read_LoadData2
  <2>2. /\ data1' = [data1 EXCEPT ![t] = data1[t]] /\ data1[t] \in 0..MaxWrites
        /\ data1' = data1
    BY <1>6 DEF Read_LoadData2, IInv, Types
  <2>3. pc[t] = "readData2" /\ pc' = [pc EXCEPT ![t] = "readFence"]
    BY <1>6 DEF Read_LoadData2, Goto, MoveTo
  <2>4. data2'[t] = Val(Data2, i)
    BY <2>1 DEF IInv, Types
  <2>5. Good2(t)' \/ Overtaken(t, cur[t] \cup acq[t])'
    BY <1>4, <2>1, <2>4 DEF Good2
  <2>6. Good1(t)' \/ Overtaken(t, cur[t] \cup acq[t])'
    <3>1. Good1(t) \/ Overtaken(t, cur[t] \cup acq[t])
      BY <2>3 DEF IInv, ReadsWell
    <3>2. Good1(t) => Good1(t)'
      BY <1>4, <2>1, <2>2 DEF Good1
    <3>3. Overtaken(t, cur[t] \cup acq[t]) => Overtaken(t, cur[t] \cup acq[t])'
      <4>1. hist' = hist /\ cur[t] \subseteq cur'[t] /\ acq[t] \subseteq acq'[t]
        BY <2>1, Loading, Locations
      <4> QED
        BY <1>1, <4>1 DEF Overtaken, Newest
    <3> QED
      BY <3>1, <3>2, <3>3
  <2> QED
    BY <1>3, <1>4, <2>1, <2>2, <2>3, <2>5, <2>6
<1> QED
  BY <1>5, <1>6

(* The acquire fence of read().                                            *)
LEMMA ReadFenceStep ==
  ASSUME IInv, NEW t \in Thread, Read_Fence(t)
  PROVE  IInv'
<1>1. /\ pc[t] = "readFence" /\ pc' = [pc EXCEPT ![t] = "recheck"]
      /\ UNCHANGED <<oldSeq, data1, data2, writes>>
  BY DEF Read_Fence, Goto, MoveTo
<1>2. /\ cur' = [cur EXCEPT ![t] = @ \cup acq[t]]
      /\ acq' = [acq EXCEPT ![t] = {}]
      /\ UNCHANGED <<hist, rel, sc>>
  <2>1. Fence(t, acquire, {})
    BY DEF Read_Fence, OrderReadFence
  <2>2. AcquireFence(t)
    BY <2>1 DEF Fence, relaxed, acquire, release, acq_rel, seq_cst
  <2> QED
    BY <2>2 DEF AcquireFence
<1>3. MemType(Loc, Int)'
  BY <1>2 DEF IInv, Types, MemType
<1>4. /\ cur'[t] = cur[t] \cup acq[t]
      /\ \A u \in Thread : cur[u] \subseteq cur'[u]
      /\ \A u \in Thread \ {t} : acq'[u] = acq[u] /\ rel'[u] = rel[u]
  BY <1>2 DEF IInv, Types, MemType
<1>5. /\ oldSeq' = [oldSeq EXCEPT ![t] = oldSeq[t]] /\ oldSeq[t] \in 0..IntMax
      /\ data1' = [data1 EXCEPT ![t] = data1[t]] /\ data1[t] \in 0..MaxWrites
      /\ data2' = [data2 EXCEPT ![t] = data2[t]] /\ data2[t] \in 0..MaxWrites
      /\ writes' \in 0..MaxWrites /\ pc'[t] = "recheck"
  BY <1>1 DEF IInv, Types
<1>6. /\ "recheck" \in Label /\ "recheck" \notin InsideLabel /\ pc[t] \notin InsideLabel
      /\ "recheck" \notin CallLabel /\ pc[t] \notin CallLabel
      /\ "recheck" \in VersionLabel /\ pc[t] \in VersionLabel
  BY <1>1 DEF Label, InsideLabel, CallLabel, VersionLabel
<1>7. Calls'
  BY <1>1, <1>2, <1>6, SameCalls DEF Newest
<1>8. WritesWell(t)'
  BY <1>5, <1>6 DEF WritesWell
<1>9. ReadsWell(t)'
  <2>1. HasVersion(t)'
    BY <1>1, <1>4, <1>6 DEF IInv, ReadsWell, HasVersion
  <2>2. \/ Good1(t) /\ Good2(t)
        \/ Overtaken(t, cur[t] \cup acq[t])
    BY <1>1 DEF IInv, ReadsWell
  <2>3. (Good1(t) => Good1(t)') /\ (Good2(t) => Good2(t)')
    BY <1>1, <1>2 DEF Good1, Good2, Val, Version
  <2>4. Overtaken(t, cur[t] \cup acq[t]) => Overtaken(t, cur[t])'
    BY <1>1, <1>2, <1>4 DEF Overtaken, Newest
  <2>5. oldSeq'[t] <= Newest(Seq_)' - 1 /\ oldSeq'[t] % 2 = 0
    BY <1>1, <1>2, <1>6 DEF IInv, ReadsWell, Newest
  <2> QED
    BY <1>5, <2>1, <2>2, <2>3, <2>4, <2>5 DEF ReadsWell
<1> QED
  BY <1>1, <1>2, <1>3, <1>4, <1>5, <1>6, <1>7, <1>8, <1>9, Quiet

(* The second load of the sequence by read(): if it is the first one again,*)
(* the reader has not seen a later one, so its words are of one version.   *)
LEMMA RecheckStep ==
  ASSUME IInv, NEW t \in Thread, Read_Recheck(t)
  PROVE  IInv'
<1>1. PICK i \in Readable(t, Seq_, relaxed) :
        /\ Load(t, Seq_, i, relaxed)
        /\ MoveTo(t, IF Val(Seq_, i) = oldSeq[t] THEN "returned" ELSE "readSeq")
  BY DEF Read_Recheck
<1>2. pc[t] = "recheck" /\ UNCHANGED <<oldSeq, data1, data2, writes>>
  BY DEF Read_Recheck
<1>3. /\ i \in 1..Newest(Seq_) /\ hist' = hist /\ MemType(Loc, Int)'
      /\ \A u \in Thread : cur[u] \subseteq cur'[u]
      /\ \A u \in Thread \ {t} : acq'[u] = acq[u] /\ rel'[u] = rel[u]
  BY <1>1, Loading, Locations
<1>4. PICK to \in {"returned", "readSeq"} :
        pc' = [pc EXCEPT ![t] = to] /\ (to = "returned" => Val(Seq_, i) = oldSeq[t])
  BY <1>1 DEF MoveTo
<1>5. /\ oldSeq' = [oldSeq EXCEPT ![t] = oldSeq[t]] /\ oldSeq[t] \in 0..IntMax
      /\ data1' = [data1 EXCEPT ![t] = data1[t]] /\ data1[t] \in 0..MaxWrites
      /\ data2' = [data2 EXCEPT ![t] = data2[t]] /\ data2[t] \in 0..MaxWrites
      /\ writes' \in 0..MaxWrites /\ pc'[t] = to
  BY <1>2, <1>4 DEF IInv, Types
<1>6. /\ to \in Label /\ to \notin InsideLabel /\ pc[t] \notin InsideLabel
      /\ to \notin CallLabel /\ pc[t] \notin CallLabel /\ pc[t] \in VersionLabel
  BY <1>2, <1>4 DEF Label, InsideLabel, CallLabel, VersionLabel
<1>7. Calls'
  BY <1>2, <1>3, <1>4, <1>6, SameCalls DEF Newest
<1>8. WritesWell(t)'
  BY <1>4, <1>5 DEF WritesWell, InsideLabel
<1>9. ASSUME to = "returned"
      PROVE  Good1(t) /\ Good2(t)
  <2>1. i - 1 = oldSeq[t] /\ Newest(Seq_) \in Nat
    BY <1>3, <1>4, <1>9, Lengths, Locations DEF IInv, Chain
  <2>2. ~Overtaken(t, cur[t])
    <3> SUFFICES ASSUME NEW n \in 1..Newest(Seq_), n > oldSeq[t] + 1, <<Seq_, n>> \in cur[t]
                 PROVE  FALSE
      BY DEF Overtaken
    <3>1. n \in (i + 1)..Newest(Seq_)
      BY <1>3, <2>1
    <3>2. Event(Seq_, n) \notin cur[t]
      BY <1>1, <3>1 DEF Readable, Seen, relaxed, seq_cst
    <3> QED
      BY <3>2, Events_, Locations
  <2> QED
    BY <1>2, <2>2 DEF IInv, ReadsWell
<1>10. ReadsWell(t)'
  <2>1. HasVersion(t)'
    BY <1>2, <1>3, <1>6 DEF IInv, ReadsWell, HasVersion
  <2>2. (Good1(t) => Good1(t)') /\ (Good2(t) => Good2(t)')
    BY <1>2, <1>3 DEF Good1, Good2, Val, Version
  <2>3. oldSeq'[t] <= Newest(Seq_)' - 1 /\ oldSeq'[t] % 2 = 0
    BY <1>2, <1>3, <1>6 DEF IInv, ReadsWell, Newest
  <2> QED
    BY <1>4, <1>5, <1>9, <2>1, <2>2, <2>3 DEF ReadsWell, VersionLabel
<1> QED
  BY <1>3, <1>4, <1>5, <1>6, <1>7, <1>8, <1>10, Quiet

(* The steps of a call that neither read a word nor get in: its start, and *)
(* the failed CAS.                                                         *)
LEMMA OtherSteps ==
  ASSUME IInv, NEW t \in Thread, Read_Call(t) \/ Write_Call(t) \/ Write_LoseCAS(t)
  PROVE  IInv'
<1>1. ASSUME hist' = hist, MemType(Loc, Int)', \A u \in Thread : cur[u] \subseteq cur'[u],
             \A u \in Thread \ {t} : acq'[u] = acq[u] /\ rel'[u] = rel[u], oldSeq' = oldSeq,
             NEW d1 \in 0..MaxWrites, NEW d2 \in 0..MaxWrites,
             data1' = [data1 EXCEPT ![t] = d1], data2' = [data2 EXCEPT ![t] = d2],
             writes' \in 0..MaxWrites, pc[t] \notin InsideLabel,
             NEW to \in {"readSeq", "writeSeq"}, pc' = [pc EXCEPT ![t] = to], Calls'
      PROVE  IInv'
  <2>1. /\ to \in Label /\ to \notin InsideLabel /\ to \notin VersionLabel
        /\ to \notin {"storeData1", "storeData2"}
    BY <1>1 DEF Label, InsideLabel, VersionLabel, CallLabel
  <2>2. pc'[t] = to /\ oldSeq' = [oldSeq EXCEPT ![t] = oldSeq[t]] /\ oldSeq[t] \in 0..IntMax
    BY <1>1 DEF IInv, Types
  <2>3. WritesWell(t)' /\ ReadsWell(t)'
    BY <2>1, <2>2 DEF WritesWell, ReadsWell, VersionLabel
  <2> QED
    BY <1>1, <2>1, <2>2, <2>3, Quiet
<1>2. CASE Read_Call(t)
  <2>1. /\ pc[t] \in {"idle", "returned"} /\ pc' = [pc EXCEPT ![t] = "readSeq"]
        /\ UNCHANGED <<hist, cur, acq, rel, sc, oldSeq, data1, data2, writes>>
    BY <1>2 DEF Read_Call, MoveTo
  <2>2. MemType(Loc, Int)'
    BY <2>1 DEF IInv, Types, MemType
  <2>3. /\ data1' = [data1 EXCEPT ![t] = data1[t]] /\ data1[t] \in 0..MaxWrites
        /\ data2' = [data2 EXCEPT ![t] = data2[t]] /\ data2[t] \in 0..MaxWrites
        /\ writes' \in 0..MaxWrites
    BY <2>1 DEF IInv, Types
  <2>4. /\ "readSeq" \in Label /\ "readSeq" \notin InsideLabel /\ pc[t] \notin InsideLabel
        /\ "readSeq" \notin CallLabel /\ pc[t] \notin CallLabel
    BY <2>1 DEF Label, InsideLabel, CallLabel, VersionLabel
  <2>5. Calls'
    BY <2>1, <2>4, SameCalls DEF Newest
  <2> QED
    BY <1>1, <2>1, <2>2, <2>3, <2>4, <2>5
<1>3. CASE Write_Call(t)
  <2>1. /\ pc[t] \in {"idle", "returned"} /\ pc' = [pc EXCEPT ![t] = "writeSeq"]
        /\ writes < MaxWrites /\ writes' = writes + 1
        /\ data1' = [data1 EXCEPT ![t] = writes + 1]
        /\ data2' = [data2 EXCEPT ![t] = writes + 1]
        /\ UNCHANGED <<hist, cur, acq, rel, sc, oldSeq>>
    BY <1>3 DEF Write_Call, MoveTo
  <2>2. MemType(Loc, Int)'
    BY <2>1 DEF IInv, Types, MemType
  <2>3. writes + 1 \in 0..MaxWrites /\ writes \in Nat
    BY <2>1, SeqLockAssumption DEF IInv, Types
  <2>4. pc[t] \notin InsideLabel
    BY <2>1 DEF InsideLabel
  <2>5. Calls'
    <3>1. InCall' = InCall \cup {t} /\ t \notin InCall /\ Inside' = Inside
      BY <2>1 DEF IInv, Types, InCall, Inside, CallLabel, InsideLabel
    <3>2. IsFiniteSet(InCall) /\ Cardinality(InCall) \in Nat
      BY FS_CardinalityType DEF IInv, Calls
    <3>3. IsFiniteSet(InCall') /\ Cardinality(InCall') = Cardinality(InCall) + 1
      BY <3>1, <3>2, FS_AddElement
    <3>4. Newest(Seq_)' = Newest(Seq_) /\ Newest(Seq_) \in Nat
      BY <2>1, Lengths, Locations DEF IInv, Newest
    <3>5. 2 * Cardinality(InCall) + Newest(Seq_) - 1 = 2 * writes + (IF Inside = {} THEN 0 ELSE 1)
      BY DEF IInv, Calls
    <3>6. 2 * Cardinality(InCall') + Newest(Seq_) - 1
            = 2 * writes' + (IF Inside = {} THEN 0 ELSE 1)
      BY <2>1, <2>3, <3>2, <3>3, <3>4, <3>5
    <3> QED
      BY <3>1, <3>3, <3>4, <3>6 DEF Calls
  <2> QED
    BY <1>1, <2>1, <2>2, <2>3, <2>4, <2>5
<1>4. CASE Write_LoseCAS(t)
  <2>1. PICK i \in Readable(t, Seq_, relaxed) : Load(t, Seq_, i, relaxed)
    BY <1>4 DEF Write_LoseCAS
  <2>2. /\ pc[t] = "cas" /\ pc' = [pc EXCEPT ![t] = "writeSeq"]
        /\ UNCHANGED <<oldSeq, data1, data2, writes>>
    BY <1>4 DEF Write_LoseCAS, Goto, MoveTo
  <2>3. /\ hist' = hist /\ MemType(Loc, Int)' /\ \A u \in Thread : cur[u] \subseteq cur'[u]
        /\ \A u \in Thread \ {t} : acq'[u] = acq[u] /\ rel'[u] = rel[u]
    BY <2>1, Loading, Locations
  <2>4. /\ data1' = [data1 EXCEPT ![t] = data1[t]] /\ data1[t] \in 0..MaxWrites
        /\ data2' = [data2 EXCEPT ![t] = data2[t]] /\ data2[t] \in 0..MaxWrites
        /\ writes' \in 0..MaxWrites
    BY <2>2 DEF IInv, Types
  <2>5. /\ "writeSeq" \in Label /\ "writeSeq" \notin InsideLabel /\ pc[t] \notin InsideLabel
        /\ "writeSeq" \in CallLabel /\ pc[t] \in CallLabel
    BY <2>2 DEF Label, InsideLabel, CallLabel, VersionLabel
  <2>6. Calls'
    BY <2>2, <2>3, <2>5, SameCalls DEF Newest
  <2> QED
    BY <1>1, <2>2, <2>3, <2>4, <2>5, <2>6
<1> QED
  BY <1>2, <1>3, <1>4

-----------------------------------------------------------------------------
(* The release fence of write().                                           *)
LEMMA WriteFenceStep ==
  ASSUME IInv, NEW t \in Thread, Write_Fence(t)
  PROVE  IInv'
<1>1. /\ pc[t] = "writeFence" /\ pc' = [pc EXCEPT ![t] = "storeData1"]
      /\ UNCHANGED <<oldSeq, data1, data2, writes>>
  BY DEF Write_Fence, Goto, MoveTo
<1>2. /\ rel' = [rel EXCEPT ![t] = cur[t]]
      /\ UNCHANGED <<hist, cur, acq, sc>>
  <2>1. Fence(t, release, {})
    BY DEF Write_Fence, OrderWriteFence
  <2>2. ReleaseFence(t)
    BY <2>1 DEF Fence, relaxed, acquire, release, acq_rel, seq_cst
  <2> QED
    BY <2>2 DEF ReleaseFence
<1>3. MemType(Loc, Int)'
  BY <1>2 DEF IInv, Types, MemType
<1>4. rel'[t] = cur[t] /\ \A u \in Thread \ {t} : acq'[u] = acq[u] /\ rel'[u] = rel[u]
  BY <1>2 DEF IInv, Types, MemType
<1>5. /\ oldSeq' = [oldSeq EXCEPT ![t] = oldSeq[t]] /\ oldSeq[t] \in 0..IntMax
      /\ data1' = [data1 EXCEPT ![t] = data1[t]] /\ data1[t] \in 0..MaxWrites
      /\ data2' = [data2 EXCEPT ![t] = data2[t]] /\ data2[t] \in 0..MaxWrites
      /\ writes' \in 0..MaxWrites /\ pc'[t] = "storeData1"
  BY <1>1 DEF IInv, Types
<1>6. /\ "storeData1" \in Label /\ "storeData1" \in InsideLabel /\ pc[t] \in InsideLabel
      /\ "storeData1" \in CallLabel /\ pc[t] \in CallLabel /\ "storeData1" \notin VersionLabel
  BY <1>1 DEF Label, InsideLabel, CallLabel, VersionLabel
<1>7. Calls'
  BY <1>1, <1>2, <1>6, SameCalls DEF Newest
<1>8. WritesWell(t)'
  BY <1>2, <1>4, <1>5, <1>6 DEF IInv, WritesWell, Knows, Newest
<1>9. ReadsWell(t)'
  BY <1>5, <1>6 DEF ReadsWell
<1> QED
  BY <1>1, <1>2, <1>3, <1>4, <1>5, <1>6, <1>7, <1>8, <1>9, Quiet

(* A store to a word by the writer inside goes to the end of its history.  *)
LEMMA StoreWord ==
  ASSUME IInv, NEW t \in Thread, NEW l \in {Data1, Data2}, NEW v \in 0..MaxWrites,
         Store(t, l, v, relaxed), NEW to \in {"storeData2", "publish"},
         pc' = [pc EXCEPT ![t] = to], UNCHANGED <<oldSeq, data1, data2, writes>>,
         \/ pc[t] = "storeData1" /\ l = Data1 /\ to = "storeData2"
         \/ pc[t] = "storeData2" /\ l = Data2 /\ to = "publish"
  PROVE  IInv'
<1> DEFINE N == Newest(l)
           S == Newest(Seq_)
<1>1. l \in Loc /\ l # Seq_ /\ v \in Int /\ MemType(Loc, Int)
  BY Locations, SeqLockAssumption DEF IInv, Types
<1>2. /\ N \in Nat /\ N >= 1 /\ S \in Nat
      /\ Newest(Data1) \in Nat /\ Newest(Data2) \in Nat
  BY <1>1, Lengths, Locations DEF IInv
<1>3. /\ pc[t] \in InsideLabel /\ pc[t] \in CallLabel /\ t \in Inside
      /\ to \in InsideLabel /\ to \in CallLabel /\ to \in Label /\ to \notin VersionLabel
  BY DEF InsideLabel, CallLabel, Inside, Label, VersionLabel
<1>4. /\ Knows(t, Data1) /\ Knows(t, Data2)
      /\ <<Seq_, S>> \in cur[t] /\ <<Seq_, S>> \in rel[t]
  BY <1>3 DEF IInv, WritesWell
<1>5. Event(l, N) \in cur[t]
  BY <1>1, <1>2, <1>4, Events_ DEF Knows
<1>6. /\ Appended(Loc, l)
      /\ hist'[l][N + 1].id = N + 1
      /\ hist'[l][N + 1].val = v
      /\ hist'[l][N + 1].view = Released(t, relaxed)
      /\ cur'[t] = cur[t] \cup Upto(l, N) \cup {NextEvent(l)}
      /\ \A u \in Thread \ {t} : cur'[u] = cur[u]
  BY <1>1, <1>5, StoreAtEnd
<1>7. MemType(Loc, Int)' /\ acq' = acq /\ rel' = rel
  BY <1>1, StoreType DEF Store
<1>8. /\ Newest(l)' = N + 1 /\ \A y \in Loc \ {l} : hist'[y] = hist[y]
      /\ \A k \in 1..N : hist'[l][k] = hist[l][k]
  BY <1>6 DEF Appended, Newest
<1>9. hist'[Seq_] = hist[Seq_] /\ Newest(Seq_)' = S /\ \A k : Val(Seq_, k)' = Val(Seq_, k)
  BY <1>1, <1>8, Locations DEF Newest, Val
<1>10. /\ l = Data1 => Newest(Data2)' = Newest(Data2) /\ \A k : Val(Data2, k)' = Val(Data2, k)
       /\ l = Data2 => Newest(Data1)' = Newest(Data1) /\ \A k : Val(Data1, k)' = Val(Data1, k)
       /\ \A k \in 1..N : Val(l, k)' = Val(l, k)
       /\ \A k : k = N + 1 => Val(l, k)' = v
  <2>1. \A y \in {Data1, Data2} : y # l => Newest(y)' = Newest(y) /\ \A k : Val(y, k)' = Val(y, k)
    BY <1>8, Locations DEF Newest, Val
  <2>2. \A k \in 1..N : Val(l, k)' = Val(l, k)
    BY <1>8 DEF Val
  <2>3. \A k : k = N + 1 => Val(l, k)' = v
    BY <1>6 DEF Val
  <2> QED
    BY <2>1, <2>2, <2>3, Locations
<1>11. \A u \in Thread : cur[u] \subseteq cur'[u]
  BY <1>6
<1>12. \A u \in Inside : u = t
  BY <1>3 DEF IInv, Words
<1>13. Inside' = Inside /\ \A u \in Thread : pc'[u] \in InsideLabel => u = t
  BY <1>3, <1>12 DEF IInv, Types, Inside
<1>14. S = 2 * N
  BY <1>2 DEF IInv, Words
<1> HIDE DEF N, S
<1>15. Types'
  <2>1. ASSUME NEW y \in {Data1, Data2}, NEW k \in 1..Newest(y)'
        PROVE  Val(y, k)' \in 0..MaxWrites
    <3>1. CASE y = l
      <4>1. k \in 1..N \/ k = N + 1
        BY <1>2, <1>8, <2>1, <3>1
      <4> QED
        BY <1>10, <3>1, <4>1 DEF IInv, Types, N
    <3>2. CASE y # l
      BY <1>10, <2>1, <3>2 DEF IInv, Types
    <3> QED
      BY <3>1, <3>2
  <2>2. pc' \in [Thread -> Label]
    BY <1>3 DEF IInv, Types
  <2> QED
    BY <1>7, <2>1, <2>2 DEF IInv, Types
<1>16. Chain'
  <2>1. \A y \in Loc : Linear(y)'
    BY <1>1, <1>6, AppendedLinear DEF IInv, Chain, N
  <2> QED
    BY <1>9, <2>1 DEF IInv, Chain, S
<1>17. Words'
  <2>1. Inside' # {} /\ \A u, w \in Inside' : u = w
    BY <1>3, <1>12, <1>13
  <2>2. pc'[t] = to
    BY DEF IInv, Types
  <2>3. CASE to = "storeData2"
    <3>1. S = 2 * Newest(Data1) /\ Newest(Data2) = Newest(Data1) /\ l = Data1
      BY <2>3 DEF IInv, Words, S
    <3>2. S = 2 * Newest(Data1)' - 2 /\ Newest(Data2)' = Newest(Data1)' - 1
      BY <1>2, <1>8, <1>10, <3>1 DEF N
    <3> QED
      BY <1>9, <1>13, <2>1, <2>2, <2>3, <3>2 DEF Words, InsideLabel
  <2>4. CASE to = "publish"
    <3>1. S = 2 * Newest(Data1) - 2 /\ Newest(Data2) = Newest(Data1) - 1 /\ l = Data2
      BY <2>4 DEF IInv, Words, S
    <3>2. S = 2 * Newest(Data1)' - 2 /\ Newest(Data2)' = Newest(Data1)'
      BY <1>2, <1>8, <1>10, <3>1 DEF N
    <3> QED
      BY <1>9, <1>13, <2>1, <2>2, <2>4, <3>2 DEF Words, InsideLabel
  <2> QED
    BY <2>3, <2>4
<1>18. Calls'
  BY <1>3, <1>9, SameCalls DEF S
<1>19. Carrying'
  BY <1>9 DEF IInv, Carrying, Carries, S
<1>20. Marking'
  <2> SUFFICES ASSUME NEW y \in {Data1, Data2}, NEW k \in 2..Newest(y)'
               PROVE  Marks(y, k)'
    BY DEF Marking
  <2>1. CASE y # l
    <3>1. hist'[y] = hist[y] /\ Newest(y)' = Newest(y)
      BY <1>8, <2>1, Locations DEF Newest
    <3> QED
      BY <3>1 DEF IInv, Marking, Marks
  <2>2. CASE y = l /\ k # N + 1
    <3>1. k \in 2..N /\ k \in 1..N
      BY <1>2, <1>8, <2>2
    <3> QED
      BY <1>8, <2>2, <3>1 DEF IInv, Marking, Marks, N
  <2>3. CASE y = l /\ k = N + 1
    <3>1. 2 * k - 2 = S
      BY <1>2, <1>14, <2>3
    <3>2. hist'[l][k].view = rel[t]
      BY <1>6, <2>3 DEF Released, Releasing, relaxed, release, acq_rel, seq_cst
    <3> QED
      BY <1>4, <2>3, <3>1, <3>2 DEF Marks, S
  <2> QED
    BY <2>1, <2>2, <2>3
<1>21. ASSUME NEW u \in Thread
       PROVE  WritesWell(u)'
  <2>1. CASE u # t
    BY <1>13, <2>1 DEF WritesWell, InsideLabel
  <2>2. CASE u = t
    <3>1. ASSUME NEW y \in {Data1, Data2}
          PROVE  Knows(t, y)'
      <4>1. CASE y # l
        BY <1>4, <1>10, <1>11, <4>1 DEF Knows
      <4>2. CASE y = l
        <5>1. \A j \in 1..(N + 1) : j \in 1..N \/ j = N + 1
          BY <1>2
        <5>2. \A j \in 1..(N + 1) : <<l, j>> \in cur'[t]
          BY <1>4, <1>6, <5>1 DEF Knows, NextEvent, N
        <5> QED
          BY <1>8, <4>2, <5>2 DEF Knows
      <4> QED
        BY <4>1, <4>2
    <3>2. <<Seq_, S>> \in cur'[t] /\ <<Seq_, S>> \in rel'[t]
      BY <1>4, <1>7, <1>11
    <3> QED
      BY <1>9, <2>2, <3>1, <3>2 DEF WritesWell, S
  <2> QED
    BY <2>1, <2>2
<1>22. ASSUME NEW u \in Thread
       PROVE  ReadsWell(u)'
  <2>1. CASE u = t
    BY <1>3, <2>1 DEF ReadsWell, IInv, Types, VersionLabel
  <2>2. CASE u # t
    <3>1. pc'[u] = pc[u] /\ UNCHANGED <<oldSeq, data1, data2, acq>> /\ cur[u] \subseteq cur'[u]
      BY <1>7, <1>11, <2>2 DEF IInv, Types
    <3>2. HasVersion(u) => HasVersion(u)'
      BY <3>1 DEF HasVersion
    <3>3. /\ Overtaken(u, cur[u]) => Overtaken(u, cur[u])'
          /\ Overtaken(u, cur[u] \cup acq[u]) => Overtaken(u, cur[u] \cup acq[u])'
      BY <1>9, <3>1 DEF Overtaken, S
    <3>4. pc[u] \in VersionLabel => (Good1(u) => Good1(u)') /\ (Good2(u) => Good2(u)')
      <4>1. pc[u] \in VersionLabel =>
              /\ Val(Data1, Version(u))' = Val(Data1, Version(u))
              /\ Val(Data2, Version(u))' = Val(Data2, Version(u))
        <5>1. Version(u)' = Version(u)
          BY <3>1 DEF Version
        <5>2. pc[u] \in VersionLabel =>
                Version(u) \in 1..Newest(Data1) /\ Version(u) \in 1..Newest(Data2)
          BY <1>2, VersionWritten
        <5>3. \A y \in {Data1, Data2} : \A k \in 1..Newest(y) : Val(y, k)' = Val(y, k)
          BY <1>10 DEF N
        <5> QED
          BY <5>1, <5>2, <5>3 DEF Val
      <4> QED
        BY <3>1, <4>1 DEF Good1, Good2
    <3>5. ReadsWell(u)
      BY DEF IInv
    <3> QED
      BY <1>9, <3>1, <3>2, <3>3, <3>4, <3>5 DEF ReadsWell, VersionLabel, S
  <2> QED
    BY <2>1, <2>2
<1> QED
  BY <1>11, <1>15, <1>16, <1>17, <1>18, <1>19, <1>20, <1>21, <1>22 DEF IInv

(* The stores of write().                                                  *)
LEMMA StoreSteps ==
  ASSUME IInv, NEW t \in Thread, Write_StoreData1(t) \/ Write_StoreData2(t)
  PROVE  IInv'
<1>1. data1[t] \in 0..MaxWrites /\ data2[t] \in 0..MaxWrites
  BY DEF IInv, Types
<1>2. CASE Write_StoreData1(t)
  BY <1>1, <1>2, StoreWord DEF Write_StoreData1, Goto, MoveTo
<1>3. CASE Write_StoreData2(t)
  BY <1>1, <1>3, StoreWord DEF Write_StoreData2, Goto, MoveTo
<1> QED
  BY <1>2, <1>3

(* A read-modify-write of the sequence by a writer adds one to its newest  *)
(* value.                                                                  *)
LEMMA Advance ==
  ASSUME IInv, NoWrap, NEW t \in InCall, NEW ord, NEW i \in Extendable(t, Seq_, ord),
         ReadModifyWrite(t, Seq_, i, Increment(Val(Seq_, i)), ord)
  PROVE  LET N == Newest(Seq_)
         IN  /\ i = N
             /\ Newest(Seq_)' = N + 1
             /\ \A k \in 1..N : hist'[Seq_][k] = hist[Seq_][k]
             /\ hist'[Seq_][N + 1].val = N
             /\ hist'[Seq_][N + 1].view = Continued(t, Seq_, N, ord)
             /\ \A l \in Loc \ {Seq_} : hist'[l] = hist[l]
             /\ MemType(Loc, Int)' /\ Chain' /\ rel' = rel
             /\ \A u \in Thread : cur[u] \subseteq cur'[u]
             /\ \A u \in Thread \ {t} : acq'[u] = acq[u]
             /\ <<Seq_, N + 1>> \in cur'[t]
<1> DEFINE N == Newest(Seq_)
<1>1. MemType(Loc, Int) /\ N \in Nat /\ N >= 1 /\ Seq_ \in Loc /\ t \in Thread
  BY Lengths, Locations DEF IInv, Types, InCall
<1>2. i = N
  <2>1. i \in 1..N /\ (i < N => hist[Seq_][i + 1].kind # "rmw")
    BY DEF Extendable, Readable
  <2> QED
    BY <1>1, <2>1 DEF IInv, Chain
<1>3. Val(Seq_, N) = N - 1
  BY <1>1 DEF IInv, Chain
<1>4. Increment(Val(Seq_, i)) = N /\ N \in Int
  <2>1. N - 1 < IntMax
    BY Bounded
  <2> QED
    BY <1>1, <1>2, <1>3, <2>1, SeqLockAssumption DEF Increment
<1>5. ReadModifyWrite(t, Seq_, N, N, ord)
  BY <1>2, <1>4
<1>6. /\ Appended(Loc, Seq_)
      /\ hist'[Seq_][N + 1].id = N + 1
      /\ hist'[Seq_][N + 1].val = N
      /\ hist'[Seq_][N + 1].view = Continued(t, Seq_, N, ord)
      /\ hist'[Seq_][N + 1].kind = "rmw"
  BY <1>1, <1>4, <1>5, ReadModifyWriteAtEnd
<1>7. MemType(Loc, Int)'
  BY <1>1, <1>4, <1>5, ReadModifyWriteType
<1>8. /\ Newest(Seq_)' = N + 1
      /\ \A k \in 1..N : hist'[Seq_][k] = hist[Seq_][k]
      /\ \A l \in Loc \ {Seq_} : hist'[l] = hist[l]
  BY <1>6 DEF Appended, Newest
<1>9. Chain'
  <2>1. \A l \in Loc : Linear(l)'
    BY <1>1, <1>6, AppendedLinear DEF IInv, Chain
  <2>2. \A k \in 2..(N + 1) : hist'[Seq_][k].kind = "rmw"
    BY <1>1, <1>6, <1>8 DEF IInv, Chain
  <2>3. \A k \in 1..(N + 1) : hist'[Seq_][k].val = k - 1
    BY <1>1, <1>6, <1>8 DEF IInv, Chain, Val
  <2> QED
    BY <1>8, <2>1, <2>2, <2>3 DEF Chain, Val
<1>10. /\ rel' = rel /\ acq' = [acq EXCEPT ![t] = Pending(t, Seq_, N, ord)]
       /\ cur' = [cur EXCEPT ![t] = Observe(t, Seq_, N, ord) \cup {NextEvent(Seq_)}]
  BY <1>5 DEF ReadModifyWrite
<1>11. /\ \A u \in Thread : cur[u] \subseteq cur'[u]
       /\ \A u \in Thread \ {t} : acq'[u] = acq[u]
       /\ <<Seq_, N + 1>> \in cur'[t]
  BY <1>1, <1>10 DEF MemType, Observe, NextEvent
<1> QED
  BY <1>2, <1>6, <1>7, <1>8, <1>9, <1>10, <1>11

(* What remains of the invariant when a writer advances the sequence.      *)
LEMMA Advanced ==
  ASSUME IInv, NEW t \in Inside \cup Inside', NEW N, N = Newest(Seq_),
         \/ Inside = {} /\ Inside' = {t}
         \/ Inside = {t} /\ Inside' = {},
         NEW to \in Label, pc' = [pc EXCEPT ![t] = to], to \notin VersionLabel,
         UNCHANGED <<oldSeq, data1, data2, writes>>,
         Newest(Seq_)' = N + 1,
         \A k \in 1..N : hist'[Seq_][k] = hist[Seq_][k],
         \A l \in Loc \ {Seq_} : hist'[l] = hist[l],
         MemType(Loc, Int)', Chain',
         \A u \in Thread : cur[u] \subseteq cur'[u],
         \A u \in Thread \ {t} : acq'[u] = acq[u],
         \A j \in 2..(N + 2) : 2 * j <= N + 2 =>
           /\ <<Data1, j>> \in hist'[Seq_][N + 1].view
           /\ <<Data2, j>> \in hist'[Seq_][N + 1].view,
         Words', Calls', WritesWell(t)'
  PROVE  IInv'
<1>1. N \in Nat /\ N >= 1 /\ t \in Thread
  BY Lengths, Locations DEF IInv, Inside
<1>2. \A l \in {Data1, Data2} : /\ hist'[l] = hist[l] /\ Newest(l)' = Newest(l)
                                /\ \A k : Val(l, k)' = Val(l, k)
  BY Locations DEF Newest, Val
<1>3. Types'
  <2>1. pc' \in [Thread -> Label]
    BY <1>1 DEF IInv, Types
  <2> QED
    BY <1>2, <2>1 DEF IInv, Types
<1>4. Carrying'
  <2> SUFFICES ASSUME NEW k \in 1..(N + 1)
               PROVE  Carries(k)'
    BY DEF Carrying
  <2>1. CASE k \in 1..N
    BY <2>1 DEF IInv, Carrying, Carries
  <2>2. CASE k = N + 1
    <3>1. k + 1 = N + 2
      BY <1>1, <2>2
    <3> QED
      BY <2>2, <3>1 DEF Carries
  <2> QED
    BY <1>1, <2>1, <2>2
<1>5. Marking'
  BY <1>2 DEF IInv, Marking, Marks
<1>6. ASSUME NEW u \in Thread
      PROVE  WritesWell(u)'
  <2>1. CASE u # t
    <3>1. u \notin Inside'
      BY <2>1
    <3>2. pc'[u] \notin InsideLabel
      BY <3>1 DEF Inside
    <3> QED
      BY <3>2 DEF WritesWell, InsideLabel
  <2> QED
    BY <2>1
<1>7. ASSUME NEW u \in Thread
      PROVE  ReadsWell(u)'
  <2>1. CASE u = t
    BY <1>1, <2>1 DEF ReadsWell, IInv, Types, VersionLabel
  <2>2. CASE u # t
    <3>1. pc'[u] = pc[u] /\ UNCHANGED <<oldSeq, data1, data2>> /\ acq'[u] = acq[u]
          /\ cur[u] \subseteq cur'[u]
      BY <2>2 DEF IInv, Types
    <3>2. HasVersion(u) => HasVersion(u)'
      BY <3>1 DEF HasVersion
    <3>3. /\ Overtaken(u, cur[u]) => Overtaken(u, cur[u])'
          /\ Overtaken(u, cur[u] \cup acq[u]) => Overtaken(u, cur[u] \cup acq[u])'
      BY <1>1, <3>1 DEF Overtaken
    <3>4. (Good1(u) => Good1(u)') /\ (Good2(u) => Good2(u)')
      BY <1>2, <3>1 DEF Good1, Good2, Version, Val
    <3>5. oldSeq[u] \in Nat
      BY SeqLockAssumption DEF IInv, Types
    <3>6. oldSeq[u] <= N - 1 => oldSeq[u] <= (N + 1) - 1
      BY <1>1, <3>5
    <3>7. ReadsWell(u)
      BY DEF IInv
    <3> QED
      BY <3>1, <3>2, <3>3, <3>4, <3>6, <3>7 DEF ReadsWell, VersionLabel
  <2> QED
    BY <2>1, <2>2
<1>8. \A u \in Thread :
        <<Seq_, 1>> \in cur'[u] /\ <<Data1, 1>> \in cur'[u] /\ <<Data2, 1>> \in cur'[u]
  BY DEF IInv
<1> QED
  BY <1>3, <1>4, <1>5, <1>6, <1>7, <1>8 DEF IInv

(* The CAS of write() that succeeds: nobody was inside, and the writer has *)
(* seen the words of the newest version.                                   *)
LEMMA WinStep ==
  ASSUME IInv, NoWrap, NEW t \in Thread, Write_WinCAS(t)
  PROVE  IInv'
<1> DEFINE N == Newest(Seq_)
           D1 == Newest(Data1)
           D2 == Newest(Data2)
<1>1. /\ pc[t] = "cas" /\ pc' = [pc EXCEPT ![t] = "writeFence"]
      /\ UNCHANGED <<oldSeq, data1, data2, writes>>
  BY DEF Write_WinCAS, Goto, MoveTo
<1>2. t \in InCall /\ pc[t] \in VersionLabel /\ t \notin Inside
  BY <1>1 DEF InCall, CallLabel, VersionLabel, Inside, InsideLabel
<1>3. PICK i \in Extendable(t, Seq_, relaxed) :
        /\ Val(Seq_, i) = oldSeq[t]
        /\ ReadModifyWrite(t, Seq_, i, Increment(Val(Seq_, i)), relaxed)
  BY DEF Write_WinCAS
<1>4. /\ i = N
      /\ Newest(Seq_)' = N + 1
      /\ \A k \in 1..N : hist'[Seq_][k] = hist[Seq_][k]
      /\ hist'[Seq_][N + 1].view = Continued(t, Seq_, N, relaxed)
      /\ \A l \in Loc \ {Seq_} : hist'[l] = hist[l]
      /\ MemType(Loc, Int)' /\ Chain'
      /\ \A u \in Thread : cur[u] \subseteq cur'[u]
      /\ \A u \in Thread \ {t} : acq'[u] = acq[u]
      /\ <<Seq_, N + 1>> \in cur'[t]
  BY <1>2, <1>3, Advance
<1>5. N \in Nat /\ N >= 1 /\ D1 \in Nat /\ D2 \in Nat
  BY Lengths, Locations DEF IInv
<1>6. D1 = Newest(Data1)' /\ D2 = Newest(Data2)'
  BY <1>4, Locations DEF Newest
<1>7. oldSeq[t] = N - 1 /\ oldSeq[t] % 2 = 0
  <2>1. Val(Seq_, N) = N - 1
    BY <1>5 DEF IInv, Chain
  <2>2. oldSeq[t] % 2 = 0
    BY <1>1, <1>2 DEF IInv, ReadsWell
  <2> QED
    BY <1>3, <1>4, <2>1, <2>2
<1>8. Inside = {} /\ N = 2 * D1 - 1 /\ D2 = D1
  <2>1. (N - 1) % 2 = 0
    BY <1>7
  <2>2. ~(N = 2 * D1) /\ ~(N = 2 * D1 - 2)
    BY <1>5, <2>1
  <2>3. Inside = {}
    BY <2>2 DEF IInv, Words, Inside, InsideLabel
  <2> QED
    BY <2>3 DEF IInv, Words
<1> HIDE DEF N, D1, D2
<1>9. Inside' = {t} /\ InCall' = InCall /\ pc'[t] = "writeFence"
  BY <1>1, <1>8 DEF IInv, Types, Inside, InCall, InsideLabel, CallLabel
<1>10. Words'
  <2>1. \A u \in Thread : pc'[u] \in InsideLabel => u = t
    BY <1>9 DEF Inside
  <2>2. N + 1 = 2 * D1
    BY <1>5, <1>8
  <2> QED
    BY <1>4, <1>6, <1>8, <1>9, <2>1, <2>2 DEF Words, InsideLabel, D1, D2
<1>11. Calls'
  <2>1. 2 * Cardinality(InCall) + N - 1 = 2 * writes + 0 /\ IsFiniteSet(InCall)
    BY <1>8 DEF IInv, Calls, N
  <2>2. Cardinality(InCall) \in Nat /\ writes \in Nat
    BY <2>1, FS_CardinalityType, SeqLockAssumption DEF IInv, Types
  <2>3. 2 * Cardinality(InCall) + (N + 1) - 1 = 2 * writes + 1
    BY <1>5, <2>1, <2>2
  <2> QED
    BY <1>1, <1>4, <1>9, <2>1, <2>3 DEF Calls
<1>12. WritesWell(t)'
  <2>1. ASSUME NEW j \in 1..D1
        PROVE  <<Data1, j>> \in cur'[t] /\ <<Data2, j>> \in cur'[t]
    <3>1. j \in 1..(oldSeq[t] + 2) /\ 2 * j <= oldSeq[t] + 2
      BY <1>5, <1>7, <1>8
    <3> QED
      BY <1>2, <1>4, <3>1 DEF IInv, ReadsWell, HasVersion
  <2> QED
    BY <1>4, <1>6, <1>8, <1>9, <2>1 DEF WritesWell, Knows
<1>13. ASSUME NEW j \in 2..(N + 2), 2 * j <= N + 2
       PROVE  /\ <<Data1, j>> \in hist'[Seq_][N + 1].view
              /\ <<Data2, j>> \in hist'[Seq_][N + 1].view
  <2>1. j \in 2..(N + 1) /\ 2 * j <= N + 1
    BY <1>5, <1>8, <1>13
  <2>2. Carries(N)
    BY <1>5 DEF IInv, Carrying, N
  <2>3. hist[Seq_][N].view \subseteq hist'[Seq_][N + 1].view
    BY <1>4 DEF Continued
  <2> QED
    BY <2>1, <2>2, <2>3 DEF Carries
<1>14. "writeFence" \in Label /\ "writeFence" \notin VersionLabel
  BY DEF Label, InsideLabel, CallLabel, VersionLabel
<1> QED
  BY <1>1, <1>4, <1>8, <1>9, <1>10, <1>11, <1>12, <1>13, <1>14, Advanced DEF N

(* The release of the sequence by the writer inside.                       *)
LEMMA PublishStep ==
  ASSUME IInv, NoWrap, NEW t \in Thread, Write_Publish(t)
  PROVE  IInv'
<1> DEFINE N == Newest(Seq_)
           D1 == Newest(Data1)
           D2 == Newest(Data2)
<1>1. /\ pc[t] = "publish" /\ pc' = [pc EXCEPT ![t] = "idle"]
      /\ UNCHANGED <<oldSeq, data1, data2, writes>>
  BY DEF Write_Publish, Goto, MoveTo
<1>2. t \in InCall /\ t \in Inside /\ pc[t] \in InsideLabel
  BY <1>1 DEF InCall, CallLabel, Inside, InsideLabel
<1>3. PICK i \in Extendable(t, Seq_, release) :
        ReadModifyWrite(t, Seq_, i, Increment(Val(Seq_, i)), release)
  BY DEF Write_Publish, OrderPublish
<1>4. /\ Newest(Seq_)' = N + 1
      /\ \A k \in 1..N : hist'[Seq_][k] = hist[Seq_][k]
      /\ hist'[Seq_][N + 1].view = Continued(t, Seq_, N, release)
      /\ \A l \in Loc \ {Seq_} : hist'[l] = hist[l]
      /\ MemType(Loc, Int)' /\ Chain'
      /\ \A u \in Thread : cur[u] \subseteq cur'[u]
      /\ \A u \in Thread \ {t} : acq'[u] = acq[u]
  BY <1>2, <1>3, Advance
<1>5. N \in Nat /\ N >= 1 /\ D1 \in Nat /\ D2 \in Nat
  BY Lengths, Locations DEF IInv
<1>6. D1 = Newest(Data1)' /\ D2 = Newest(Data2)'
  BY <1>4, Locations DEF Newest
<1>7. Inside = {t} /\ N = 2 * D1 - 2 /\ D2 = D1
  BY <1>1, <1>2 DEF IInv, Words
<1> HIDE DEF N, D1, D2
<1>8. Inside' = {} /\ InCall' = InCall \ {t} /\ pc'[t] = "idle"
  <2>1. pc'[t] = "idle" /\ \A u \in Thread \ {t} : pc'[u] = pc[u]
    BY <1>1 DEF IInv, Types
  <2>2. "idle" \notin InsideLabel /\ "idle" \notin CallLabel
    BY DEF InsideLabel, CallLabel
  <2> QED
    BY <1>7, <2>1, <2>2 DEF Inside, InCall
<1>9. Words'
  <2>1. \A u \in Thread : pc'[u] \notin InsideLabel
    BY <1>8 DEF Inside
  <2>2. N + 1 = 2 * D1 - 1
    BY <1>5, <1>7
  <2> QED
    BY <1>4, <1>6, <1>7, <1>8, <2>1, <2>2 DEF Words, InsideLabel, D1, D2
<1>10. Calls'
  <2>1. 2 * Cardinality(InCall) + N - 1 = 2 * writes + 1 /\ IsFiniteSet(InCall)
    BY <1>2 DEF IInv, Calls, N
  <2>2. /\ Cardinality(InCall) \in Nat /\ Cardinality(InCall) >= 1 /\ writes \in Nat
    <3>1. Cardinality(InCall) \in Nat
      BY <2>1, FS_CardinalityType
    <3>2. writes \in Nat
      BY SeqLockAssumption DEF IInv, Types
    <3>3. Cardinality(InCall) # 0
      BY <1>2, <2>1, FS_EmptySet
    <3> QED
      BY <3>1, <3>2, <3>3
  <2>3. IsFiniteSet(InCall') /\ Cardinality(InCall') = Cardinality(InCall) - 1
    BY <1>2, <1>8, <2>1, FS_RemoveElement
  <2>4. 2 * Cardinality(InCall') + (N + 1) - 1 = 2 * writes + 0
    BY <1>5, <2>1, <2>2, <2>3
  <2> QED
    BY <1>1, <1>4, <1>8, <2>3, <2>4 DEF Calls
<1>11. WritesWell(t)'
  BY <1>8 DEF WritesWell, InsideLabel
<1>12. ASSUME NEW j \in 2..(N + 2), 2 * j <= N + 2
       PROVE  /\ <<Data1, j>> \in hist'[Seq_][N + 1].view
              /\ <<Data2, j>> \in hist'[Seq_][N + 1].view
  <2>1. j \in 1..D1 /\ D2 = D1
    BY <1>5, <1>7, <1>12
  <2>2. <<Data1, j>> \in cur[t] /\ <<Data2, j>> \in cur[t]
    BY <1>2, <2>1 DEF IInv, WritesWell, Knows, D1, D2
  <2>3. cur[t] \subseteq hist'[Seq_][N + 1].view
    BY <1>4 DEF Continued, Observe, Releasing
  <2> QED
    BY <2>2, <2>3
<1>13. "idle" \in Label /\ "idle" \notin VersionLabel
  BY DEF Label, VersionLabel
<1> QED
  BY <1>1, <1>4, <1>7, <1>8, <1>9, <1>10, <1>11, <1>12, <1>13, Advanced DEF N

LEMMA Stuttering ==
  ASSUME IInv, UNCHANGED vars
  PROVE  IInv'
<1>1. UNCHANGED <<hist, cur, acq, rel, sc, pc, oldSeq, data1, data2, writes>>
  BY DEF vars, locals
<1>2. Types'
  BY <1>1 DEF IInv, Types, MemType, Newest, Val
<1>3. Chain' /\ Carrying' /\ Marking'
  BY <1>1 DEF IInv, Chain, Linear, Carrying, Carries, Marking, Marks, Newest, Val
<1>4. Words' /\ Calls'
  BY <1>1 DEF IInv, Words, Calls, Inside, InCall, Newest
<1>5. \A t \in Thread : WritesWell(t)'
  BY <1>1 DEF IInv, WritesWell, Knows, Newest
<1>6. \A t \in Thread : ReadsWell(t)'
  BY <1>1 DEF IInv, ReadsWell, HasVersion, Overtaken, Good1, Good2, Version, Newest, Val
<1>7. \A t \in Thread :
        <<Seq_, 1>> \in cur'[t] /\ <<Data1, 1>> \in cur'[t] /\ <<Data2, 1>> \in cur'[t]
  BY <1>1 DEF IInv
<1> QED
  BY <1>2, <1>3, <1>4, <1>5, <1>6, <1>7 DEF IInv

-----------------------------------------------------------------------------
THEOREM Invariance ==
  ASSUME NoWrap
  PROVE  Spec => []IInv
<1>1. Init => IInv
  BY InitInvariant
<1>2. ASSUME IInv, [Next]_vars
      PROVE  IInv'
  <2>1. ASSUME NEW t \in Thread, ReadStep(t)
        PROVE  IInv'
    BY <1>2, <2>1, LoadSeqSteps, LoadWordSteps, ReadFenceStep, RecheckStep DEF ReadStep
  <2>2. ASSUME NEW t \in Thread, WriteStep(t)
        PROVE  IInv'
    BY <1>2, <2>2, LoadSeqSteps, WinStep, OtherSteps, WriteFenceStep, StoreSteps, PublishStep
       DEF WriteStep
  <2>3. ASSUME NEW t \in Thread, Read_Call(t) \/ Write_Call(t)
        PROVE  IInv'
    BY <1>2, <2>3, OtherSteps
  <2>4. CASE UNCHANGED vars
    BY <1>2, <2>4, Stuttering
  <2> QED
    BY <1>2, <2>1, <2>2, <2>3, <2>4 DEF Next, ThreadStep, Terminated
<1> QED
  BY <1>1, <1>2, PTL DEF Spec

(* TypeOK: the sequence stays in the range of an int, and what a reader or *)
(* writer goes on with is even.                                            *)
THEOREM TypeCorrectness ==
  ASSUME NoWrap
  PROVE  Spec => []TypeOK
<1>1. ASSUME IInv
      PROVE  TypeOK
  <2>1. pc \in [Thread -> {"idle", "returned", "readSeq", "readData1", "readData2", "readFence",
                           "recheck", "writeSeq", "cas", "writeFence", "storeData1",
                           "storeData2", "publish"}]
    BY <1>1 DEF IInv, Types, Label, VersionLabel, CallLabel, InsideLabel
  <2>2. 0..IntMax \subseteq (-IntMax - 1)..IntMax
    BY SeqLockAssumption
  <2>3. oldSeq \in [Thread -> (-IntMax - 1)..IntMax]
    BY <1>1, <2>2 DEF IInv, Types
  <2>4. \A t \in Thread : pc[t] \in {"readData1", "readData2", "cas"} => oldSeq[t] % 2 = 0
    BY <1>1 DEF IInv, ReadsWell, VersionLabel
  <2> QED
    BY <1>1, <2>1, <2>3, <2>4 DEF TypeOK, IInv, Types
<1> QED
  BY <1>1, Invariance, PTL

(* ReadIsVersion: read() returns both words of the write its sequence      *)
(* number stands for.                                                      *)
THEOREM Versioned ==
  ASSUME NoWrap
  PROVE  Spec => []ReadIsVersion
<1>1. ASSUME IInv
      PROVE  ReadIsVersion
  <2> SUFFICES ASSUME NEW t \in Thread, pc[t] = "returned"
               PROVE  /\ Version(t) <= Newest(Data1) /\ data1[t] = Val(Data1, Version(t))
                      /\ Version(t) <= Newest(Data2) /\ data2[t] = Val(Data2, Version(t))
    BY DEF ReadIsVersion
  <2>1. Version(t) <= Newest(Data1) /\ Version(t) <= Newest(Data2)
    BY <1>1, VersionWritten DEF VersionLabel
  <2>2. Good1(t) /\ Good2(t)
    BY <1>1 DEF IInv, ReadsWell
  <2> QED
    BY <2>1, <2>2 DEF Good1, Good2
<1> QED
  BY <1>1, Invariance, PTL

(* How many threads are at some of the labels inside.                      *)
LEMMA Counting ==
  ASSUME IInv, NEW at \in SUBSET InsideLabel
  PROVE  /\ Inside = {} => Behind(at) = 0
         /\ \A t \in Inside : Behind(at) = IF pc[t] \in at THEN 1 ELSE 0
<1> DEFINE B == {t \in Thread : pc[t] \in at}
<1>1. B \subseteq Inside
  BY DEF Inside
<1>2. ASSUME B = {} PROVE Behind(at) = 0
  BY <1>2, FS_EmptySet DEF Behind
<1>3. ASSUME NEW t \in Inside
      PROVE  Behind(at) = IF pc[t] \in at THEN 1 ELSE 0
  <2>1. Inside = {t}
    BY <1>3 DEF IInv, Words
  <2>2. CASE pc[t] \in at
    <3>1. B = {t}
      BY <1>1, <2>1, <2>2 DEF Inside
    <3>2. Cardinality(B) = 1
      BY <3>1, FS_Singleton
    <3> QED
      BY <2>2, <3>2 DEF Behind
  <2>3. CASE pc[t] \notin at
    <3>1. B = {}
      BY <1>1, <2>1, <2>3
    <3> QED
      BY <1>2, <2>3, <3>1
  <2> QED
    BY <2>2, <2>3
<1> QED
  BY <1>1, <1>2, <1>3

(* SequenceCountsWrites: the sequence is twice the number of writes, and   *)
(* one more while a writer is inside.                                      *)
THEOREM Counted ==
  ASSUME NoWrap
  PROVE  Spec => []SequenceCountsWrites
<1> DEFINE start == {"writeFence", "storeData1"}
           all == {"writeFence", "storeData1", "storeData2", "publish"}
           middle == {"storeData2"}
<1>1. ASSUME IInv
      PROVE  SequenceCountsWrites
  <2>1. /\ Newest(Seq_) \in Nat /\ Newest(Data1) \in Nat /\ Newest(Data2) \in Nat
        /\ Newest(Seq_) >= 1
    BY <1>1, Lengths, Locations DEF IInv
  <2>2. Val(Seq_, Newest(Seq_)) = Newest(Seq_) - 1
    BY <1>1, <2>1 DEF IInv, Chain
  <2>3. start \in SUBSET InsideLabel /\ all \in SUBSET InsideLabel /\ middle \in SUBSET InsideLabel
    BY DEF InsideLabel
  <2>4. CASE Inside = {}
    <3>1. Behind(start) = 0 /\ Behind(all) = 0 /\ Behind(middle) = 0
      BY <1>1, <2>3, <2>4, Counting
    <3>2. Newest(Seq_) = 2 * Newest(Data1) - 1 /\ Newest(Data2) = Newest(Data1)
      BY <1>1, <2>4 DEF IInv, Words
    <3> QED
      BY <2>1, <2>2, <3>1, <3>2 DEF SequenceCountsWrites
  <2>5. ASSUME NEW t \in Inside
        PROVE  SequenceCountsWrites
    <3>1. /\ Behind(start) = IF pc[t] \in start THEN 1 ELSE 0
          /\ Behind(all) = IF pc[t] \in all THEN 1 ELSE 0
          /\ Behind(middle) = IF pc[t] \in middle THEN 1 ELSE 0
      BY <1>1, <2>3, <2>5, Counting
    <3>2. t \in Thread /\ pc[t] \in all
      BY <2>5 DEF Inside, InsideLabel
    <3>3. CASE pc[t] \in start
      <4>1. Newest(Seq_) = 2 * Newest(Data1) /\ Newest(Data2) = Newest(Data1)
        BY <1>1, <3>2, <3>3 DEF IInv, Words
      <4>2. Behind(start) = 1 /\ Behind(all) = 1 /\ Behind(middle) = 0
        BY <3>1, <3>3
      <4> QED
        BY <2>1, <2>2, <4>1, <4>2 DEF SequenceCountsWrites
    <3>4. CASE pc[t] = "storeData2"
      <4>1. Newest(Seq_) = 2 * Newest(Data1) - 2 /\ Newest(Data2) = Newest(Data1) - 1
        BY <1>1, <3>2, <3>4 DEF IInv, Words
      <4>2. Behind(start) = 0 /\ Behind(all) = 1 /\ Behind(middle) = 1
        BY <3>1, <3>4
      <4> QED
        BY <2>1, <2>2, <4>1, <4>2 DEF SequenceCountsWrites
    <3>5. CASE pc[t] = "publish"
      <4>1. Newest(Seq_) = 2 * Newest(Data1) - 2 /\ Newest(Data2) = Newest(Data1)
        BY <1>1, <3>2, <3>5 DEF IInv, Words
      <4>2. Behind(start) = 0 /\ Behind(all) = 1 /\ Behind(middle) = 0
        BY <3>1, <3>5
      <4> QED
        BY <2>1, <2>2, <4>1, <4>2 DEF SequenceCountsWrites
    <3> QED
      BY <3>2, <3>3, <3>4, <3>5
  <2> QED
    BY <2>4, <2>5
<1> QED
  BY <1>1, Invariance, PTL

-----------------------------------------------------------------------------
(***************************************************************************)
(* Proofs about ChaseLevDeque.                                             *)
(***************************************************************************)
PushLabel == {"resize", "resizeSize", "copy", "store", "pushFence", "pushBottom"}
RaceLabel == {"takeFence", "takeTop", "takeCAS"}
TakeLabel == RaceLabel \cup {"restore"}
StolenLabel == {"stealArray", "stealSize", "stealBuffer", "stealCAS"}

ThiefLabel == {"idle", "stealFence", "stealBottom"} \cup StolenLabel
DequeValue == Nat \cup Array

(* The inductive invariant.  Types: of the memory and of the locals.       *)
DequeTypes ==
  /\ MemType(DequeLoc, DequeValue)
  /\ \A l \in DequeLoc \ {ArrayPtr} : \A i \in 1..Newest(l) : Val(l, i) \in Nat
  /\ DOMAIN pc = Thread
  /\ pc[Owner] \in {"idle"} \cup PushLabel \cup TakeLabel
  /\ \A t \in Thief : pc[t] \in ThiefLabel
  /\ idx \in [Thread -> Nat] /\ b \in Nat
  /\ x \in [Thread -> Nat \cup {EMPTY}]
  /\ arr \in [Thread -> Array] /\ sz \in [Thread -> Nat] /\ copied \in Nat
  /\ pushes \in Nat /\ out \in Seq(Nat)
  /\ won \in [Thread -> SUBSET Events(DequeLoc)]

(* The hypothesis of the theorems: newArray is installed once, resize()    *)
(* finds the array of create().                                            *)
ResizesOnce == pc[Owner] = "resize" => OwnArray = "old"

(* How many items have left at the front, where the deque ends, how many   *)
(* pushes are complete, how long an array is and what it holds.            *)
Gone == Newest(Top) - 1
Limit == IF pc[Owner] \in TakeLabel THEN b + 1 ELSE Own(Bottom)
Pushed == IF pc[Owner] \in PushLabel THEN pushes - 1 ELSE pushes
Length(a) == IF a = "old" THEN 2 ELSE 4
Slot(a, k) == Buffer(a, k % Length(a))
Item(k) == Own(Slot(OwnArray, k))

(* Each location is written in the order of its history, top by            *)
(* compare_exchanges that count up, the rest by the owner alone; of a      *)
(* change of top the owner knows, or a seq_cst operation has published it. *)
Ordered ==
  /\ \A l \in DequeLoc : Linear(l)
  /\ \A k \in 1..Newest(Top) : Val(Top, k) = k - 1 /\ (k > 1 => hist[Top][k].kind = "rmw")
  /\ \A l \in DequeLoc \ {Top} : Knows(Owner, l)
  /\ \A t \in Thread, l \in DequeLoc : <<l, 1>> \in cur[t]
  /\ \A k \in 2..Newest(Top) : <<Top, k>> \in sc \cup cur[Owner]

(* What the sizes and array hold in each stage of resize().                *)
Arrays ==
  /\ Newest(Size("old")) = 1 /\ Val(Size("old"), 1) = 2
  /\ Newest(Size("new")) \in {1, 2} /\ Val(Size("new"), 1) = 8
  /\ Newest(Size("new")) = 2 => Val(Size("new"), 2) = 4
  /\ Newest(ArrayPtr) \in {1, 2} /\ Val(ArrayPtr, 1) = "old"
  /\ Newest(ArrayPtr) = 2 =>
       Val(ArrayPtr, 2) = "new" /\ <<Size("new"), 2>> \in hist[ArrayPtr][2].view
  /\ pc[Owner] \in {"resize", "resizeSize"} => Newest(Size("new")) = 1
  /\ pc[Owner] = "copy" => Newest(Size("new")) = 2 /\ Newest(ArrayPtr) = 1
  /\ pc[Owner] # "copy" => Newest(ArrayPtr) = Newest(Size("new"))
  /\ pc[Owner] \in PushLabel => arr[Owner] = OwnArray
  /\ pc[Owner] \in {"resizeSize", "copy"} => sz[Owner] = 2

(* The items lie between top and bottom, in the array of the owner; what   *)
(* resize() has copied is in newArray.                                     *)
Window ==
  /\ Gone <= Limit /\ Limit <= Pushed /\ Limit <= Gone + Length(OwnArray)
  /\ pushes <= MaxPushes /\ (pc[Owner] \in PushLabel => pushes > 0)
  /\ Pushed > 0 => Limit > 0
  /\ pc[Owner] \in PushLabel \cup TakeLabel => b = Own(Bottom)
  /\ pc[Owner] \in TakeLabel => pushes > 0
  /\ pc[Owner] \in {"store", "pushFence", "pushBottom"} => b < Gone + Length(OwnArray)
  /\ pc[Owner] \in {"pushFence", "pushBottom"} => Item(b) = pushes
  /\ pc[Owner] \in {"resizeSize", "copy"} => copied <= b
  /\ pc[Owner] = "resizeSize" => copied <= Gone
  /\ pc[Owner] = "copy" =>
       \A k \in Gone..(copied - 1) : Own(Slot("old", k)) = Own(Slot("new", k))

(* Behind its fence the owner knows whether a thief has come as far as the *)
(* bottom, and its compare_exchange is for the last item.                  *)
Race ==
  /\ pc[Owner] = "takeTop" /\ Gone > b => <<Top, b + 1>> \in cur[Owner]
  /\ pc[Owner] \in {"takeTop", "takeCAS"} => <<Bottom, Newest(Bottom)>> \in sc
  /\ pc[Owner] = "takeCAS" =>
       /\ idx[Owner] = b /\ b <= Gone
       /\ <<Top, b + 1>> \in cur[Owner]
       /\ x[Owner] = Item(b)
  /\ pc[Owner] = "restore" => Gone = b + 1

(* They were pushed, and each is in the deque or out, once.                *)
Items ==
  /\ \A k \in Gone..(Limit - 1) : Item(k) \in 1..Pushed
  /\ \A k, m \in Gone..(Limit - 1) : Item(k) = Item(m) => k = m
  /\ \A i \in 1..Len(out) : out[i] \in 1..Pushed
  /\ \A i, j \in 1..Len(out) : out[i] = out[j] => i = j
  /\ \A i \in 1..Len(out), k \in Gone..(Limit - 1) : out[i] # Item(k)

(* Message j of bottom is the newest that a fence of the owner can have    *)
(* published. From it on bottom does not go below it, but for the          *)
(* decrement of a take() that is not yet at its fence.                     *)
LastFenced(j) == \A m \in (j + 1)..Newest(Bottom) : <<Bottom, m>> \notin sc
Falls ==
  \A j \in 1..Newest(Bottom) : LastFenced(j) =>
    \A m \in j..Newest(Bottom) :
      \/ Val(Bottom, m) >= Val(Bottom, j)
      \/ m = Newest(Bottom) /\ pc[Owner] = "takeFence" /\ Val(Bottom, m) + 1 >= Val(Bottom, j)

(* Message j of bottom, and each one since, leaves the index k inside the  *)
(* deque, but for the newest while the owner has still to race for it.     *)
Keeps(j, k) ==
  /\ Val(Bottom, j) > k
  /\ \A m \in j..Newest(Bottom) :
       \/ Val(Bottom, m) > k
       \/ m = Newest(Bottom) /\ pc[Owner] \in RaceLabel /\ Val(Bottom, m) = k

(* The release fence of push() covers the slots, the size and array.       *)
Fenced == pc[Owner] \notin {"resize", "resizeSize", "copy", "store", "pushFence"} =>
  \A l \in DequeLoc \ {Top, Bottom} : \A i \in 2..Newest(l) : <<l, i>> \in rel[Owner]

(* Who has read a message of bottom that keeps k has seen the item k in    *)
(* the array he may read, or will see it through the pointer to that       *)
(* array.                                                                  *)
Installed(a) == IF a = "new" THEN hist[ArrayPtr][2].view ELSE {}
Offers(j, k, a) ==
  /\ Own(Slot(a, k)) = Item(k)
  /\ Newest(Slot(a, k)) > 1 =>
       <<Slot(a, k), Newest(Slot(a, k))>> \in hist[Bottom][j].view \cup Installed(a)

Offering ==
  \A j \in 1..Newest(Bottom) : \A k \in Gone..MaxPushes :
    Keeps(j, k) =>
      /\ Offers(j, k, OwnArray)
      /\ Offers(j, k, "old") \/ (Newest(ArrayPtr) = 2 /\ <<ArrayPtr, 2>> \in hist[Bottom][j].view)

(* A thief whose index is current is right about what he finds: the bottom *)
(* he read keeps his item, the array and the size he read are those of the *)
(* item, and x is the item.                                                *)
Safe(j) == Keeps(j, Gone) /\ (pc[Owner] = "takeTop" /\ b = Gone => <<Top, Gone + 1>> \in cur[Owner])

Seeing(t, j) ==
  /\ Safe(j) /\ hist[Bottom][j].view \subseteq cur[t]
  /\ pc[t] \in {"stealSize", "stealBuffer"} =>
       /\ Offers(j, Gone, arr[t]) /\ Installed(arr[t]) \subseteq cur[t]
       /\ arr[t] = "new" => Newest(ArrayPtr) = 2
Sound(t) ==
  /\ idx[t] <= Gone
  /\ pc[t] = "stealBuffer" => sz[t] \in 1..Slots[arr[t]]
  /\ pc[t] \in {"stealSize", "stealBuffer"} /\ arr[t] = "new" => Newest(ArrayPtr) = 2
  /\ idx[t] = Gone =>
       /\ pc[t] = "stealBottom" =>
            \A j \in 1..Newest(Bottom) :
              (\A m \in (j + 1)..Newest(Bottom) : <<Bottom, m>> \notin cur[t])
                 /\ Val(Bottom, j) > Gone => Safe(j)
       /\ pc[t] \in StolenLabel => \E j \in 1..Newest(Bottom) : Seeing(t, j)
       /\ pc[t] = "stealBuffer" => sz[t] = Length(arr[t])
       /\ pc[t] = "stealCAS" => x[t] = Item(Gone)
Thieves == \A t \in Thief : Sound(t)

DequeInv ==
  /\ DequeTypes /\ Ordered /\ Arrays /\ Window /\ Race /\ Items /\ Falls /\ Fenced
  /\ Offering /\ Thieves

(* What a step does to the deque: nothing, or it adds an item at the back, *)
(* or hands out the one there, or the one at the front.                    *)
Unmoved ==
  /\ Gone' = Gone /\ Limit' = Limit /\ Pushed' = Pushed /\ out' = out
  /\ \A k \in Gone..(Limit - 1) : Item(k)' = Item(k)
Grown ==
  /\ Gone' = Gone /\ Limit' = Limit + 1 /\ Pushed' = Pushed + 1 /\ out' = out
  /\ \A k \in Gone..(Limit - 1) : Item(k)' = Item(k)
  /\ \A k \in Limit..Limit : Item(k)' = Pushed + 1
TakenBack ==
  /\ Gone' = Gone /\ Limit' + 1 = Limit /\ Gone < Limit /\ Pushed' = Pushed
  /\ out' = Append(out, Item(Limit - 1))
  /\ \A k \in Gone..(Limit - 1) : Item(k)' = Item(k)
TakenFront ==
  /\ Gone' = Gone + 1 /\ Limit' = Limit /\ Gone < Limit /\ Pushed' = Pushed
  /\ out' = Append(out, Item(Gone))
  /\ \A k \in Gone..(Limit - 1) : Item(k)' = Item(k)

-----------------------------------------------------------------------------

(* The locations are different.                                            *)
LEMMA DequeLocations ==
  /\ Array = {"old", "new"} /\ Slots["old"] = 2 /\ Slots["new"] = 8
  /\ Top \in DequeLoc /\ Bottom \in DequeLoc /\ ArrayPtr \in DequeLoc
  /\ Top # Bottom /\ Top # ArrayPtr /\ Bottom # ArrayPtr
  /\ \A a \in Array : Size(a) \in DequeLoc \ {Top, Bottom, ArrayPtr}
  /\ Size("old") # Size("new")
  /\ \A a \in Array : \A i \in 0..(Slots[a] - 1) : Buffer(a, i) \in DequeLoc
  /\ \A a, i : Buffer(a, i) \notin {Top, Bottom, ArrayPtr}
  /\ \A a, i, c : Buffer(a, i) # Size(c)
  /\ \A a, i, c, j : Buffer(a, i) = Buffer(c, j) => a = c /\ i = j
<1>1. Array = {"old", "new"} /\ Slots["old"] = 2 /\ Slots["new"] = 8
  BY DEF Array, Slots
<1>2. /\ Len(Top) = 1 /\ Top[1] = "top" /\ Len(Bottom) = 1 /\ Bottom[1] = "bottom"
      /\ Len(ArrayPtr) = 1 /\ ArrayPtr[1] = "array"
  BY DEF Top, Bottom, ArrayPtr
<1>3. \A a : Len(Size(a)) = 2 /\ Size(a)[1] = "size" /\ Size(a)[2] = a
  BY DEF Size
<1>4. \A a, i : /\ Len(Buffer(a, i)) = 3 /\ Buffer(a, i)[2] = a /\ Buffer(a, i)[3] = i
  BY DEF Buffer
<1>5. /\ Top \in DequeLoc /\ Bottom \in DequeLoc /\ ArrayPtr \in DequeLoc
      /\ \A a \in Array : Size(a) \in DequeLoc
  BY DEF DequeLoc
<1>6. \A a \in Array : \A i \in 0..(Slots[a] - 1) : Buffer(a, i) \in DequeLoc
  BY DEF DequeLoc
<1>7. Top # Bottom /\ Top # ArrayPtr /\ Bottom # ArrayPtr
  BY <1>2
<1>8. \A a \in Array : Size(a) # Top /\ Size(a) # Bottom /\ Size(a) # ArrayPtr
  BY <1>2, <1>3
<1>9. Size("old") # Size("new")
  BY <1>3
<1>10. \A a, i : Buffer(a, i) # Top /\ Buffer(a, i) # Bottom /\ Buffer(a, i) # ArrayPtr
  BY <1>2, <1>4
<1>11. \A a, i, c : Buffer(a, i) # Size(c)
  BY <1>3, <1>4
<1>12. \A a, i, c, j : Buffer(a, i) = Buffer(c, j) => a = c /\ i = j
  BY <1>4
<1> QED
  BY <1>1, <1>5, <1>6, <1>7, <1>8, <1>9, <1>10, <1>11, <1>12

(* The slots of a window no longer than the array are different.           *)
LEMMA SlotsApart ==
  /\ \A a \in Array, k \in Nat : Slot(a, k) \in DequeLoc \ {Top, Bottom, ArrayPtr, Size("old"), Size("new")}
  /\ \A a \in Array, k, m \in Nat : k < m /\ m < k + Length(a) => Slot(a, k) # Slot(a, m)
  /\ \A k, m \in Nat : Slot("old", k) # Slot("new", m)
  /\ \A a \in Array : Length(a) \in {2, 4} /\ Length(a) <= Slots[a]
<1>1. Length("old") = 2 /\ Length("new") = 4
  BY DEF Length
<1>2. \A k \in Nat : k % 2 \in 0..1 /\ k % 4 \in 0..3
  OBVIOUS
<1>3. \A k, m \in Nat : k < m /\ m < k + 2 => k % 2 # m % 2
  OBVIOUS
<1>4. \A k, m \in Nat : k < m /\ m < k + 4 => k % 4 # m % 4
  OBVIOUS
<1>5. \A a \in Array, k \in Nat : k % Length(a) \in 0..(Slots[a] - 1)
  <2>1. \A k \in Nat : k % 2 \in 0..1 /\ k % 4 \in 0..7
    BY <1>2
  <2> QED
    BY <1>1, <2>1, DequeLocations
<1>6. \A a \in Array, k \in Nat : Slot(a, k) \in DequeLoc
  BY <1>5, DequeLocations DEF Slot
<1>7. \A a \in Array, k, m \in Nat : k < m /\ m < k + Length(a) => k % Length(a) # m % Length(a)
  BY <1>1, <1>3, <1>4, DequeLocations
<1> QED
  BY <1>1, <1>6, <1>7, DequeLocations DEF Slot

(* What the invariant says of the numbers the steps compute with.          *)
LEMMA DequeBasics ==
  ASSUME DequeInv
  PROVE  /\ MemType(DequeLoc, DequeValue)
         /\ \A l \in DequeLoc : Newest(l) \in Nat /\ Newest(l) >= 1
         /\ \A l \in DequeLoc : \A i \in 1..Newest(l) : Event(l, i) = <<l, i>>
         /\ \A l \in DequeLoc \ {ArrayPtr} : \A i \in 1..Newest(l) : Val(l, i) \in Nat
         /\ Owner \in Thread /\ Thief \subseteq Thread /\ Owner \notin Thief
         /\ MaxPushes \in Nat /\ SizeMax \in Nat /\ SizeMax > MaxPushes
         /\ OwnArray \in Array
         /\ (OwnArray = "new" <=> Newest(ArrayPtr) = 2)
         /\ Own(Size(OwnArray)) = Length(OwnArray)
         /\ Gone \in Nat /\ Own(Bottom) \in Nat /\ Limit \in Nat /\ b \in Nat
         /\ pushes \in Nat /\ Pushed \in Nat
         /\ \A a \in Array, k \in Nat : Own(Slot(a, k)) \in Nat
         /\ \A k \in Nat : Item(k) \in Nat
<1>1. /\ MemType(DequeLoc, DequeValue)
      /\ \A l \in DequeLoc \ {ArrayPtr} : \A i \in 1..Newest(l) : Val(l, i) \in Nat
      /\ b \in Nat /\ pushes \in Nat
  BY DEF DequeInv, DequeTypes
<1>2. \A l \in DequeLoc : Newest(l) \in Nat /\ Newest(l) >= 1
  BY <1>1, LenProperties DEF MemType, Newest
<1>3. \A l \in DequeLoc : \A i \in 1..Newest(l) : Event(l, i) = <<l, i>>
  BY DEF DequeInv, Ordered, Linear, Event, Newest
<1>4. Owner \in Thread /\ Thief \subseteq Thread /\ Owner \notin Thief
  BY DequeAssumption DEF Thief
<1>5. MaxPushes \in Nat /\ SizeMax \in Nat /\ SizeMax > MaxPushes
  BY DequeAssumption
<1>6. /\ Newest(ArrayPtr) \in {1, 2} /\ Val(ArrayPtr, 1) = "old"
      /\ Newest(ArrayPtr) = 2 => Val(ArrayPtr, 2) = "new"
  BY DEF DequeInv, Arrays
<1>7. OwnArray \in Array /\ (OwnArray = "new" <=> Newest(ArrayPtr) = 2)
  BY <1>6, DequeLocations DEF OwnArray, Own
<1>8. Own(Size(OwnArray)) = Length(OwnArray)
  <2>1. CASE OwnArray = "old"
    BY <2>1 DEF DequeInv, Arrays, Own, Length
  <2>2. CASE OwnArray = "new"
    <3>1. Newest(Size("new")) = 2 /\ Val(Size("new"), 2) = 4
      BY <1>7, <2>2 DEF DequeInv, Arrays
    <3> QED
      BY <2>2, <3>1 DEF Own, Length
  <2> QED
    BY <1>7, <2>1, <2>2, DequeLocations
<1>9. \A l \in DequeLoc \ {ArrayPtr} : Own(l) \in Nat
  BY <1>1, <1>2 DEF Own
<1>10. Own(Bottom) \in Nat /\ Gone \in Nat
  BY <1>2, <1>9, DequeLocations DEF Gone
<1>11. Limit \in Nat
  BY <1>1, <1>10 DEF Limit
<1>12. Pushed \in Nat
  BY <1>1 DEF Pushed, DequeInv, Window
<1>13. \A a \in Array, k \in Nat : Own(Slot(a, k)) \in Nat
  BY <1>9, SlotsApart
<1>14. \A k \in Nat : Item(k) \in Nat
  BY <1>7, <1>13 DEF Item
<1> QED
  BY <1>1, <1>2, <1>3, <1>4, <1>5, <1>7, <1>8, <1>10, <1>11, <1>12, <1>13, <1>14

-----------------------------------------------------------------------------
(* A step that changes no history and forgets nothing keeps the order.     *)
LEMMA DequeReading ==
  ASSUME DequeInv, hist' = hist, \A t \in Thread : cur[t] \subseteq cur'[t], sc \subseteq sc'
  PROVE  Ordered'
<1>1. Owner \in Thread
  BY DequeBasics
<1>2. /\ \A l \in DequeLoc : Linear(l)'
      /\ \A k \in 1..Newest(Top)' : Val(Top, k)' = k - 1 /\ (k > 1 => hist'[Top][k].kind = "rmw")
  BY DEF DequeInv, Ordered, Linear, Newest, Val
<1>3. \A l \in DequeLoc \ {Top} : Knows(Owner, l)'
  BY <1>1 DEF DequeInv, Ordered, Knows, Newest
<1>4. \A t \in Thread, l \in DequeLoc : <<l, 1>> \in cur'[t]
  BY DEF DequeInv, Ordered
<1>5. \A k \in 2..Newest(Top)' : <<Top, k>> \in sc' \cup cur'[Owner]
  BY <1>1 DEF DequeInv, Ordered, Newest
<1> QED
  BY <1>2, <1>3, <1>4, <1>5 DEF Ordered

(* A load changes no history.                                              *)
LEMMA DequeLoading ==
  ASSUME DequeInv, NEW t \in Thread, NEW l \in DequeLoc, NEW i, NEW ord, Load(t, l, i, ord)
  PROVE  /\ i \in 1..Newest(l) /\ hist' = hist /\ rel' = rel /\ sc' = sc
         /\ MemType(DequeLoc, DequeValue)' /\ Ordered'
         /\ \A u \in Thread : cur[u] \subseteq cur'[u]
         /\ \A u \in Thread \ {t} : cur'[u] = cur[u]
         /\ <<l, i>> \in cur'[t]
         /\ ord \in Acquiring => hist[l][i].view \subseteq cur'[t]
         /\ ord # seq_cst => \A k \in (i + 1)..Newest(l) : <<l, k>> \notin cur[t]
<1>1. MemType(DequeLoc, DequeValue)' /\ i \in 1..Newest(l)
  BY DequeBasics, LoadType
<1>2. /\ hist' = hist /\ cur' = [cur EXCEPT ![t] = Observe(t, l, i, ord)]
      /\ UNCHANGED <<rel, sc>> /\ i \in Readable(t, l, ord)
  BY DEF Load
<1>3. cur'[t] = Observe(t, l, i, ord) /\ \A u \in Thread \ {t} : cur'[u] = cur[u]
  BY <1>2, DequeBasics DEF MemType
<1>4. \A u \in Thread : cur[u] \subseteq cur'[u]
  BY <1>3 DEF Observe
<1>5. Ordered'
  BY <1>2, <1>4, DequeReading
<1>6. <<l, i>> \in cur'[t]
  <2>1. <<l, i>> = Event(l, i) /\ i \in 1..i
    BY <1>1, DequeBasics
  <2> QED
    BY <1>3, <2>1 DEF Observe, Upto
<1>7. ord # seq_cst => \A k \in (i + 1)..Newest(l) : <<l, k>> \notin cur[t]
  <2>1. \A k \in (i + 1)..Newest(l) : Event(l, k) = <<l, k>>
    BY <1>1, DequeBasics
  <2> QED
    BY <1>2, <2>1 DEF Readable, Seen
<1> QED
  BY <1>1, <1>2, <1>3, <1>4, <1>5, <1>6, <1>7 DEF Observe

(* The owner stores behind everything it has stored before.                *)
LEMMA DequeStoring ==
  ASSUME DequeInv, NEW l \in DequeLoc \ {Top}, NEW v \in DequeValue, NEW ord \in {relaxed, release},
         Store(Owner, l, v, ord)
  PROVE  /\ MemType(DequeLoc, DequeValue)' /\ Ordered'
         /\ Newest(l)' = Newest(l) + 1
         /\ \A k \in 1..Newest(l) : hist'[l][k] = hist[l][k]
         /\ hist'[l][Newest(l) + 1].val = v
         /\ hist'[l][Newest(l) + 1].view = Released(Owner, ord)
         /\ \A m \in DequeLoc \ {l} : hist'[m] = hist[m]
         /\ \A u \in Thread : cur[u] \subseteq cur'[u]
         /\ \A u \in Thread \ {Owner} : cur'[u] = cur[u]
         /\ rel' = rel /\ sc' = sc
<1>1. /\ MemType(DequeLoc, DequeValue) /\ Owner \in Thread /\ Top \in DequeLoc
      /\ Newest(l) \in Nat /\ Newest(l) >= 1
      /\ \A m \in DequeLoc : Linear(m)
      /\ Knows(Owner, l)
  BY DequeBasics, DequeLocations DEF DequeInv, Ordered
<1>2. Event(l, Newest(l)) \in cur[Owner]
  <2>1. <<l, Newest(l)>> \in cur[Owner] /\ Newest(l) \in 1..Newest(l)
    BY <1>1 DEF Knows
  <2> QED
    BY <2>1, DequeBasics
<1>3. /\ Appended(DequeLoc, l)
      /\ hist'[l][Newest(l) + 1].id = Newest(l) + 1
      /\ hist'[l][Newest(l) + 1].val = v
      /\ hist'[l][Newest(l) + 1].view = Released(Owner, ord)
      /\ cur'[Owner] = cur[Owner] \cup Upto(l, Newest(l)) \cup {NextEvent(l)}
      /\ \A u \in Thread \ {Owner} : cur'[u] = cur[u]
  BY <1>1, <1>2, StoreAtEnd
<1>4. MemType(DequeLoc, DequeValue)'
  BY <1>1, StoreType
<1>5. \A u \in Thread : cur[u] \subseteq cur'[u]
  BY <1>3
<1>6. rel' = rel /\ sc' = sc
  BY DEF Store, JoinSC, relaxed, release, seq_cst
<1>7. /\ Newest(l)' = Newest(l) + 1
      /\ \A k \in 1..Newest(l) : hist'[l][k] = hist[l][k]
      /\ \A m \in DequeLoc \ {l} : hist'[m] = hist[m]
      /\ hist'[Top] = hist[Top]
  BY <1>1, <1>3 DEF Appended, Newest
<1>8. Ordered'
  <2>1. \A m \in DequeLoc : Linear(m)'
    BY <1>1, <1>3, AppendedLinear
  <2>2. \A k \in 1..Newest(Top)' : Val(Top, k)' = k - 1 /\ (k > 1 => hist'[Top][k].kind = "rmw")
    BY <1>7 DEF DequeInv, Ordered, Newest, Val
  <2>3. ASSUME NEW m \in DequeLoc \ {Top, l}
        PROVE  Knows(Owner, m)'
    BY <1>1, <1>5, <1>7 DEF DequeInv, Ordered, Knows, Newest
  <2>4. Knows(Owner, l)'
    <3>1. \A j \in 1..(Newest(l) + 1) : j \in 1..Newest(l) \/ j = Newest(l) + 1
      BY <1>1
    <3> QED
      BY <1>1, <1>3, <1>7, <3>1 DEF Knows, NextEvent
  <2>5. \A t \in Thread, m \in DequeLoc : <<m, 1>> \in cur'[t]
    BY <1>5 DEF DequeInv, Ordered
  <2>6. \A k \in 2..Newest(Top)' : <<Top, k>> \in sc' \cup cur'[Owner]
    BY <1>1, <1>5, <1>6, <1>7 DEF DequeInv, Ordered, Newest
  <2> QED
    BY <2>1, <2>2, <2>3, <2>4, <2>5, <2>6 DEF Ordered
<1> QED
  BY <1>3, <1>4, <1>5, <1>6, <1>7, <1>8

(* A compare_exchange that succeeds finds the newest top, which is the     *)
(* number of items that have left, and leaves it one greater.              *)
LEMMA Winning ==
  ASSUME DequeInv, NEW t \in Thread, NEW ord, WinTop(t, ord), ord = seq_cst \/ t = Owner
  PROVE  /\ idx[t] = Gone /\ Gone' = Gone + 1
         /\ MemType(DequeLoc, DequeValue)' /\ Ordered'
         /\ \A m \in DequeLoc \ {Top} : hist'[m] = hist[m]
         /\ \A u \in Thread : cur[u] \subseteq cur'[u]
         /\ \A u \in Thread \ {t} : cur'[u] = cur[u]
         /\ rel' = rel
         /\ \A j \in Nat : <<Bottom, j>> \in sc' <=> <<Bottom, j>> \in sc
         /\ out' = Append(out, x[t])
         /\ won' \in [Thread -> SUBSET Events(DequeLoc)]
         /\ UNCHANGED <<idx, b, x, arr, sz, copied, pushes>>
<1>1. PICK i \in Extendable(t, Top, ord) :
        Val(Top, i) = idx[t] /\ ReadModifyWrite(t, Top, i, Plus(idx[t], 1), ord)
  BY DEF WinTop
<1>2. /\ MemType(DequeLoc, DequeValue) /\ Owner \in Thread
      /\ Top \in DequeLoc /\ Bottom \in DequeLoc /\ Top # Bottom /\ Top # ArrayPtr
      /\ Newest(Top) \in Nat /\ Newest(Top) >= 1
      /\ \A m \in DequeLoc : Linear(m)
      /\ \A k \in 1..Newest(Top) : Val(Top, k) = k - 1 /\ (k > 1 => hist[Top][k].kind = "rmw")
  BY DequeBasics, DequeLocations DEF DequeInv, Ordered
<1>3. i \in 1..Newest(Top)
  BY <1>1, ExtendableRange
<1>4. i = Newest(Top)
  <2>1. i < Newest(Top) => hist[Top][i + 1].kind # "rmw"
    BY <1>1 DEF Extendable
  <2>2. i < Newest(Top) => i + 1 \in 1..Newest(Top) /\ i + 1 > 1
    BY <1>2, <1>3
  <2> QED
    BY <1>2, <1>3, <2>1, <2>2
<1>5. idx[t] = Gone
  BY <1>1, <1>2, <1>3, <1>4 DEF Gone
<1>6. Plus(idx[t], 1) = Gone + 1
  <2>1. Gone <= MaxPushes
    BY DequeBasics DEF DequeInv, Window, Pushed
  <2>2. Gone \in Nat /\ SizeMax \in Nat /\ Gone + 1 < SizeMax + 1
    BY <2>1, DequeBasics
  <2> QED
    BY <1>5, <2>2 DEF Plus
<1>7. Plus(idx[t], 1) \in DequeValue
  BY <1>6, DequeBasics DEF DequeValue
<1>8. /\ Appended(DequeLoc, Top)
      /\ hist'[Top][Newest(Top) + 1].id = Newest(Top) + 1
      /\ hist'[Top][Newest(Top) + 1].val = Gone + 1
      /\ hist'[Top][Newest(Top) + 1].kind = "rmw"
  BY <1>1, <1>2, <1>4, <1>6, <1>7, ReadModifyWriteAtEnd
<1>9. MemType(DequeLoc, DequeValue)'
  BY <1>1, <1>2, <1>7, ReadModifyWriteType
<1>10. /\ cur'[t] = Observe(t, Top, i, ord) \cup {NextEvent(Top)}
       /\ \A u \in Thread \ {t} : cur'[u] = cur[u]
       /\ rel' = rel
       /\ sc' = IF ord = seq_cst THEN sc \cup {NextEvent(Top)} ELSE sc
  BY <1>1, <1>2 DEF MemType, ReadModifyWrite, JoinSC
<1>11. \A u \in Thread : cur[u] \subseteq cur'[u]
  BY <1>10 DEF Observe
<1>12. /\ Newest(Top)' = Newest(Top) + 1
       /\ \A k \in 1..Newest(Top) : hist'[Top][k] = hist[Top][k]
       /\ \A m \in DequeLoc \ {Top} : hist'[m] = hist[m]
  BY <1>8 DEF Appended, Newest
<1>13. Gone' = Gone + 1
  BY <1>2, <1>12 DEF Gone
<1>14. Ordered'
  <2>1. \A m \in DequeLoc : Linear(m)'
    BY <1>2, <1>8, AppendedLinear
  <2>2. \A k \in 1..Newest(Top)' : Val(Top, k)' = k - 1 /\ (k > 1 => hist'[Top][k].kind = "rmw")
    <3>1. \A k \in 1..(Newest(Top) + 1) : k \in 1..Newest(Top) \/ k = Newest(Top) + 1
      BY <1>2
    <3>2. \A k \in 1..Newest(Top) : hist'[Top][k].val = k - 1 /\ (k > 1 => hist'[Top][k].kind = "rmw")
      BY <1>2, <1>12 DEF Val
    <3>3. hist'[Top][Newest(Top) + 1].val = (Newest(Top) + 1) - 1
      BY <1>2, <1>8 DEF Gone
    <3>4. \A k \in 1..(Newest(Top) + 1) : hist'[Top][k].val = k - 1 /\ (k > 1 => hist'[Top][k].kind = "rmw")
      BY <1>8, <3>1, <3>2, <3>3
    <3> QED
      BY <1>12, <3>4 DEF Val
  <2>3. \A m \in DequeLoc \ {Top} : Knows(Owner, m)'
    BY <1>2, <1>11, <1>12 DEF DequeInv, Ordered, Knows, Newest
  <2>4. \A u \in Thread, m \in DequeLoc : <<m, 1>> \in cur'[u]
    BY <1>11 DEF DequeInv, Ordered
  <2>5. \A k \in 2..Newest(Top)' : <<Top, k>> \in sc' \cup cur'[Owner]
    <3>1. \A k \in 2..(Newest(Top) + 1) : k \in 2..Newest(Top) \/ k = Newest(Top) + 1
      BY <1>2
    <3>2. <<Top, Newest(Top) + 1>> \in sc' \cup cur'[Owner]
      BY <1>10 DEF NextEvent
    <3>3. \A k \in 2..Newest(Top) : <<Top, k>> \in sc' \cup cur'[Owner]
      BY <1>2, <1>10, <1>11 DEF DequeInv, Ordered
    <3> QED
      BY <1>12, <3>1, <3>2, <3>3
  <2> QED
    BY <2>1, <2>2, <2>3, <2>4, <2>5 DEF Ordered
<1>15. \A j \in Nat : <<Bottom, j>> \in sc' <=> <<Bottom, j>> \in sc
  BY <1>2, <1>10 DEF NextEvent
<1>16. won' \in [Thread -> SUBSET Events(DequeLoc)]
  <2>1. NextEvent(Top) \in Events(DequeLoc)
    BY <1>2 DEF NextEvent, Events
  <2> QED
    BY <2>1 DEF WinTop, DequeInv, DequeTypes
<1> QED
  BY <1>5, <1>9, <1>10, <1>11, <1>12, <1>13, <1>14, <1>15, <1>16 DEF WinTop

(* A compare_exchange that fails only reads top.                           *)
LEMMA Losing ==
  ASSUME DequeInv, NEW t \in Thread, LoseTop(t)
  PROVE  /\ hist' = hist /\ rel' = rel /\ sc' = sc
         /\ MemType(DequeLoc, DequeValue)' /\ Ordered'
         /\ \A u \in Thread : cur[u] \subseteq cur'[u]
         /\ \A u \in Thread \ {t} : cur'[u] = cur[u]
         /\ \E i \in 1..Newest(Top) :
              i - 1 # idx[t] /\ \A k \in (i + 1)..Newest(Top) : <<Top, k>> \notin cur[t]
<1>1. PICK i \in Readable(t, Top, relaxed) : Val(Top, i) # idx[t] /\ Load(t, Top, i, relaxed)
  BY DEF LoseTop
<1>2. relaxed # seq_cst /\ Top \in DequeLoc
  BY DequeLocations DEF relaxed, seq_cst
<1>3. /\ i \in 1..Newest(Top) /\ hist' = hist /\ rel' = rel /\ sc' = sc
      /\ MemType(DequeLoc, DequeValue)' /\ Ordered'
      /\ \A u \in Thread : cur[u] \subseteq cur'[u]
      /\ \A u \in Thread \ {t} : cur'[u] = cur[u]
      /\ \A k \in (i + 1)..Newest(Top) : <<Top, k>> \notin cur[t]
  BY <1>1, <1>2, DequeLoading
<1>4. i - 1 # idx[t]
  BY <1>1, <1>3 DEF DequeInv, Ordered
<1> QED
  BY <1>3, <1>4

(* A seq_cst fence makes visible what the earlier ones have published.     *)
LEMMA Fencing ==
  ASSUME DequeInv, NEW t \in Thread, SeqCstFence(t, Written(t))
  PROVE  /\ hist' = hist /\ MemType(DequeLoc, DequeValue)' /\ Ordered'
         /\ cur[t] \cup sc \subseteq cur'[t]
         /\ rel'[t] = cur'[t]
         /\ \A u \in Thread : cur[u] \subseteq cur'[u]
         /\ \A u \in Thread \ {t} : cur'[u] = cur[u] /\ rel'[u] = rel[u]
         /\ sc' = sc \cup Written(t)
<1>1. /\ MemType(DequeLoc, DequeValue)
      /\ won \in [Thread -> SUBSET Events(DequeLoc)]
  BY DEF DequeInv, DequeTypes
<1>2. /\ hist' = hist
      /\ cur' = [cur EXCEPT ![t] = cur[t] \cup acq[t] \cup sc]
      /\ rel' = [rel EXCEPT ![t] = cur[t] \cup acq[t] \cup sc]
      /\ acq' = [acq EXCEPT ![t] = {}]
      /\ sc' = sc \cup Written(t)
  BY DEF SeqCstFence
<1>3. \A l \in DequeLoc \ {Top} : Upto(l, Newest(l)) \subseteq Events(DequeLoc)
  <2> SUFFICES ASSUME NEW l \in DequeLoc
               PROVE  Upto(l, Newest(l)) \subseteq Events(DequeLoc)
    OBVIOUS
  <2>1. \A j \in 1..Newest(l) : Event(l, j) = <<l, j>> /\ j \in Nat
    BY DequeBasics
  <2> QED
    BY <2>1 DEF Upto, Events
<1>4. Written(t) \subseteq Events(DequeLoc)
  BY <1>1, <1>3 DEF Written
<1>5. MemType(DequeLoc, DequeValue)'
  BY <1>1, <1>2, <1>4 DEF MemType
<1>6. /\ cur[t] \cup sc \subseteq cur'[t] /\ rel'[t] = cur'[t]
      /\ \A u \in Thread \ {t} : cur'[u] = cur[u] /\ rel'[u] = rel[u]
  BY <1>1, <1>2 DEF MemType
<1>7. \A u \in Thread : cur[u] \subseteq cur'[u]
  BY <1>6
<1>8. Ordered'
  BY <1>2, <1>7, DequeReading
<1> QED
  BY <1>2, <1>5, <1>6, <1>7, <1>8

-----------------------------------------------------------------------------
(* A thief is sound after a step of another thread that leaves top alone,  *)
(* if what it relies on stays: the messages of bottom that are safe, what  *)
(* the arrays offer for them, and the item at the front.                   *)
LEMMA SoundKept ==
  ASSUME DequeInv, NEW u \in Thief, NEW k \in Nat, k = Gone, k = Gone', NEW n \in Nat,
         pc'[u] = pc[u], idx'[u] = idx[u], x'[u] = x[u], arr'[u] = arr[u], sz'[u] = sz[u],
         cur[u] \subseteq cur'[u],
         n = Newest(Bottom)', n >= Newest(Bottom),
         \A j \in 1..Newest(Bottom) : hist'[Bottom][j] = hist[Bottom][j] /\ (Safe(j) => Safe(j)'),
         \A j \in (Newest(Bottom) + 1)..n : hist'[Bottom][j].val > k => Safe(j)',
         \A j \in 1..Newest(Bottom), a \in Array :
           Safe(j) /\ Offers(j, k, a) /\ (a = "new" => Newest(ArrayPtr) = 2) => Offers(j, k, a)',
         \A j \in 1..Newest(Bottom) : Safe(j) => Item(k)' = Item(k),
         Newest(ArrayPtr) = 2 => Newest(ArrayPtr)' = 2 /\ hist'[ArrayPtr][2] = hist[ArrayPtr][2]
  PROVE  Sound(u)'
<1>1. /\ Sound(u) /\ arr[u] \in Array /\ Newest(Bottom) \in Nat
      /\ Newest(ArrayPtr) \in {1, 2}
  BY DequeBasics, DequeLocations DEF DequeInv, DequeTypes, Thieves, Arrays
<1>2. PICK a \in Array : a = arr[u] /\ a = arr'[u]
  BY <1>1
<1>3. idx'[u] <= k /\ (pc'[u] = "stealBuffer" => sz'[u] \in 1..Slots[arr'[u]])
  BY <1>1 DEF Sound
<1>4. pc'[u] \in {"stealSize", "stealBuffer"} /\ arr'[u] = "new" => Newest(ArrayPtr)' = 2
  BY <1>1 DEF Sound
<1>5. ASSUME idx'[u] = k, pc'[u] = "stealBottom", NEW j \in 1..n,
             \A m \in (j + 1)..n : <<Bottom, m>> \notin cur'[u], hist'[Bottom][j].val > k
      PROVE  Safe(j)'
  <2>1. CASE j \in 1..Newest(Bottom)
    <3>1. \A m \in (j + 1)..Newest(Bottom) : <<Bottom, m>> \notin cur[u]
      BY <1>1, <1>5, <2>1
    <3>2. Val(Bottom, j) > k
      BY <1>5, <2>1 DEF Val
    <3>3. Safe(j)
      BY <1>1, <1>5, <2>1, <3>1, <3>2 DEF Sound
    <3> QED
      BY <2>1, <3>3
  <2>2. CASE j \in (Newest(Bottom) + 1)..n
    BY <1>5, <2>2
  <2> QED
    BY <1>1, <2>1, <2>2
<1>6. ASSUME NEW j \in 1..Newest(Bottom), Seeing(u, j)
      PROVE  Seeing(u, j)'
  <2>1. Safe(j)' /\ hist'[Bottom][j].view \subseteq cur'[u]
    BY <1>6 DEF Seeing
  <2>2. ASSUME pc'[u] \in {"stealSize", "stealBuffer"}
        PROVE  /\ Offers(j, k, a)' /\ Installed(a)' \subseteq cur'[u]
               /\ a = "new" => Newest(ArrayPtr)' = 2
    <3>1. /\ Offers(j, k, a) /\ Installed(a) \subseteq cur[u]
          /\ a = "new" => Newest(ArrayPtr) = 2
      BY <1>2, <1>6, <2>2 DEF Seeing
    <3>2. Safe(j)
      BY <1>6 DEF Seeing
    <3>3. Offers(j, k, a)'
      BY <3>1, <3>2
    <3>4. Installed(a)' = Installed(a)
      BY <3>1 DEF Installed
    <3> QED
      BY <3>1, <3>3, <3>4
  <2>3. Offers(j, k, a)' => Offers(j, Gone, arr[u])'
    BY <1>2 DEF Offers, Item, Slot
  <2>4. Installed(a)' = Installed(arr[u])'
    BY <1>2 DEF Installed
  <2> QED
    BY <1>2, <2>1, <2>2, <2>3, <2>4 DEF Seeing
<1>7. ASSUME idx'[u] = k, pc'[u] \in StolenLabel
      PROVE  \E j \in 1..n : Seeing(u, j)'
  <2>1. PICK j \in 1..Newest(Bottom) : Seeing(u, j)
    BY <1>1, <1>7 DEF Sound
  <2> QED
    BY <1>1, <1>6, <2>1
<1>8. idx'[u] = k /\ pc'[u] = "stealBuffer" => sz'[u] = Length(arr[u])'
  <2>1. Length(arr[u])' = Length(a) /\ Length(arr[u]) = Length(a)
    BY <1>2 DEF Length
  <2> QED
    BY <1>1, <2>1 DEF Sound
<1>9. idx'[u] = k /\ pc'[u] = "stealCAS" => x'[u] = Item(Gone)'
  <2>1. Item(Gone)' = Item(k)' /\ Item(Gone) = Item(k)
    BY DEF Item, Slot
  <2>2. ASSUME idx'[u] = k, pc'[u] = "stealCAS"
        PROVE  Item(k)' = Item(k)
    <3>1. PICK j \in 1..Newest(Bottom) : Seeing(u, j)
      BY <1>1, <2>2 DEF Sound, StolenLabel
    <3> QED
      BY <3>1 DEF Seeing
  <2> QED
    BY <1>1, <2>1, <2>2 DEF Sound
<1> QED
  BY <1>3, <1>4, <1>5, <1>7, <1>8, <1>9 DEF Sound, Val

(* A thief whose compare_exchange can only fail is sound.                  *)
LEMMA Outrun ==
  ASSUME DequeInv, NEW u \in Thief, Gone' = Gone + 1,
         idx'[u] \in Nat, idx'[u] <= Gone, arr'[u] = arr[u], sz'[u] = sz[u],
         pc'[u] \in {pc[u], "idle"},
         hist'[ArrayPtr] = hist[ArrayPtr]
  PROVE  Sound(u)'
<1>1. Sound(u) /\ Gone \in Nat /\ idx'[u] <= Gone' /\ idx'[u] # Gone'
  BY DequeBasics DEF DequeInv, Thieves
<1>2. /\ pc'[u] = "stealBuffer" => sz'[u] \in 1..Slots[arr'[u]]
      /\ pc'[u] \in {"stealSize", "stealBuffer"} /\ arr'[u] = "new" => Newest(ArrayPtr)' = 2
  BY <1>1 DEF Sound, Newest
<1> QED
  BY <1>1, <1>2 DEF Sound

(* A step that leaves array alone keeps what the arrays offer, for the     *)
(* messages of bottom it keeps and for the ones it adds.                   *)
LEMMA OfferingKept ==
  ASSUME DequeInv, NEW n \in Nat, n = Newest(Bottom)', n >= Newest(Bottom),
         Gone' \in Nat, Gone' >= Gone, hist'[ArrayPtr] = hist[ArrayPtr],
         \A j \in 1..Newest(Bottom) : hist'[Bottom][j] = hist[Bottom][j],
         \A j \in 1..Newest(Bottom), k \in Nat : k >= Gone' /\ Keeps(j, k)' => Keeps(j, k),
         \A j \in 1..Newest(Bottom), k \in Nat, a \in Array :
           /\ k >= Gone /\ Keeps(j, k)' /\ Keeps(j, k)
           /\ Offers(j, k, a) /\ (a = "new" => Newest(ArrayPtr) = 2)
           => Offers(j, k, a)',
         \A j \in (Newest(Bottom) + 1)..n, k \in Nat, a \in Array :
           k >= Gone' /\ Keeps(j, k)' /\ a = OwnArray =>
             Offers(j, k, a)' /\ (Newest(ArrayPtr) = 2 => <<ArrayPtr, 2>> \in hist'[Bottom][j].view)
  PROVE  Offering'
<1>1. /\ Newest(Bottom) \in Nat /\ Gone \in Nat /\ OwnArray \in Array
      /\ (OwnArray = "new" <=> Newest(ArrayPtr) = 2)
  BY DequeBasics, DequeLocations
<1>2. OwnArray' = OwnArray /\ Newest(ArrayPtr)' = Newest(ArrayPtr)
  BY DEF OwnArray, Own, Val, Newest
<1>3. PICK a \in Array : a = OwnArray /\ a = OwnArray'
  BY <1>1, <1>2
<1>4. ASSUME NEW j \in 1..n, NEW k \in Nat, k >= Gone', k <= MaxPushes, Keeps(j, k)'
      PROVE  /\ Offers(j, k, a)'
             /\ \/ Offers(j, k, "old")'
                \/ Newest(ArrayPtr) = 2 /\ <<ArrayPtr, 2>> \in hist'[Bottom][j].view
  <2>1. CASE j \in 1..Newest(Bottom)
    <3>1. Keeps(j, k) /\ k \in Gone..MaxPushes
      BY <1>1, <1>4, <2>1, DequeBasics
    <3>2. /\ Offers(j, k, OwnArray)
          /\ Offers(j, k, "old") \/ (Newest(ArrayPtr) = 2 /\ <<ArrayPtr, 2>> \in hist[Bottom][j].view)
      BY <2>1, <3>1 DEF DequeInv, Offering
    <3>3. Offers(j, k, a)
      BY <1>3, <3>2
    <3>4. Offers(j, k, a)'
      BY <1>1, <1>3, <1>4, <2>1, <3>1, <3>3
    <3>5. "old" \in Array /\ "old" # "new"
      BY DequeLocations
    <3>6. Offers(j, k, "old") => Offers(j, k, "old")'
      BY <1>1, <1>4, <2>1, <3>1, <3>5
    <3> QED
      BY <2>1, <3>2, <3>4, <3>6
  <2>2. CASE j \in (Newest(Bottom) + 1)..n
    <3>1. /\ Offers(j, k, a)'
          /\ Newest(ArrayPtr) = 2 => <<ArrayPtr, 2>> \in hist'[Bottom][j].view
      BY <1>3, <1>4, <2>2
    <3>2. a = "old" \/ Newest(ArrayPtr) = 2
      BY <1>1, <1>3, DequeLocations
    <3> QED
      BY <3>1, <3>2
  <2> QED
    BY <1>1, <1>4, <2>1, <2>2
<1>5. \A j, k : Offers(j, k, a)' => Offers(j, k, OwnArray)'
  BY <1>3 DEF Offers, Slot
<1>6. \A k \in Gone'..MaxPushes : k \in Nat /\ k >= Gone' /\ k <= MaxPushes
  BY DequeBasics
<1> QED
  BY <1>2, <1>4, <1>5, <1>6 DEF Offering

(* A step that changes no history leaves what is computed from them.       *)
LEMMA SameMemory ==
  ASSUME hist' = hist
  PROVE  /\ Gone' = Gone /\ OwnArray' = OwnArray
         /\ \A l : Newest(l)' = Newest(l) /\ Own(l)' = Own(l)
         /\ \A l, i : Val(l, i)' = Val(l, i)
         /\ \A k : Item(k)' = Item(k)
         /\ \A j, k, a : Offers(j, k, a)' <=> Offers(j, k, a)
         /\ \A a : Installed(a)' = Installed(a)
<1>1. \A l : Newest(l)' = Newest(l)
  BY DEF Newest
<1>2. \A l, i : Val(l, i)' = Val(l, i)
  BY DEF Val
<1>3. \A l : Own(l)' = Own(l)
  BY DEF Own, Newest, Val
<1>4. Gone' = Gone /\ OwnArray' = OwnArray
  BY DEF Gone, OwnArray, Own, Newest, Val
<1>5. \A k : Item(k)' = Item(k)
  BY <1>4 DEF Item, Slot, Own, Val, Newest
<1>6. \A a : Installed(a)' = Installed(a)
  BY DEF Installed
<1>7. \A j, k, a : Offers(j, k, a)' <=> Offers(j, k, a)
  BY <1>5, <1>6 DEF Offers, Slot, Own, Val, Newest
<1> QED
  BY <1>1, <1>2, <1>3, <1>4, <1>5, <1>6, <1>7

(* A message of bottom that keeps an index tells that it is in the deque.  *)
LEMMA KeptInside ==
  ASSUME DequeInv, NEW j \in 1..Newest(Bottom), NEW k \in Nat, Keeps(j, k)
  PROVE  /\ pc[Owner] # "restore" => k < Limit
         /\ pc[Owner] \notin RaceLabel => k < Own(Bottom)
         /\ k <= Own(Bottom)
         /\ k = Own(Bottom) => pc[Owner] \in RaceLabel
<1>1. Newest(Bottom) \in Nat /\ Newest(Bottom) >= 1 /\ Own(Bottom) \in Nat /\ b \in Nat
  BY DequeBasics, DequeLocations
<1>2. Newest(Bottom) \in j..Newest(Bottom)
  BY <1>1
<1>3. Own(Bottom) > k \/ (pc[Owner] \in RaceLabel /\ Own(Bottom) = k)
  BY <1>2 DEF Keeps, Own
<1>4. pc[Owner] \in TakeLabel => b = Own(Bottom)
  BY DEF DequeInv, Window
<1>5. RaceLabel \subseteq TakeLabel /\ "restore" \notin RaceLabel
  BY DEF TakeLabel, RaceLabel
<1> QED
  BY <1>1, <1>3, <1>4, <1>5 DEF Limit

(* A step of push() before its store of bottom takes no part in the race   *)
(* for the items.                                                          *)
LEMMA PushFrame ==
  ASSUME DequeInv, pc[Owner] \notin TakeLabel, pc'[Owner] \notin TakeLabel,
         hist'[Bottom] = hist[Bottom], hist'[Top] = hist[Top], sc' = sc, out' = out,
         Pushed' = Pushed,
         \A k \in Nat : k >= Gone /\ k < Limit => Item(k)' = Item(k)
  PROVE  /\ Race' /\ Falls' /\ Items'
         /\ Gone' = Gone /\ Limit' = Limit /\ Own(Bottom)' = Own(Bottom)
         /\ Newest(Bottom)' = Newest(Bottom)
         /\ \A j, k : Keeps(j, k)' <=> Keeps(j, k)
         /\ \A j : Safe(j)' <=> Safe(j)
<1>1. /\ Gone' = Gone /\ Newest(Bottom)' = Newest(Bottom)
      /\ \A j : Val(Bottom, j)' = Val(Bottom, j)
      /\ Own(Bottom)' = Own(Bottom)
  BY DEF Gone, Newest, Val, Own
<1>2. /\ Limit' = Own(Bottom) /\ Limit = Own(Bottom)
  BY <1>1 DEF Limit
<1>3. /\ pc[Owner] \notin RaceLabel /\ pc'[Owner] \notin RaceLabel
      /\ pc[Owner] # "restore" /\ pc'[Owner] # "restore"
      /\ "takeFence" \in RaceLabel /\ "takeTop" \in RaceLabel /\ "takeCAS" \in RaceLabel
  BY DEF TakeLabel, RaceLabel
<1>4. \A j, k : Keeps(j, k)' <=> Keeps(j, k)
  BY <1>1, <1>3 DEF Keeps
<1>5. \A j : Safe(j)' <=> Safe(j)
  <2>1. \A j : Keeps(j, Gone)' <=> Keeps(j, Gone)
    BY <1>1, <1>3 DEF Keeps
  <2> QED
    BY <1>3, <2>1 DEF Safe
<1>6. Race'
  BY <1>3 DEF Race
<1>7. Falls'
  BY <1>1, <1>3 DEF DequeInv, Falls, LastFenced
<1>8. Items'
  <2>1. Gone \in Nat /\ Limit \in Nat
    BY DequeBasics
  <2>2. \A k \in Gone..(Limit - 1) : Item(k)' = Item(k)
    BY <2>1
  <2>3. Items
    BY DEF DequeInv
  <2>4. Gone'..(Limit' - 1) = Gone..(Limit - 1)
    BY <1>1, <1>2
  <2>5. \A k \in Gone..(Limit - 1) : Item(k)' \in 1..Pushed
    BY <2>2, <2>3 DEF Items
  <2>6. \A k, m \in Gone..(Limit - 1) : Item(k)' = Item(m)' => k = m
    BY <2>2, <2>3 DEF Items
  <2>7. \A i \in 1..Len(out), k \in Gone..(Limit - 1) : out[i] # Item(k)'
    BY <2>2, <2>3 DEF Items
  <2> QED
    BY <2>3, <2>4, <2>5, <2>6, <2>7 DEF Items
<1> QED
  BY <1>1, <1>2, <1>4, <1>5, <1>6, <1>7, <1>8

(* Nor does it take anything from what the thieves have seen.              *)
LEMMA PushOthers ==
  ASSUME DequeInv, pc[Owner] \notin TakeLabel, pc'[Owner] \notin TakeLabel,
         hist'[Bottom] = hist[Bottom], hist'[Top] = hist[Top],
         hist'[ArrayPtr] = hist[ArrayPtr],
         \A j, k : Keeps(j, k)' <=> Keeps(j, k), \A j : Safe(j)' <=> Safe(j),
         \A k \in Nat : k >= Gone /\ k < Limit => Item(k)' = Item(k),
         \A u \in Thief : /\ pc'[u] = pc[u] /\ idx'[u] = idx[u] /\ x'[u] = x[u]
                          /\ arr'[u] = arr[u] /\ sz'[u] = sz[u] /\ cur[u] \subseteq cur'[u],
         \A j \in 1..Newest(Bottom), k \in Nat, a \in Array :
           k >= Gone /\ k < Limit /\ Offers(j, k, a) /\ (a = "new" => Newest(ArrayPtr) = 2)
             => Offers(j, k, a)'
  PROVE  Offering' /\ Thieves'
<1>1. /\ Newest(Bottom) \in Nat /\ Gone \in Nat
      /\ Newest(Bottom)' = Newest(Bottom) /\ Gone' = Gone
  BY DequeBasics, DequeLocations DEF Newest, Gone
<1>2. \A j \in 1..Newest(Bottom), k \in Nat : Keeps(j, k) => k < Limit
  BY KeptInside DEF TakeLabel
<1>3. Offering'
  BY <1>1, <1>2, OfferingKept
<1>4. PICK g \in Nat : g = Gone /\ g = Gone'
  BY <1>1
<1>5. \A j \in 1..Newest(Bottom) : Safe(j) => g < Limit
  <2>1. \A j : Safe(j) => Keeps(j, g)
    BY <1>4 DEF Safe, Keeps
  <2> QED
    BY <1>2, <2>1
<1>6. \A u \in Thief : Sound(u)'
  <2>1. PICK n \in Nat : n = Newest(Bottom) /\ n = Newest(Bottom)'
    BY <1>1
  <2>2. \A j \in (Newest(Bottom) + 1)..n : FALSE
    BY <2>1
  <2>3. Newest(ArrayPtr) = 2 => Newest(ArrayPtr)' = 2
    BY DEF Newest
  <2>4. \A j \in 1..Newest(Bottom) : Safe(j) => Item(g)' = Item(g)
    BY <1>4, <1>5
  <2>5. \A j \in 1..Newest(Bottom), a \in Array :
          Safe(j) /\ Offers(j, g, a) /\ (a = "new" => Newest(ArrayPtr) = 2) => Offers(j, g, a)'
    BY <1>4, <1>5
  <2>6. \A j \in 1..Newest(Bottom) : hist'[Bottom][j] = hist[Bottom][j] /\ (Safe(j) => Safe(j)')
    OBVIOUS
  <2> QED
    BY <1>4, <2>1, <2>2, <2>3, <2>4, <2>5, <2>6, SoundKept
<1> QED
  BY <1>3, <1>6 DEF Thieves

-----------------------------------------------------------------------------
(* The owner's steps leave the locals of the thieves.                      *)
LEMMA OthersStay ==
  ASSUME DequeInv, NEW l, pc' = [pc EXCEPT ![Owner] = l] \/ (pc' = pc /\ l = pc[Owner]),
         arr' = arr \/ \E a \in Array : arr' = [arr EXCEPT ![Owner] = a],
         idx' = idx \/ \E n \in Nat : idx' = [idx EXCEPT ![Owner] = n],
         x' = x \/ \E n \in Nat \cup {EMPTY} : x' = [x EXCEPT ![Owner] = n],
         sz' = sz \/ \E n \in Nat : sz' = [sz EXCEPT ![Owner] = n]
  PROVE  /\ pc'[Owner] = l /\ DOMAIN pc' = Thread
         /\ arr' \in [Thread -> Array] /\ idx' \in [Thread -> Nat] /\ sz' \in [Thread -> Nat]
         /\ x' \in [Thread -> Nat \cup {EMPTY}]
         /\ \A u \in Thief : /\ pc'[u] = pc[u] /\ idx'[u] = idx[u] /\ x'[u] = x[u]
                             /\ arr'[u] = arr[u] /\ sz'[u] = sz[u]
         /\ \A u \in Thief : pc'[u] \in ThiefLabel
<1>1. /\ Owner \in Thread /\ Thief \subseteq Thread /\ Owner \notin Thief
      /\ DOMAIN pc = Thread /\ arr \in [Thread -> Array] /\ idx \in [Thread -> Nat]
      /\ sz \in [Thread -> Nat] /\ x \in [Thread -> Nat \cup {EMPTY}]
      /\ \A u \in Thief : pc[u] \in ThiefLabel
  BY DequeBasics DEF DequeInv, DequeTypes
<1>2. pc'[Owner] = l /\ DOMAIN pc' = Thread /\ \A u \in Thief : pc'[u] = pc[u]
  BY <1>1
<1>3. arr' \in [Thread -> Array] /\ \A u \in Thief : arr'[u] = arr[u]
  BY <1>1
<1>4. idx' \in [Thread -> Nat] /\ \A u \in Thief : idx'[u] = idx[u]
  BY <1>1
<1>5. x' \in [Thread -> Nat \cup {EMPTY}] /\ \A u \in Thief : x'[u] = x[u]
  BY <1>1
<1>6. sz' \in [Thread -> Nat] /\ \A u \in Thief : sz'[u] = sz[u]
  BY <1>1
<1> QED
  BY <1>1, <1>2, <1>3, <1>4, <1>5, <1>6

(* The values of a location that nothing is stored to stay numbers.        *)
LEMMA SameNumbers ==
  ASSUME DequeInv, hist' = hist
  PROVE  \A l \in DequeLoc \ {ArrayPtr} : \A i \in 1..Newest(l)' : Val(l, i)' \in Nat
BY DEF DequeInv, DequeTypes, Newest, Val

LEMMA PushLoadTopStep ==
  ASSUME DequeInv, Push_LoadTop, ResizesOnce'
  PROVE  DequeInv' /\ Unmoved
<1>1. PICK i \in Readable(Owner, Top, OrderPushTop) :
        /\ Load(Owner, Top, i, OrderPushTop)
        /\ Goto(Owner, "idle",
                IF Minus(b', Val(Top, i)) > Own(Size(OwnArray)) - 1 THEN "resize" ELSE "store")
  BY DEF Push_LoadTop
<1> DEFINE l == IF Minus(b', Val(Top, i)) > Own(Size(OwnArray)) - 1 THEN "resize" ELSE "store"
<1>2. /\ pc[Owner] = "idle" /\ pc' = [pc EXCEPT ![Owner] = l] /\ l \in {"resize", "store"}
      /\ pushes < MaxPushes /\ pushes' = pushes + 1 /\ b' = Own(Bottom)
      /\ arr' = [arr EXCEPT ![Owner] = OwnArray]
      /\ UNCHANGED <<idx, x, sz, copied, takes, steals, out, won>>
  BY <1>1 DEF Push_LoadTop, Goto
<1>3. /\ MemType(DequeLoc, DequeValue) /\ Owner \in Thread /\ Top \in DequeLoc
      /\ OwnArray \in Array /\ Own(Size(OwnArray)) = Length(OwnArray)
      /\ Gone \in Nat /\ Own(Bottom) \in Nat /\ Limit \in Nat /\ Pushed \in Nat /\ pushes \in Nat
      /\ MaxPushes \in Nat /\ SizeMax \in Nat /\ SizeMax > MaxPushes
      /\ (OwnArray = "new" <=> Newest(ArrayPtr) = 2)
  BY DequeBasics, DequeLocations
<1>4. /\ i \in 1..Newest(Top) /\ hist' = hist /\ rel' = rel /\ sc' = sc
      /\ MemType(DequeLoc, DequeValue)' /\ Ordered'
      /\ \A u \in Thread : cur[u] \subseteq cur'[u]
  BY <1>1, <1>3, DequeLoading
<1> HIDE DEF l
<1>5. /\ pc'[Owner] = l /\ DOMAIN pc' = Thread
      /\ arr' \in [Thread -> Array] /\ idx' \in [Thread -> Nat] /\ sz' \in [Thread -> Nat]
      /\ x' \in [Thread -> Nat \cup {EMPTY}]
      /\ \A u \in Thief : /\ pc'[u] = pc[u] /\ idx'[u] = idx[u] /\ x'[u] = x[u]
                          /\ arr'[u] = arr[u] /\ sz'[u] = sz[u]
      /\ \A u \in Thief : pc'[u] \in ThiefLabel
  BY <1>2, <1>3, OthersStay
<1>6. /\ Gone' = Gone /\ OwnArray' = OwnArray
      /\ \A m : Newest(m)' = Newest(m) /\ Own(m)' = Own(m)
      /\ \A m, k : Val(m, k)' = Val(m, k)
      /\ \A k : Item(k)' = Item(k)
      /\ \A j, k, a : Offers(j, k, a)' <=> Offers(j, k, a)
  BY <1>4, SameMemory
<1>7. /\ pc[Owner] \notin TakeLabel /\ pc'[Owner] \notin TakeLabel
      /\ pc[Owner] \notin PushLabel /\ pc'[Owner] \in PushLabel
  BY <1>2, <1>5 DEF TakeLabel, RaceLabel, PushLabel
<1>8. Pushed' = Pushed
  BY <1>2, <1>3, <1>7 DEF Pushed
<1>9. /\ Race' /\ Falls' /\ Items' /\ Limit' = Limit
      /\ \A j, k : Keeps(j, k)' <=> Keeps(j, k)
      /\ \A j : Safe(j)' <=> Safe(j)
  BY <1>2, <1>4, <1>6, <1>7, <1>8, PushFrame
<1>10. Offering' /\ Thieves'
  <2>1. \A u \in Thief : cur[u] \subseteq cur'[u]
    BY <1>4 DEF Thief
  <2> QED
    BY <1>4, <1>5, <1>6, <1>7, <1>9, <2>1, PushOthers
<1>11. DequeTypes'
  <2>1. \A m \in DequeLoc \ {ArrayPtr} : \A k \in 1..Newest(m)' : Val(m, k)' \in Nat
    BY <1>4, SameNumbers
  <2>2. b' \in Nat /\ pushes' \in Nat
    BY <1>2, <1>3
  <2> QED
    BY <1>2, <1>4, <1>5, <1>7, <2>1, <2>2 DEF DequeInv, DequeTypes
<1>12. Arrays'
  <2>1. arr'[Owner] = OwnArray
    BY <1>2, <1>3 DEF DequeInv, DequeTypes
  <2>2. pc'[Owner] = "resize" => Newest(Size("new")) = 1
    <3>1. pc'[Owner] = "resize" => OwnArray = "old"
      BY <1>6 DEF ResizesOnce
    <3>2. pc[Owner] # "copy"
      BY <1>2
    <3>3. Newest(ArrayPtr) = Newest(Size("new")) /\ Newest(ArrayPtr) \in {1, 2}
      BY <3>2 DEF DequeInv, Arrays
    <3> QED
      BY <1>3, <3>1, <3>3, DequeLocations
  <2>3. pc'[Owner] \in {"resize", "store"}
    BY <1>2, <1>5
  <2> QED
    BY <1>2, <1>4, <1>6, <2>1, <2>2, <2>3 DEF DequeInv, Arrays
<1>13. Window'
  <2>1. Limit = Own(Bottom) /\ b' = Limit /\ Gone <= Limit /\ Limit <= Pushed /\ Limit <= MaxPushes
    BY <1>2, <1>3, <1>7 DEF DequeInv, Window, Limit, Pushed
  <2>2. pc'[Owner] = "store" => b' < Gone + Length(OwnArray)
    <3>1. Val(Top, i) = i - 1 /\ i - 1 \in Nat /\ i - 1 <= Gone
      BY <1>3, <1>4, DequeBasics DEF DequeInv, Ordered, Gone
    <3>2. PICK d \in Nat : b' = i - 1 + d /\ d <= SizeMax
      <4>1. b' - (i - 1) \in Nat /\ b' = i - 1 + (b' - (i - 1)) /\ b' - (i - 1) <= SizeMax
        BY <1>3, <2>1, <3>1
      <4> QED
        BY <4>1
    <3>3. (d + SizeMax + 1) % (SizeMax + 1) = d
      <4>1. (d + 1 * (SizeMax + 1)) % (SizeMax + 1) = d % (SizeMax + 1)
        BY <1>3, <3>2, Z3
      <4>2. d % (SizeMax + 1) = d
        BY <1>3, <3>2
      <4>3. d + SizeMax + 1 = d + 1 * (SizeMax + 1)
        BY <1>3, <3>2
      <4> QED
        BY <4>1, <4>2, <4>3
    <3>4. Minus(b', Val(Top, i)) = d
      <4>1. b' + SizeMax + 1 - (i - 1) = d + SizeMax + 1
        BY <1>3, <3>1, <3>2
      <4> QED
        BY <3>1, <3>3, <4>1 DEF Minus
    <3>5. pc'[Owner] = "store" => d <= Length(OwnArray) - 1
      BY <1>3, <1>5, <3>2, <3>4, SlotsApart DEF l
    <3> QED
      BY <1>3, <2>1, <3>1, <3>2, <3>5, SlotsApart
  <2>3. Length(OwnArray)' = Length(OwnArray)
    BY <1>6 DEF Length
  <2>4. pc'[Owner] \notin {"pushFence", "pushBottom", "resizeSize", "copy"}
    BY <1>2, <1>5
  <2>5. Limit <= Gone + Length(OwnArray) /\ (Pushed > 0 => Limit > 0)
    BY DEF DequeInv, Window
  <2>6. pushes' <= MaxPushes /\ pushes' > 0
    BY <1>2, <1>3
  <2> QED
    BY <1>6, <1>7, <1>8, <1>9, <2>1, <2>2, <2>3, <2>4, <2>5, <2>6 DEF Window
<1>14. Fenced'
  BY <1>2, <1>4, <1>5, <1>6 DEF DequeInv, Fenced
<1>15. Unmoved
  <2>1. \A k \in Gone..(Limit - 1) : k \in Nat /\ k >= Gone /\ k < Limit
    BY DequeBasics
  <2> QED
    BY <1>2, <1>6, <1>8, <1>9, <2>1 DEF Unmoved
<1> QED
  BY <1>4, <1>9, <1>10, <1>11, <1>12, <1>13, <1>14, <1>15 DEF DequeInv

(* A step inside push() that changes no history.                           *)
LEMMA PushReading ==
  ASSUME DequeInv, pc[Owner] \in PushLabel, NEW l \in PushLabel, pc' = [pc EXCEPT ![Owner] = l],
         hist' = hist, sc' = sc, MemType(DequeLoc, DequeValue)', Ordered',
         \A u \in Thread : cur[u] \subseteq cur'[u],
         UNCHANGED <<idx, b, x, arr, pushes, out, won>>,
         sz' = sz \/ \E n \in Nat : sz' = [sz EXCEPT ![Owner] = n],
         copied' \in Nat
  PROVE  /\ DequeTypes' /\ Race' /\ Falls' /\ Items' /\ Offering' /\ Thieves'
         /\ Limit' = Limit /\ Pushed' = Pushed /\ pc'[Owner] = l
<1>1. /\ pc'[Owner] = l /\ DOMAIN pc' = Thread
      /\ arr' \in [Thread -> Array] /\ idx' \in [Thread -> Nat] /\ sz' \in [Thread -> Nat]
      /\ x' \in [Thread -> Nat \cup {EMPTY}]
      /\ \A u \in Thief : /\ pc'[u] = pc[u] /\ idx'[u] = idx[u] /\ x'[u] = x[u]
                          /\ arr'[u] = arr[u] /\ sz'[u] = sz[u]
      /\ \A u \in Thief : pc'[u] \in ThiefLabel
  BY OthersStay
<1>2. /\ \A k : Item(k)' = Item(k)
      /\ \A j, k, a : Offers(j, k, a)' <=> Offers(j, k, a)
  BY SameMemory
<1>3. /\ pc[Owner] \notin TakeLabel /\ pc'[Owner] \notin TakeLabel
      /\ pc[Owner] \in PushLabel /\ pc'[Owner] \in PushLabel
  BY <1>1 DEF TakeLabel, RaceLabel, PushLabel
<1>4. Pushed' = Pushed
  BY <1>3 DEF Pushed
<1>5. /\ Race' /\ Falls' /\ Items' /\ Limit' = Limit
      /\ \A j, k : Keeps(j, k)' <=> Keeps(j, k)
      /\ \A j : Safe(j)' <=> Safe(j)
  BY <1>2, <1>3, <1>4, PushFrame
<1>6. Offering' /\ Thieves'
  <2>1. \A u \in Thief : cur[u] \subseteq cur'[u]
    BY DEF Thief
  <2> QED
    BY <1>1, <1>2, <1>3, <1>5, <2>1, PushOthers
<1>7. DequeTypes'
  <2>1. \A m \in DequeLoc \ {ArrayPtr} : \A k \in 1..Newest(m)' : Val(m, k)' \in Nat
    BY SameNumbers
  <2> QED
    BY <1>1, <1>3, <2>1 DEF DequeInv, DequeTypes
<1> QED
  BY <1>1, <1>4, <1>5, <1>6, <1>7

LEMMA ResizeLoadTopStep ==
  ASSUME DequeInv, ResizesOnce, Resize_LoadTop
  PROVE  DequeInv' /\ Unmoved
<1>1. PICK i \in Readable(Owner, Top, relaxed) :
        Load(Owner, Top, i, relaxed) /\ copied' = Val(Top, i)
  BY DEF Resize_LoadTop
<1>2. /\ pc[Owner] = "resize" /\ pc' = [pc EXCEPT ![Owner] = "resizeSize"]
      /\ sz' = [sz EXCEPT ![Owner] = Own(Size(OwnArray))]
      /\ UNCHANGED <<idx, b, x, arr, pushes, takes, steals, out, won>>
  BY DEF Resize_LoadTop, Goto
<1>3. /\ Owner \in Thread /\ Top \in DequeLoc /\ Gone \in Nat
      /\ Own(Size(OwnArray)) = Length(OwnArray) /\ OwnArray = "old"
  BY <1>2, DequeBasics, DequeLocations DEF ResizesOnce
<1>4. /\ i \in 1..Newest(Top) /\ hist' = hist /\ rel' = rel /\ sc' = sc
      /\ MemType(DequeLoc, DequeValue)' /\ Ordered'
      /\ \A u \in Thread : cur[u] \subseteq cur'[u]
  BY <1>1, <1>3, DequeLoading
<1>5. copied' = i - 1 /\ copied' \in Nat /\ copied' <= Gone
  BY <1>1, <1>3, <1>4, DequeBasics DEF DequeInv, Ordered, Gone
<1>6. /\ "resizeSize" \in PushLabel /\ pc[Owner] \in PushLabel
      /\ Own(Size(OwnArray)) = 2
  BY <1>2, <1>3 DEF PushLabel, Length
<1>7. /\ DequeTypes' /\ Race' /\ Falls' /\ Items' /\ Offering' /\ Thieves'
      /\ Limit' = Limit /\ Pushed' = Pushed /\ pc'[Owner] = "resizeSize"
  BY <1>2, <1>4, <1>5, <1>6, PushReading
<1>8. /\ Gone' = Gone /\ OwnArray' = OwnArray
      /\ \A m : Newest(m)' = Newest(m) /\ Own(m)' = Own(m)
      /\ \A m, k : Val(m, k)' = Val(m, k)
  BY <1>4, SameMemory
<1>9. Arrays'
  <2>1. sz'[Owner] = 2
    BY <1>2, <1>3, <1>6 DEF DequeInv, DequeTypes
  <2> QED
    BY <1>2, <1>4, <1>6, <1>7, <1>8, <2>1 DEF DequeInv, Arrays
<1>10. Window'
  <2>1. Length(OwnArray)' = Length(OwnArray)
    BY <1>8 DEF Length
  <2>2. /\ Gone <= Limit /\ Limit <= Pushed /\ Limit <= Gone + Length(OwnArray)
        /\ pushes <= MaxPushes /\ pushes > 0 /\ (Pushed > 0 => Limit > 0) /\ b = Own(Bottom)
    BY <1>6 DEF DequeInv, Window
  <2>3. pc[Owner] \notin TakeLabel /\ Limit = Own(Bottom)
    BY <1>2 DEF TakeLabel, RaceLabel, Limit
  <2>4. copied' <= b
    BY <1>3, <1>5, <2>2, <2>3, DequeBasics
  <2>5. pc'[Owner] \notin TakeLabel \cup {"store", "pushFence", "pushBottom", "copy"}
    BY <1>7 DEF TakeLabel, RaceLabel
  <2> QED
    BY <1>2, <1>5, <1>7, <1>8, <2>1, <2>2, <2>4, <2>5 DEF Window
<1>11. Fenced'
  BY <1>7 DEF Fenced
<1>12. Unmoved
  <2>1. \A k \in Gone..(Limit - 1) : k \in Nat /\ k >= Gone /\ k < Limit
    BY DequeBasics
  <2> QED
    BY <1>2, <1>7, <1>8, <1>4, SameMemory, <2>1 DEF Unmoved
<1> QED
  BY <1>4, <1>7, <1>9, <1>10, <1>11, <1>12 DEF DequeInv

LEMMA PushFenceStep ==
  ASSUME DequeInv, Push_Fence
  PROVE  DequeInv' /\ Unmoved
<1>1. /\ pc[Owner] = "pushFence" /\ pc' = [pc EXCEPT ![Owner] = "pushBottom"]
      /\ ReleaseFence(Owner)
      /\ UNCHANGED <<idx, b, x, arr, sz, copied, pushes, takes, steals, out, won>>
  BY DEF Push_Fence, Goto, Fence, OrderPushFence, relaxed, acquire, release, acq_rel, seq_cst,
         dequeLocals
<1>2. /\ MemType(DequeLoc, DequeValue) /\ Owner \in Thread
      /\ Gone \in Nat /\ b \in Nat
  BY DequeBasics
<1>3. /\ hist' = hist /\ sc' = sc /\ cur' = cur /\ acq' = acq
      /\ rel' = [rel EXCEPT ![Owner] = cur[Owner]]
  BY <1>1 DEF ReleaseFence
<1>4. MemType(DequeLoc, DequeValue)' /\ Ordered'
  <2>1. Ordered'
    BY <1>3, DequeReading
  <2> QED
    BY <1>2, <1>3, <2>1 DEF MemType
<1>5. "pushBottom" \in PushLabel /\ pc[Owner] \in PushLabel /\ copied' \in Nat
  BY <1>1 DEF PushLabel, DequeInv, DequeTypes
<1>6. /\ DequeTypes' /\ Race' /\ Falls' /\ Items' /\ Offering' /\ Thieves'
      /\ Limit' = Limit /\ Pushed' = Pushed /\ pc'[Owner] = "pushBottom"
  BY <1>1, <1>3, <1>4, <1>5, PushReading
<1>7. /\ Gone' = Gone /\ OwnArray' = OwnArray
      /\ \A m : Newest(m)' = Newest(m) /\ Own(m)' = Own(m)
      /\ \A m, k : Val(m, k)' = Val(m, k)
      /\ \A k : Item(k)' = Item(k)
  BY <1>3, SameMemory
<1>8. Arrays'
  BY <1>1, <1>3, <1>5, <1>6, <1>7 DEF DequeInv, Arrays
<1>9. Window'
  <2>1. Length(OwnArray)' = Length(OwnArray) /\ Item(b)' = Item(b)
    BY <1>1, <1>7 DEF Length, Item, Slot
  <2>2. pc'[Owner] \notin TakeLabel \cup {"store", "pushFence", "resizeSize", "copy"}
    BY <1>6 DEF TakeLabel, RaceLabel
  <2> QED
    BY <1>1, <1>5, <1>6, <1>7, <2>1, <2>2 DEF DequeInv, Window
<1>10. Fenced'
  <2>1. rel'[Owner] = cur[Owner]
    BY <1>2, <1>3 DEF MemType
  <2>2. \A l \in DequeLoc \ {Top, Bottom} : \A i \in 2..Newest(l) : <<l, i>> \in cur[Owner]
    <3>1. \A l \in DequeLoc \ {Top} : Knows(Owner, l)
      BY DEF DequeInv, Ordered
    <3>2. \A l \in DequeLoc : \A i \in 2..Newest(l) : i \in 1..Newest(l)
      BY DequeBasics
    <3> QED
      BY <3>1, <3>2 DEF Knows
  <2> QED
    BY <1>7, <2>1, <2>2 DEF Fenced
<1>11. Unmoved
  <2>1. \A k \in Gone..(Limit - 1) : k \in Nat /\ k >= Gone /\ k < Limit
    BY DequeBasics
  <2> QED
    BY <1>1, <1>3, <1>6, <1>7, SameMemory, <2>1 DEF Unmoved
<1> QED
  BY <1>4, <1>6, <1>8, <1>9, <1>10, <1>11 DEF DequeInv

(* A step inside push() that stores to a location that holds no item of    *)
(* the deque.                                                              *)
LEMMA PushStoring ==
  ASSUME DequeInv, pc[Owner] \in PushLabel, NEW l \in PushLabel,
         pc' = [pc EXCEPT ![Owner] = l] \/ (pc' = pc /\ l = pc[Owner]),
         NEW m \in DequeLoc \ {Top, Bottom, ArrayPtr}, NEW v \in Nat,
         Store(Owner, m, v, relaxed),
         UNCHANGED <<idx, b, x, arr, sz, pushes, out, won>>, copied' \in Nat,
         \A k \in Nat, a \in Array :
           k >= Gone /\ k < Limit /\ (a = "new" => Newest(ArrayPtr) = 2) => Slot(a, k) # m
  PROVE  /\ DequeTypes' /\ Ordered' /\ Race' /\ Falls' /\ Items' /\ Offering' /\ Thieves'
         /\ Limit' = Limit /\ Pushed' = Pushed /\ pc'[Owner] = l /\ Gone' = Gone
         /\ OwnArray' = OwnArray /\ Own(Bottom)' = Own(Bottom)
         /\ Newest(m)' = Newest(m) + 1 /\ Newest(m) \in Nat
         /\ \A k \in 1..Newest(m) : hist'[m][k] = hist[m][k]
         /\ hist'[m][Newest(m) + 1].val = v
         /\ \A n \in DequeLoc \ {m} : hist'[n] = hist[n]
         /\ \A k \in Nat : Slot(OwnArray, k) # m => Item(k)' = Item(k)
<1>1. /\ Top \in DequeLoc /\ Bottom \in DequeLoc /\ ArrayPtr \in DequeLoc
      /\ m # Top /\ m # Bottom /\ m # ArrayPtr
      /\ OwnArray \in Array /\ (OwnArray = "new" <=> Newest(ArrayPtr) = 2)
      /\ \A n \in DequeLoc : Newest(n) \in Nat
      /\ \A a \in Array, k \in Nat : Slot(a, k) \in DequeLoc
  BY DequeBasics, DequeLocations, SlotsApart
<1>2. v \in DequeValue /\ relaxed \in {relaxed, release}
  BY DEF DequeValue
<1>3. /\ MemType(DequeLoc, DequeValue)' /\ Ordered'
      /\ Newest(m)' = Newest(m) + 1
      /\ \A k \in 1..Newest(m) : hist'[m][k] = hist[m][k]
      /\ hist'[m][Newest(m) + 1].val = v
      /\ \A n \in DequeLoc \ {m} : hist'[n] = hist[n]
      /\ \A u \in Thread : cur[u] \subseteq cur'[u]
      /\ sc' = sc
  BY <1>1, <1>2, DequeStoring
<1>4. /\ pc'[Owner] = l /\ DOMAIN pc' = Thread
      /\ arr' \in [Thread -> Array] /\ idx' \in [Thread -> Nat] /\ sz' \in [Thread -> Nat]
      /\ x' \in [Thread -> Nat \cup {EMPTY}]
      /\ \A u \in Thief : /\ pc'[u] = pc[u] /\ idx'[u] = idx[u] /\ x'[u] = x[u]
                          /\ arr'[u] = arr[u] /\ sz'[u] = sz[u]
      /\ \A u \in Thief : pc'[u] \in ThiefLabel
  BY OthersStay
<1>5. /\ pc[Owner] \notin TakeLabel /\ pc'[Owner] \notin TakeLabel
      /\ pc[Owner] \in PushLabel /\ pc'[Owner] \in PushLabel
  BY <1>4 DEF TakeLabel, RaceLabel, PushLabel
<1>6. Pushed' = Pushed
  BY <1>5 DEF Pushed
<1>7. /\ hist'[Top] = hist[Top] /\ hist'[Bottom] = hist[Bottom] /\ hist'[ArrayPtr] = hist[ArrayPtr]
  BY <1>1, <1>3
<1>8. OwnArray' = OwnArray
  BY <1>7 DEF OwnArray, Own, Val, Newest
<1>9. \A k \in Nat, a \in Array : Slot(a, k) # m =>
        /\ hist'[Slot(a, k)] = hist[Slot(a, k)]
        /\ Own(Slot(a, k))' = Own(Slot(a, k))
        /\ Newest(Slot(a, k))' = Newest(Slot(a, k))
  <2>1. \A k \in Nat, a \in Array : Slot(a, k) # m => hist'[Slot(a, k)] = hist[Slot(a, k)]
    BY <1>1, <1>3
  <2> QED
    BY <2>1 DEF Slot, Own, Val, Newest
<1>10. \A k \in Nat : Slot(OwnArray, k) # m => Item(k)' = Item(k)
  <2>1. PICK a \in Array : a = OwnArray /\ a = OwnArray'
    BY <1>1, <1>8
  <2> QED
    BY <1>9, <2>1 DEF Item, Slot
<1>11. \A k \in Nat : k >= Gone /\ k < Limit => Item(k)' = Item(k)
  BY <1>1, <1>10
<1>12. /\ Race' /\ Falls' /\ Items' /\ Gone' = Gone /\ Limit' = Limit
       /\ Own(Bottom)' = Own(Bottom)
       /\ \A j, k : Keeps(j, k)' <=> Keeps(j, k)
       /\ \A j : Safe(j)' <=> Safe(j)
  BY <1>3, <1>5, <1>6, <1>7, <1>11, PushFrame
<1>13. \A j \in 1..Newest(Bottom), k \in Nat, a \in Array :
         k >= Gone /\ k < Limit /\ Offers(j, k, a) /\ (a = "new" => Newest(ArrayPtr) = 2)
           => Offers(j, k, a)'
  <2>1. Installed("new")' = Installed("new") /\ Installed("old")' = Installed("old")
    BY <1>7 DEF Installed
  <2>2. \A a \in Array : Installed(a)' = Installed(a)
    BY <2>1, DequeLocations
  <2> QED
    BY <1>7, <1>9, <1>11, <2>2 DEF Offers
<1>14. Offering' /\ Thieves'
  <2>1. \A u \in Thief : cur[u] \subseteq cur'[u]
    BY <1>3 DEF Thief
  <2> QED
    BY <1>4, <1>5, <1>7, <1>11, <1>12, <1>13, <2>1, PushOthers
<1>15. DequeTypes'
  <2>1. ASSUME NEW n \in DequeLoc \ {ArrayPtr}, NEW k \in 1..Newest(n)'
        PROVE  hist'[n][k].val \in Nat
    <3>1. CASE n # m
      BY <1>3, <2>1, <3>1 DEF DequeInv, DequeTypes, Newest, Val
    <3>2. CASE n = m /\ k \in 1..Newest(m)
      BY <1>1, <1>3, <3>2 DEF DequeInv, DequeTypes, Val
    <3>3. CASE n = m /\ k = Newest(m) + 1
      BY <1>3, <3>3
    <3> QED
      BY <1>1, <1>3, <2>1, <3>1, <3>2, <3>3
  <2>2. \A n \in DequeLoc \ {ArrayPtr} : \A k \in 1..Newest(n)' : Val(n, k)' \in Nat
    BY <2>1 DEF Val
  <2> QED
    BY <1>3, <1>4, <1>5, <2>2 DEF DequeInv, DequeTypes
<1> QED
  BY <1>1, <1>3, <1>4, <1>6, <1>8, <1>10, <1>12, <1>14, <1>15

LEMMA ResizeStoreSizeStep ==
  ASSUME DequeInv, Resize_StoreSize
  PROVE  DequeInv' /\ Unmoved
<1>0. PICK m : m = Size("new")
  OBVIOUS
<1>1. /\ pc[Owner] = "resizeSize" /\ pc' = [pc EXCEPT ![Owner] = "copy"]
      /\ Store(Owner, m, 2 * sz[Owner], relaxed)
      /\ UNCHANGED <<idx, b, x, arr, sz, copied, pushes, takes, steals, out, won>>
  BY <1>0 DEF Resize_StoreSize, Goto, dequeLocals
<1>2. sz[Owner] = 2 /\ Newest(m) = 1 /\ Newest(ArrayPtr) = 1 /\ copied <= Gone
  BY <1>0, <1>1 DEF DequeInv, Arrays, Window
<1>3. /\ m \in DequeLoc \ {Top, Bottom, ArrayPtr} /\ m # Size("old") /\ Size("old") \in DequeLoc
      /\ ArrayPtr \in DequeLoc
  BY <1>0, DequeLocations
<1>4. pc[Owner] \in PushLabel /\ "copy" \in PushLabel /\ copied' \in Nat /\ copied \in Nat
  BY <1>1 DEF PushLabel, DequeInv, DequeTypes
<1>5. \A k \in Nat, a \in Array : Slot(a, k) # m
  BY <1>0, SlotsApart
<1>6. Store(Owner, m, 4, relaxed)
  BY <1>1, <1>2
<1>7. /\ DequeTypes' /\ Ordered' /\ Race' /\ Falls' /\ Items' /\ Offering' /\ Thieves'
      /\ Limit' = Limit /\ Pushed' = Pushed /\ pc'[Owner] = "copy" /\ Gone' = Gone
      /\ OwnArray' = OwnArray /\ Own(Bottom)' = Own(Bottom)
      /\ Newest(m)' = Newest(m) + 1
      /\ \A k \in 1..Newest(m) : hist'[m][k] = hist[m][k]
      /\ hist'[m][Newest(m) + 1].val = 4
      /\ \A n \in DequeLoc \ {m} : hist'[n] = hist[n]
      /\ \A k \in Nat : Slot(OwnArray, k) # m => Item(k)' = Item(k)
  BY <1>1, <1>3, <1>4, <1>5, <1>6, PushStoring
<1>8. Arrays'
  <2>1. Newest(m)' = 2 /\ hist'[m][2].val = 4 /\ hist'[m][1] = hist[m][1]
    BY <1>2, <1>7
  <2>2. hist'[ArrayPtr] = hist[ArrayPtr] /\ hist'[Size("old")] = hist[Size("old")]
    BY <1>3, <1>7
  <2>3. Newest(ArrayPtr)' = 1 /\ Newest(Size("old"))' = 1
    BY <1>2, <2>2 DEF DequeInv, Arrays, Newest
  <2>4. Val(ArrayPtr, 1)' = "old" /\ Val(Size("old"), 1)' = 2
    BY <2>2 DEF DequeInv, Arrays, Val
  <2>5. Val(m, 1)' = 8 /\ Val(m, 2)' = 4
    BY <1>0, <2>1 DEF DequeInv, Arrays, Val
  <2>6. arr'[Owner] = OwnArray' /\ sz'[Owner] = 2
    BY <1>1, <1>2, <1>4, <1>7 DEF DequeInv, Arrays
  <2> QED
    <3>1. Newest(Size("new"))' = 2 /\ Val(Size("new"), 1)' = 8 /\ Val(Size("new"), 2)' = 4
      BY <1>0, <2>1, <2>5 DEF Newest, Val
    <3> QED
      BY <1>7, <2>3, <2>4, <2>6, <3>1 DEF Arrays
<1>9. Window'
  <2>1. Length(OwnArray)' = Length(OwnArray)
    BY <1>7 DEF Length
  <2>2. \A k \in Gone..(copied - 1) : FALSE
    BY <1>2, <1>4, DequeBasics
  <2>3. pc'[Owner] \notin TakeLabel \cup {"store", "pushFence", "pushBottom", "resizeSize"}
    BY <1>7 DEF TakeLabel, RaceLabel
  <2>4. copied <= b /\ b = Own(Bottom) /\ pushes > 0
    BY <1>1, <1>4 DEF DequeInv, Window
  <2>5. \A k \in Gone'..(copied' - 1) : FALSE
    BY <1>1, <1>7, <2>2
  <2> QED
    BY <1>1, <1>7, <2>1, <2>3, <2>4, <2>5 DEF DequeInv, Window
<1>10. Fenced'
  BY <1>7 DEF Fenced
<1>11. Unmoved
  <2>1. \A k \in Gone..(Limit - 1) : k \in Nat /\ k >= Gone /\ k < Limit
    BY DequeBasics
  <2> QED
    BY <1>1, <1>5, <1>7, DequeBasics, <2>1 DEF Unmoved
<1> QED
  BY <1>7, <1>8, <1>9, <1>10, <1>11 DEF DequeInv

LEMMA ResizeCopyStep ==
  ASSUME DequeInv, Resize_Copy
  PROVE  DequeInv' /\ Unmoved
<1>0. PICK c \in Nat : c = copied
  BY DEF DequeInv, DequeTypes
<1>00. PICK m, v : m = Slot("new", c) /\ v = Own(Slot("old", c))
  OBVIOUS
<1>1. /\ pc[Owner] = "copy" /\ pc' = pc /\ copied < Own(Bottom) /\ copied' = copied + 1
      /\ Store(Owner, Buffer("new", copied % (2 * sz[Owner])),
               Own(Buffer(arr[Owner], copied % sz[Owner])), relaxed)
      /\ UNCHANGED <<idx, b, x, arr, sz, pushes, takes, steals, out, won>>
  BY DEF Resize_Copy
<1>2. /\ sz[Owner] = 2 /\ Newest(ArrayPtr) = 1 /\ Newest(Size("new")) = 2
      /\ arr[Owner] = OwnArray /\ OwnArray = "old"
  <2>1. /\ sz[Owner] = 2 /\ Newest(ArrayPtr) = 1 /\ Newest(Size("new")) = 2
        /\ arr[Owner] = OwnArray
    BY <1>1 DEF DequeInv, Arrays, PushLabel
  <2> QED
    BY <2>1, DequeBasics, DequeLocations
<1>3. /\ "old" \in Array /\ "new" \in Array /\ "old" # "new"
      /\ ArrayPtr \in DequeLoc /\ Size("old") \in DequeLoc /\ Size("new") \in DequeLoc
  BY DequeLocations
<1>4. /\ pc[Owner] \in PushLabel /\ copied \in Nat /\ copied' \in Nat
      /\ b = Own(Bottom) /\ Limit = b /\ Limit <= Gone + 2 /\ Gone \in Nat /\ b \in Nat
  <2>1. pc[Owner] \in PushLabel /\ copied \in Nat
    BY <1>1 DEF PushLabel, DequeInv, DequeTypes
  <2>2. b = Own(Bottom) /\ Limit <= Gone + 2
    BY <1>2, <2>1 DEF DequeInv, Window, Length
  <2>3. pc[Owner] \notin TakeLabel
    BY <1>1 DEF TakeLabel, RaceLabel
  <2> QED
    BY <1>1, <2>1, <2>2, <2>3, DequeBasics DEF Limit
<1>5. Store(Owner, m, v, relaxed)
  BY <1>0, <1>00, <1>1, <1>2 DEF Slot, Length
<1>6. m \in DequeLoc \ {Top, Bottom, ArrayPtr} /\ m # Size("old") /\ m # Size("new") /\ v \in Nat
  BY <1>0, <1>00, <1>3, <1>4, SlotsApart, DequeBasics
<1>7. \A k \in Nat : Slot("old", k) # m /\ Slot("old", k) \in DequeLoc
  BY <1>00, <1>3, <1>4, SlotsApart
<1>8. \A k \in Nat, a \in Array : (a = "new" => Newest(ArrayPtr) = 2) => Slot(a, k) # m
  BY <1>2, <1>7, DequeLocations
<1>9. /\ DequeTypes' /\ Ordered' /\ Race' /\ Falls' /\ Items' /\ Offering' /\ Thieves'
      /\ Limit' = Limit /\ Pushed' = Pushed /\ pc'[Owner] = "copy" /\ Gone' = Gone
      /\ OwnArray' = OwnArray /\ Own(Bottom)' = Own(Bottom)
      /\ Newest(m)' = Newest(m) + 1
      /\ hist'[m][Newest(m) + 1].val = v
      /\ \A n \in DequeLoc \ {m} : hist'[n] = hist[n]
      /\ \A k \in Nat : Slot(OwnArray, k) # m => Item(k)' = Item(k)
  BY <1>1, <1>4, <1>5, <1>6, <1>8, PushStoring
<1>10. Arrays'
  <2>1. /\ hist'[ArrayPtr] = hist[ArrayPtr] /\ hist'[Size("old")] = hist[Size("old")]
        /\ hist'[Size("new")] = hist[Size("new")]
    BY <1>3, <1>6, <1>9
  <2>2. /\ Newest(ArrayPtr)' = Newest(ArrayPtr) /\ Newest(Size("old"))' = Newest(Size("old"))
        /\ Newest(Size("new"))' = Newest(Size("new"))
    BY <2>1 DEF Newest
  <2>3. /\ Val(ArrayPtr, 1)' = Val(ArrayPtr, 1) /\ Val(Size("old"), 1)' = Val(Size("old"), 1)
        /\ Val(Size("new"), 1)' = Val(Size("new"), 1) /\ Val(Size("new"), 2)' = Val(Size("new"), 2)
    BY <2>1 DEF Val
  <2> QED
    BY <1>1, <1>2, <1>9, <2>2, <2>3 DEF DequeInv, Arrays
<1>11. Window'
  <2>1. Length(OwnArray)' = Length(OwnArray)
    BY <1>9 DEF Length
  <2>2. pc'[Owner] \notin TakeLabel \cup {"store", "pushFence", "pushBottom", "resizeSize"}
    BY <1>9 DEF TakeLabel, RaceLabel
  <2>3. copied' <= b
    BY <1>1, <1>4
  <2>4. \A k \in Nat : Own(Slot("old", k))' = Own(Slot("old", k))
    <3>1. \A k \in Nat : hist'[Slot("old", k)] = hist[Slot("old", k)]
      BY <1>7, <1>9
    <3> QED
      BY <3>1 DEF Slot, Own, Val, Newest
  <2>5. ASSUME NEW k \in Nat, k >= Gone, k < copied
        PROVE  Own(Slot("old", k))' = Own(Slot("new", k))'
    <3>1. Own(Slot("old", k)) = Own(Slot("new", k))
      BY <1>1, <1>4, <2>5 DEF DequeInv, Window
    <3>2. Slot("new", k) # m
      <4>1. copied < k + Length("new")
        BY <1>1, <1>4, <2>5 DEF Length
      <4> QED
        BY <1>0, <1>00, <1>3, <1>4, <2>5, <4>1, SlotsApart
    <3>3. hist'[Slot("new", k)] = hist[Slot("new", k)]
      BY <1>3, <1>9, <3>2, SlotsApart
    <3>4. Own(Slot("new", k))' = Own(Slot("new", k))
      BY <3>3 DEF Slot, Own, Val, Newest
    <3> QED
      BY <2>4, <3>1, <3>4
  <2>6. Own(Slot("old", c))' = Own(Slot("new", c))'
    <3>1. hist'[Slot("new", c)] = hist'[m] /\ Len(hist'[m]) = Newest(m) + 1
      BY <1>00, <1>9 DEF Newest
    <3>2. Own(Slot("new", c))' = v
      BY <1>9, <3>1 DEF Slot, Own, Val, Newest
    <3> QED
      BY <1>00, <2>4, <3>2
  <2>7. \A k \in Gone'..(copied' - 1) : k \in Nat /\ k >= Gone /\ (k < copied \/ k = copied)
    BY <1>1, <1>4, <1>9
  <2>8. \A k \in Gone'..(copied' - 1) : Own(Slot("old", k))' = Own(Slot("new", k))'
    BY <1>0, <2>5, <2>6, <2>7
  <2> QED
    BY <1>1, <1>4, <1>9, <2>1, <2>2, <2>3, <2>8 DEF DequeInv, Window
<1>12. Fenced'
  BY <1>9 DEF Fenced
<1>13. Unmoved
  <2>1. \A k \in Gone..(Limit - 1) : k \in Nat /\ k >= Gone /\ k < Limit
    BY DequeBasics
  <2> QED
    BY <1>1, <1>2, <1>7, <1>9, <2>1 DEF Unmoved
<1> QED
  BY <1>9, <1>10, <1>11, <1>12, <1>13 DEF DequeInv

LEMMA PushStoreBufferStep ==
  ASSUME DequeInv, Push_StoreBuffer
  PROVE  DequeInv' /\ Unmoved
<1>0. PICK c \in Nat : c = b
  BY DequeBasics
<1>00. PICK a \in Array, m \in DequeLoc : a = OwnArray /\ m = Slot(a, c)
  BY DequeBasics, SlotsApart
<1>1. /\ pc[Owner] = "store" /\ pc' = [pc EXCEPT ![Owner] = "pushFence"]
      /\ Store(Owner, Buffer(arr[Owner], b % Own(Size(arr[Owner]))), pushes, relaxed)
      /\ UNCHANGED <<idx, b, x, arr, sz, copied, pushes, takes, steals, out, won>>
  BY DEF Push_StoreBuffer, Goto, dequeLocals
<1>2. /\ pc[Owner] \in PushLabel /\ "pushFence" \in PushLabel /\ pc[Owner] \notin TakeLabel
      /\ copied' \in Nat
  BY <1>1 DEF PushLabel, TakeLabel, RaceLabel, DequeInv, DequeTypes
<1>3. /\ arr[Owner] = OwnArray /\ Own(Size(OwnArray)) = Length(OwnArray)
      /\ pushes \in Nat /\ pushes > 0 /\ Gone \in Nat
      /\ b = Own(Bottom) /\ Limit = b /\ b < Gone + Length(OwnArray)
      /\ (OwnArray = "new" <=> Newest(ArrayPtr) = 2)
  BY <1>1, <1>2, DequeBasics DEF DequeInv, Arrays, Window, Limit
<1>4. Store(Owner, m, pushes, relaxed)
  BY <1>0, <1>00, <1>1, <1>3 DEF Slot
<1>5. /\ m \in DequeLoc \ {Top, Bottom, ArrayPtr} /\ m # Size("old") /\ m # Size("new")
      /\ ArrayPtr \in DequeLoc /\ Size("old") \in DequeLoc /\ Size("new") \in DequeLoc
  BY <1>00, SlotsApart, DequeLocations
<1>6. \A k \in Nat, d \in Array :
        k >= Gone /\ k < Limit /\ (d = "new" => Newest(ArrayPtr) = 2) => Slot(d, k) # m
  <2> SUFFICES ASSUME NEW k \in Nat, NEW d \in Array, k >= Gone, k < Limit,
                      d = "new" => Newest(ArrayPtr) = 2
               PROVE  Slot(d, k) # m
    OBVIOUS
  <2>1. CASE d = a
    <3>1. k < c /\ c < k + Length(a)
      BY <1>0, <1>00, <1>3, SlotsApart
    <3> QED
      BY <1>00, <2>1, <3>1, SlotsApart
  <2>2. CASE d # a
    <3>1. d = "old" /\ a = "new"
      BY <1>00, <1>3, <2>2, DequeLocations
    <3> QED
      BY <1>00, <3>1, SlotsApart
  <2> QED
    BY <2>1, <2>2
<1>7. /\ DequeTypes' /\ Ordered' /\ Race' /\ Falls' /\ Items' /\ Offering' /\ Thieves'
      /\ Limit' = Limit /\ Pushed' = Pushed /\ pc'[Owner] = "pushFence" /\ Gone' = Gone
      /\ OwnArray' = OwnArray /\ Own(Bottom)' = Own(Bottom)
      /\ Newest(m)' = Newest(m) + 1
      /\ hist'[m][Newest(m) + 1].val = pushes
      /\ \A n \in DequeLoc \ {m} : hist'[n] = hist[n]
      /\ \A k \in Nat : Slot(OwnArray, k) # m => Item(k)' = Item(k)
  <2>1. PICK v \in Nat : v = pushes
    BY <1>3
  <2> QED
    BY <1>1, <1>2, <1>4, <1>5, <1>6, <2>1, PushStoring
<1>8. Arrays'
  <2>1. /\ hist'[ArrayPtr] = hist[ArrayPtr] /\ hist'[Size("old")] = hist[Size("old")]
        /\ hist'[Size("new")] = hist[Size("new")]
    BY <1>5, <1>7
  <2>2. /\ Newest(ArrayPtr)' = Newest(ArrayPtr) /\ Newest(Size("old"))' = Newest(Size("old"))
        /\ Newest(Size("new"))' = Newest(Size("new"))
    BY <2>1 DEF Newest
  <2>3. /\ \A i : Val(ArrayPtr, i)' = Val(ArrayPtr, i)
        /\ \A i : Val(Size("old"), i)' = Val(Size("old"), i)
        /\ \A i : Val(Size("new"), i)' = Val(Size("new"), i)
    BY <2>1 DEF Val
  <2> QED
    BY <1>1, <1>3, <1>7, <2>1, <2>2, <2>3 DEF DequeInv, Arrays
<1>9. Window'
  <2>1. Length(OwnArray)' = Length(OwnArray)
    BY <1>7 DEF Length
  <2>2. pc'[Owner] \notin TakeLabel \cup {"store", "pushBottom", "resizeSize", "copy"}
    BY <1>7 DEF TakeLabel, RaceLabel
  <2>3. Item(b)' = pushes
    <3>1. hist'[Slot(a, c)] = hist'[m] /\ Len(hist'[m]) = Newest(m) + 1
      BY <1>00, <1>7 DEF Newest
    <3>2. Own(Slot(a, c))' = pushes
      BY <1>7, <3>1 DEF Slot, Own, Val, Newest
    <3> QED
      BY <1>0, <1>00, <1>1, <1>7, <3>2 DEF Item, Slot
  <2> QED
    BY <1>1, <1>2, <1>3, <1>7, <2>1, <2>2, <2>3 DEF DequeInv, Window
<1>10. Fenced'
  BY <1>7 DEF Fenced
<1>11. Unmoved
  <2>1. \A k \in Gone..(Limit - 1) : k \in Nat /\ k >= Gone /\ k < Limit
    BY DequeBasics
  <2> QED
    BY <1>1, <1>00, <1>3, <1>6, <1>7, <2>1 DEF Unmoved
<1> QED
  BY <1>7, <1>8, <1>9, <1>10, <1>11 DEF DequeInv

LEMMA ResizeStoreArrayStep ==
  ASSUME DequeInv, Resize_StoreArray
  PROVE  DequeInv' /\ Unmoved
<1>1. /\ pc[Owner] = "copy" /\ pc' = [pc EXCEPT ![Owner] = "store"] /\ copied >= Own(Bottom)
      /\ Store(Owner, ArrayPtr, "new", release)
      /\ arr' = [arr EXCEPT ![Owner] = "new"]
      /\ UNCHANGED <<idx, b, x, sz, copied, pushes, takes, steals, out, won>>
  BY DEF Resize_StoreArray, Goto, OrderResizeArray
<1>2. /\ ArrayPtr \in DequeLoc /\ Top \in DequeLoc /\ Bottom \in DequeLoc
      /\ ArrayPtr # Top /\ ArrayPtr # Bottom
      /\ "old" \in Array /\ "new" \in Array /\ "old" # "new" /\ Array = {"old", "new"}
      /\ Size("old") \in DequeLoc \ {ArrayPtr} /\ Size("new") \in DequeLoc \ {ArrayPtr, Top, Bottom}
  BY DequeLocations
<1>3. /\ Newest(ArrayPtr) = 1 /\ Newest(Size("new")) = 2 /\ OwnArray = "old"
      /\ Val(ArrayPtr, 1) = "old"
  <2>1. Newest(ArrayPtr) = 1 /\ Newest(Size("new")) = 2 /\ Val(ArrayPtr, 1) = "old"
    BY <1>1 DEF DequeInv, Arrays
  <2> QED
    BY <2>1 DEF OwnArray, Own
<1>4. "new" \in DequeValue /\ release \in {relaxed, release} /\ release \in Releasing
  BY <1>2 DEF DequeValue, Releasing
<1>5. /\ MemType(DequeLoc, DequeValue)' /\ Ordered'
      /\ Newest(ArrayPtr)' = 2
      /\ hist'[ArrayPtr][1] = hist[ArrayPtr][1]
      /\ hist'[ArrayPtr][2].val = "new"
      /\ hist'[ArrayPtr][2].view = cur[Owner]
      /\ \A n \in DequeLoc \ {ArrayPtr} : hist'[n] = hist[n]
      /\ \A u \in Thread : cur[u] \subseteq cur'[u]
      /\ sc' = sc
  BY <1>1, <1>2, <1>3, <1>4, DequeStoring DEF Released
<1>6. /\ pc'[Owner] = "store" /\ DOMAIN pc' = Thread
      /\ arr' \in [Thread -> Array] /\ idx' \in [Thread -> Nat] /\ sz' \in [Thread -> Nat]
      /\ x' \in [Thread -> Nat \cup {EMPTY}]
      /\ \A u \in Thief : /\ pc'[u] = pc[u] /\ idx'[u] = idx[u] /\ x'[u] = x[u]
                          /\ arr'[u] = arr[u] /\ sz'[u] = sz[u]
      /\ \A u \in Thief : pc'[u] \in ThiefLabel
  BY <1>1, <1>2, OthersStay
<1>7. /\ pc[Owner] \notin TakeLabel /\ pc'[Owner] \notin TakeLabel
      /\ pc[Owner] \in PushLabel /\ pc'[Owner] \in PushLabel
  BY <1>1, <1>6 DEF TakeLabel, RaceLabel, PushLabel
<1>8. /\ Limit = Own(Bottom) /\ Gone \in Nat /\ Limit \in Nat /\ Limit <= Gone + 2
      /\ b = Own(Bottom) /\ copied \in Nat /\ Newest(Bottom) \in Nat
  <2>1. Limit <= Gone + 2 /\ b = Own(Bottom) /\ copied \in Nat
    BY <1>3, <1>7 DEF DequeInv, DequeTypes, Window, Length
  <2> QED
    BY <1>2, <1>7, <2>1, DequeBasics DEF Limit
<1>9. Pushed' = Pushed
  BY <1>1, <1>7 DEF Pushed
<1>10. /\ hist'[Top] = hist[Top] /\ hist'[Bottom] = hist[Bottom]
       /\ hist'[Size("old")] = hist[Size("old")] /\ hist'[Size("new")] = hist[Size("new")]
  BY <1>2, <1>5
<1>11. OwnArray' = "new"
  BY <1>5 DEF OwnArray, Own, Val
<1>12. \A k \in Nat, a \in Array :
         /\ Own(Slot(a, k))' = Own(Slot(a, k)) /\ Newest(Slot(a, k))' = Newest(Slot(a, k))
         /\ Slot(a, k) \in DequeLoc \ {Top, Bottom, ArrayPtr}
  <2>1. \A k \in Nat, a \in Array : hist'[Slot(a, k)] = hist[Slot(a, k)]
    BY <1>5, SlotsApart
  <2> QED
    BY <2>1, SlotsApart DEF Slot, Own, Val, Newest
<1>13. \A k \in Nat : /\ Item(k)' = Own(Slot("new", k)) /\ Item(k) = Own(Slot("old", k))
  <2>1. \A k \in Nat : Item(k)' = Own(Slot("new", k))'
    BY <1>11 DEF Item, Slot
  <2> QED
    BY <1>2, <1>3, <1>12, <2>1 DEF Item
<1>14. \A k \in Nat : k >= Gone /\ k < Limit => Item(k)' = Item(k)
  <2>1. \A k \in Nat : k >= Gone /\ k < Limit => k \in Gone..(copied - 1)
    BY <1>1, <1>8
  <2>2. \A k \in Gone..(copied - 1) : Own(Slot("old", k)) = Own(Slot("new", k))
    BY <1>1 DEF DequeInv, Window
  <2> QED
    BY <1>13, <2>1, <2>2
<1>15. /\ Race' /\ Falls' /\ Items' /\ Gone' = Gone /\ Limit' = Limit
       /\ Own(Bottom)' = Own(Bottom) /\ Newest(Bottom)' = Newest(Bottom)
       /\ \A j, k : Keeps(j, k)' <=> Keeps(j, k)
       /\ \A j : Safe(j)' <=> Safe(j)
  BY <1>1, <1>5, <1>7, <1>9, <1>10, <1>14, PushFrame
<1>16. \A j \in 1..Newest(Bottom), k \in Nat :
         k >= Gone /\ k < Limit /\ Offers(j, k, "old") => Offers(j, k, "old")'
  <2>1. Installed("old")' = Installed("old")
    BY <1>2 DEF Installed
  <2> QED
    BY <1>2, <1>10, <1>12, <1>14, <2>1 DEF Offers
<1>17. \A j, k : k \in Nat => Offers(j, k, "new")'
  <2>1. Installed("new")' = cur[Owner]
    BY <1>5 DEF Installed
  <2>2. \A k \in Nat : Newest(Slot("new", k)) > 1 => <<Slot("new", k), Newest(Slot("new", k))>> \in cur[Owner]
    <3>1. \A k \in Nat : Knows(Owner, Slot("new", k))
      BY <1>2, <1>12 DEF DequeInv, Ordered
    <3>2. \A k \in Nat : Newest(Slot("new", k)) \in Nat
      BY <1>2, <1>12, DequeBasics
    <3>3. \A k \in Nat : Newest(Slot("new", k)) > 1 => Newest(Slot("new", k)) \in 1..Newest(Slot("new", k))
      BY <3>2
    <3> QED
      BY <3>1, <3>3 DEF Knows
  <2>3. \A k \in Nat : Own(Slot("new", k))' = Item(k)'
    BY <1>2, <1>12, <1>13
  <2>4. \A k \in Nat : Newest(Slot("new", k))' = Newest(Slot("new", k))
    BY <1>2, <1>12
  <2> QED
    BY <2>1, <2>2, <2>3, <2>4 DEF Offers, Slot
<1>18. \A j \in 1..Newest(Bottom), k \in Nat : Keeps(j, k) => k < Limit
  BY <1>7, KeptInside DEF TakeLabel
<1>19. Offering'
  <2>1. ASSUME NEW j \in 1..Newest(Bottom), NEW k \in Gone..MaxPushes, Keeps(j, k)'
        PROVE  Offers(j, k, "new")' /\ Offers(j, k, "old")'
    <3>1. k \in Nat /\ k >= Gone /\ k < Limit /\ Keeps(j, k)
      BY <1>8, <1>15, <1>18, <2>1, DequeBasics
    <3>2. Offers(j, k, "old")
      BY <1>3, <2>1, <3>1 DEF DequeInv, Offering
    <3> QED
      BY <1>16, <1>17, <3>1, <3>2
  <2>2. \A j, k : Offers(j, k, "new")' => Offers(j, k, OwnArray)'
    BY <1>11 DEF Offers, Slot, Installed
  <2> QED
    BY <1>15, <2>1, <2>2 DEF Offering
<1>20. Thieves'
  <2>1. PICK n \in Nat : n = Newest(Bottom) /\ n = Newest(Bottom)'
    BY <1>8, <1>15
  <2>2. PICK g \in Nat : g = Gone /\ g = Gone'
    BY <1>8, <1>15
  <2>3. \A j \in 1..Newest(Bottom) : Safe(j) => g < Limit
    <3>1. \A j : Safe(j) => Keeps(j, g)
      BY <2>2 DEF Safe, Keeps
    <3> QED
      BY <1>18, <3>1
  <2>4. \A u \in Thief : cur[u] \subseteq cur'[u]
    BY <1>5 DEF Thief
  <2>5. \A j \in (Newest(Bottom) + 1)..n : FALSE
    BY <2>1
  <2>6. \A j \in 1..Newest(Bottom), a \in Array :
          Safe(j) /\ Offers(j, g, a) /\ (a = "new" => Newest(ArrayPtr) = 2) => Offers(j, g, a)'
    BY <1>2, <1>3, <1>16, <2>2, <2>3
  <2>7. \A j \in 1..Newest(Bottom) : Safe(j) => Item(g)' = Item(g)
    BY <1>14, <2>2, <2>3
  <2>8. \A u \in Thief : Sound(u)'
    BY <1>3, <1>6, <1>10, <1>15, <2>1, <2>2, <2>4, <2>5, <2>6, <2>7, SoundKept
  <2> QED
    BY <2>8 DEF Thieves
<1>21. DequeTypes'
  <2>1. \A n \in DequeLoc \ {ArrayPtr} : \A k \in 1..Newest(n)' : Val(n, k)' \in Nat
    BY <1>5 DEF DequeInv, DequeTypes, Newest, Val
  <2> QED
    BY <1>1, <1>5, <1>6, <1>7, <2>1 DEF DequeInv, DequeTypes
<1>22. Arrays'
  <2>1. /\ Newest(Size("old"))' = 1 /\ Newest(Size("new"))' = 2
        /\ Val(Size("old"), 1)' = 2 /\ Val(Size("new"), 1)' = 8 /\ Val(Size("new"), 2)' = 4
    BY <1>3, <1>10 DEF DequeInv, Arrays, Newest, Val
  <2>2. Val(ArrayPtr, 1)' = "old" /\ Val(ArrayPtr, 2)' = "new"
    BY <1>3, <1>5 DEF Val
  <2>3. <<Size("new"), 2>> \in hist'[ArrayPtr][2].view
    <3>1. Knows(Owner, Size("new"))
      BY <1>2 DEF DequeInv, Ordered
    <3> QED
      BY <1>3, <1>5, <3>1 DEF Knows
  <2>4. arr'[Owner] = "new"
    BY <1>1, DequeBasics DEF DequeInv, DequeTypes
  <2> QED
    BY <1>5, <1>6, <1>11, <2>1, <2>2, <2>3, <2>4 DEF Arrays
<1>23. Window'
  <2>1. Length(OwnArray) = 2 /\ Length(OwnArray)' = 4
    BY <1>3, <1>11 DEF Length
  <2>2. pc'[Owner] \notin TakeLabel \cup {"pushFence", "pushBottom", "resizeSize", "copy"}
    BY <1>6 DEF TakeLabel, RaceLabel
  <2>3. b < Gone + 4 /\ Limit <= Gone + 4 /\ pushes > 0
    BY <1>7, <1>8 DEF DequeInv, Window
  <2> QED
    BY <1>1, <1>6, <1>7, <1>8, <1>9, <1>15, <2>1, <2>2, <2>3 DEF DequeInv, Window
<1>24. Fenced'
  BY <1>6 DEF Fenced
<1>25. Unmoved
  <2>1. \A k \in Gone..(Limit - 1) : k \in Nat /\ k >= Gone /\ k < Limit
    BY DequeBasics
  <2> QED
    BY <1>1, <1>9, <1>14, <1>15, <2>1 DEF Unmoved
<1> QED
  BY <1>5, <1>15, <1>19, <1>20, <1>21, <1>22, <1>23, <1>24, <1>25 DEF DequeInv

-----------------------------------------------------------------------------
(* A store to bottom leaves all else, and releases with it all that the    *)
(* last fence has seen.                                                    *)
LEMMA BottomStoring ==
  ASSUME DequeInv, NEW v \in Nat, Store(Owner, Bottom, v, relaxed),
         pc[Owner] \in {"idle", "pushBottom", "restore"}, NEW l \in {"idle", "takeFence"},
         pc' = [pc EXCEPT ![Owner] = l], b' \in Nat,
         UNCHANGED <<idx, x, arr, sz, copied, pushes, out, won>>
  PROVE  /\ DequeTypes' /\ Ordered' /\ Arrays' /\ Fenced' /\ Race'
         /\ pc'[Owner] = l /\ sc' = sc
         /\ Gone' = Gone /\ OwnArray' = OwnArray /\ Own(Bottom)' = v
         /\ Newest(Bottom)' = Newest(Bottom) + 1
         /\ \A j \in 1..Newest(Bottom) : hist'[Bottom][j] = hist[Bottom][j]
         /\ hist'[Bottom][Newest(Bottom) + 1].val = v
         /\ \A k \in Nat : Item(k)' = Item(k)
         /\ hist'[ArrayPtr] = hist[ArrayPtr]
         /\ \A j \in 1..Newest(Bottom), k \in Nat, a \in Array : Offers(j, k, a)' <=> Offers(j, k, a)
         /\ \A j \in (Newest(Bottom) + 1)..(Newest(Bottom) + 1), k \in Nat, a \in Array :
              a = OwnArray =>
                Offers(j, k, a)' /\ (Newest(ArrayPtr) = 2 => <<ArrayPtr, 2>> \in hist'[Bottom][j].view)
         /\ \A u \in Thief : /\ pc'[u] = pc[u] /\ idx'[u] = idx[u] /\ x'[u] = x[u]
                             /\ arr'[u] = arr[u] /\ sz'[u] = sz[u] /\ cur[u] \subseteq cur'[u]
<1> DEFINE n == Newest(Bottom)
<1>1. /\ Bottom \in DequeLoc \ {Top} /\ Top \in DequeLoc \ {Bottom} /\ ArrayPtr \in DequeLoc \ {Bottom}
      /\ Size("old") \in DequeLoc \ {Bottom, Top} /\ Size("new") \in DequeLoc \ {Bottom, Top}
      /\ ArrayPtr # Top /\ OwnArray \in Array /\ Array = {"old", "new"}
      /\ n \in Nat /\ n >= 1
  BY DequeBasics, DequeLocations
<1>2. v \in DequeValue /\ relaxed \in {relaxed, release} /\ relaxed \notin Releasing
  BY DEF DequeValue, relaxed, release, acq_rel, seq_cst, Releasing
<1>3. /\ MemType(DequeLoc, DequeValue)' /\ Ordered'
      /\ Newest(Bottom)' = n + 1
      /\ \A k \in 1..n : hist'[Bottom][k] = hist[Bottom][k]
      /\ hist'[Bottom][n + 1].val = v
      /\ hist'[Bottom][n + 1].view = rel[Owner]
      /\ \A m \in DequeLoc \ {Bottom} : hist'[m] = hist[m]
      /\ \A u \in Thread : cur[u] \subseteq cur'[u]
      /\ rel' = rel /\ sc' = sc
  BY <1>1, <1>2, DequeStoring DEF Released
<1>4. /\ pc'[Owner] = l /\ DOMAIN pc' = Thread
      /\ arr' \in [Thread -> Array] /\ idx' \in [Thread -> Nat] /\ sz' \in [Thread -> Nat]
      /\ x' \in [Thread -> Nat \cup {EMPTY}]
      /\ \A u \in Thief : /\ pc'[u] = pc[u] /\ idx'[u] = idx[u] /\ x'[u] = x[u]
                          /\ arr'[u] = arr[u] /\ sz'[u] = sz[u]
      /\ \A u \in Thief : pc'[u] \in ThiefLabel
  BY OthersStay
<1>5. /\ hist'[Top] = hist[Top] /\ hist'[ArrayPtr] = hist[ArrayPtr]
      /\ hist'[Size("old")] = hist[Size("old")] /\ hist'[Size("new")] = hist[Size("new")]
  BY <1>1, <1>3
<1>6. Gone' = Gone /\ OwnArray' = OwnArray
  BY <1>5 DEF Gone, OwnArray, Own, Val, Newest
<1>7. Own(Bottom)' = v
  BY <1>3 DEF Own, Val
<1>8. \A k \in Nat, a \in Array :
        /\ Own(Slot(a, k))' = Own(Slot(a, k)) /\ Newest(Slot(a, k))' = Newest(Slot(a, k))
        /\ Slot(a, k) \in DequeLoc \ {Top, Bottom, ArrayPtr}
  <2>1. \A k \in Nat, a \in Array : hist'[Slot(a, k)] = hist[Slot(a, k)]
    BY <1>3, SlotsApart
  <2> QED
    BY <2>1, SlotsApart DEF Slot, Own, Val, Newest
<1>9. \A k \in Nat : Item(k)' = Item(k)
  <2>1. PICK a \in Array : a = OwnArray /\ a = OwnArray'
    BY <1>1, <1>6
  <2> QED
    BY <1>8, <2>1 DEF Item, Slot
<1>10. \A a \in Array : Installed(a)' = Installed(a)
  <2>1. Installed("new")' = Installed("new") /\ Installed("old")' = Installed("old")
    BY <1>5 DEF Installed
  <2> QED
    BY <1>1, <2>1
<1>11. \A j \in 1..n, k \in Nat, a \in Array : Offers(j, k, a)' <=> Offers(j, k, a)
  BY <1>3, <1>8, <1>9, <1>10 DEF Offers
<1>12. pc[Owner] \notin {"resize", "resizeSize", "copy", "store", "pushFence"}
  OBVIOUS
<1>13. \A m \in DequeLoc \ {Top, Bottom} : \A i \in 2..Newest(m) : <<m, i>> \in rel[Owner]
  BY <1>12 DEF DequeInv, Fenced
<1>14. \A j \in (n + 1)..(n + 1), k \in Nat, a \in Array :
         a = OwnArray =>
           Offers(j, k, a)' /\ (Newest(ArrayPtr) = 2 => <<ArrayPtr, 2>> \in hist'[Bottom][j].view)
  <2> SUFFICES ASSUME NEW j \in (n + 1)..(n + 1), NEW k \in Nat, NEW a \in Array, a = OwnArray
               PROVE  /\ Offers(j, k, a)'
                      /\ Newest(ArrayPtr) = 2 => <<ArrayPtr, 2>> \in hist'[Bottom][j].view
    OBVIOUS
  <2>1. hist'[Bottom][j].view = rel[Owner]
    BY <1>1, <1>3
  <2>2. Newest(ArrayPtr) = 2 => <<ArrayPtr, 2>> \in hist'[Bottom][j].view
    BY <1>1, <1>13, <2>1
  <2>3. Own(Slot(a, k))' = Item(k)'
    BY <1>6 DEF Item, Slot
  <2>4. Newest(Slot(a, k))' > 1 => <<Slot(a, k), Newest(Slot(a, k))'>> \in rel[Owner]
    <3>1. Newest(Slot(a, k)) \in Nat /\ Slot(a, k) \in DequeLoc \ {Top, Bottom}
      BY <1>8, DequeBasics
    <3>2. Newest(Slot(a, k)) > 1 => Newest(Slot(a, k)) \in 2..Newest(Slot(a, k))
      BY <3>1
    <3> QED
      BY <1>8, <1>13, <3>1, <3>2
  <2> QED
    BY <2>1, <2>2, <2>3, <2>4 DEF Offers, Slot, Buffer
<1>15. DequeTypes'
  <2>1. ASSUME NEW m \in DequeLoc \ {ArrayPtr}, NEW k \in 1..Newest(m)'
        PROVE  hist'[m][k].val \in Nat
    <3>1. CASE m # Bottom
      BY <1>3, <2>1, <3>1 DEF DequeInv, DequeTypes, Newest, Val
    <3>2. CASE m = Bottom /\ k \in 1..n
      BY <1>1, <1>3, <3>2 DEF DequeInv, DequeTypes, Val
    <3>3. CASE m = Bottom /\ k = n + 1
      BY <1>3, <3>3
    <3> QED
      BY <1>1, <1>3, <2>1, <3>1, <3>2, <3>3
  <2>2. \A m \in DequeLoc \ {ArrayPtr} : \A k \in 1..Newest(m)' : Val(m, k)' \in Nat
    BY <2>1 DEF Val
  <2>3. l \in {"idle"} \cup PushLabel \cup TakeLabel
    BY DEF TakeLabel, RaceLabel
  <2> QED
    BY <1>3, <1>4, <2>2, <2>3 DEF DequeInv, DequeTypes
<1>16. Arrays'
  <2>1. /\ Newest(ArrayPtr)' = Newest(ArrayPtr) /\ Newest(Size("old"))' = Newest(Size("old"))
        /\ Newest(Size("new"))' = Newest(Size("new"))
    BY <1>5 DEF Newest
  <2>2. /\ \A i : Val(ArrayPtr, i)' = Val(ArrayPtr, i)
        /\ \A i : Val(Size("old"), i)' = Val(Size("old"), i)
        /\ \A i : Val(Size("new"), i)' = Val(Size("new"), i)
    BY <1>5 DEF Val
  <2>3. pc'[Owner] \notin PushLabel /\ pc'[Owner] \notin {"resize", "resizeSize", "copy"}
    BY <1>4 DEF PushLabel
  <2>4. pc[Owner] # "copy"
    BY <1>12
  <2> QED
    BY <1>5, <2>1, <2>2, <2>3, <2>4 DEF DequeInv, Arrays
<1>17. Fenced'
  <2>1. \A m \in DequeLoc \ {Top, Bottom} : Newest(m)' = Newest(m)
    BY <1>3 DEF Newest
  <2> QED
    BY <1>3, <1>13, <2>1 DEF Fenced
<1>18. Race'
  BY <1>4 DEF Race
<1> QED
  BY <1>3, <1>4, <1>5, <1>6, <1>7, <1>9, <1>11, <1>14, <1>15, <1>16, <1>17, <1>18 DEF Thief

(* A store to bottom that raises it, or the decrement of take(), keeps     *)
(* what the thieves may rely on.                                           *)
LEMMA BottomStored ==
  ASSUME DequeInv, NEW v \in Nat, Store(Owner, Bottom, v, relaxed),
         pc[Owner] \in {"idle", "pushBottom", "restore"}, NEW l \in {"idle", "takeFence"},
         pc' = [pc EXCEPT ![Owner] = l], b' \in Nat,
         UNCHANGED <<idx, x, arr, sz, copied, pushes, out, won>>,
         v >= Own(Bottom) \/ (l = "takeFence" /\ v + 1 = Own(Bottom)),
         Window', Items'
  PROVE  DequeInv'
<1>1. /\ DequeTypes' /\ Ordered' /\ Arrays' /\ Fenced' /\ Race'
      /\ pc'[Owner] = l /\ sc' = sc
      /\ Gone' = Gone /\ OwnArray' = OwnArray /\ Own(Bottom)' = v
      /\ Newest(Bottom)' = Newest(Bottom) + 1
      /\ \A j \in 1..Newest(Bottom) : hist'[Bottom][j] = hist[Bottom][j]
      /\ hist'[Bottom][Newest(Bottom) + 1].val = v
      /\ \A k \in Nat : Item(k)' = Item(k)
      /\ hist'[ArrayPtr] = hist[ArrayPtr]
      /\ \A j \in 1..Newest(Bottom), k \in Nat, a \in Array : Offers(j, k, a)' <=> Offers(j, k, a)
      /\ \A j \in (Newest(Bottom) + 1)..(Newest(Bottom) + 1), k \in Nat, a \in Array :
           a = OwnArray =>
             Offers(j, k, a)' /\ (Newest(ArrayPtr) = 2 => <<ArrayPtr, 2>> \in hist'[Bottom][j].view)
      /\ \A u \in Thief : /\ pc'[u] = pc[u] /\ idx'[u] = idx[u] /\ x'[u] = x[u]
                          /\ arr'[u] = arr[u] /\ sz'[u] = sz[u] /\ cur[u] \subseteq cur'[u]
  BY BottomStoring
<1>2. PICK n \in Nat : n = Newest(Bottom) /\ n >= 1
  BY DequeBasics, DequeLocations
<1>3. PICK g \in Nat : g = Gone /\ g = Gone'
  BY <1>1, DequeBasics
<1>4. PICK p \in Nat : p = Newest(Bottom)' /\ p = n + 1
  BY <1>1, <1>2
<1>5. /\ pc[Owner] \notin RaceLabel /\ (l \in RaceLabel <=> l = "takeFence")
      /\ pc[Owner] # "takeTop" /\ pc[Owner] # "takeFence"
  BY DEF RaceLabel
<1>6. /\ \A j \in 1..n : Val(Bottom, j)' = Val(Bottom, j)
      /\ Val(Bottom, p)' = v /\ Own(Bottom) = Val(Bottom, n)
      /\ \A j \in 1..n : Val(Bottom, j) \in Nat
  <2>1. hist'[Bottom][p].val = v
    BY <1>1, <1>2, <1>4
  <2> QED
    BY <1>1, <1>2, <2>1, DequeBasics, DequeLocations DEF Val, Own
<1>7. ASSUME NEW j \in 1..n, NEW k \in Nat, Keeps(j, k)'
      PROVE  Keeps(j, k)
  <2>1. \A m \in j..n : Val(Bottom, m) > k
    BY <1>2, <1>4, <1>6, <1>7 DEF Keeps
  <2> QED
    BY <1>2, <2>1 DEF Keeps
<1>8. ASSUME NEW j \in 1..n, Keeps(j, g)
      PROVE  Keeps(j, g)'
  <2>1. \A m \in j..n : Val(Bottom, m) > g
    BY <1>2, <1>5, <1>8 DEF Keeps
  <2>2. Val(Bottom, n) > g
    BY <1>2, <2>1
  <2>3. v > g \/ (l = "takeFence" /\ v = g)
    BY <1>2, <1>6, <2>2
  <2>4. \A m \in j..p : m \in j..n \/ m = p
    BY <1>2, <1>4
  <2> QED
    BY <1>1, <1>2, <1>4, <1>5, <1>6, <2>1, <2>3, <2>4 DEF Keeps
<1>9. \A j \in 1..n : Safe(j) => Safe(j)'
  <2>1. \A j : Safe(j) => Keeps(j, g)
    BY <1>3 DEF Safe, Keeps
  <2>2. \A j : Keeps(j, g)' => Keeps(j, Gone)'
    BY <1>3 DEF Keeps
  <2>3. pc'[Owner] # "takeTop"
    BY <1>1
  <2> QED
    BY <1>8, <2>1, <2>2, <2>3 DEF Safe
<1>10. \A j \in (n + 1)..p : hist'[Bottom][j].val > g => Safe(j)'
  <2>1. pc'[Owner] # "takeTop"
    BY <1>1
  <2>2. \A j \in (n + 1)..p : j = p
    BY <1>2, <1>4
  <2>3. \A m \in p..p : m = p
    OBVIOUS
  <2> QED
    BY <1>3, <1>4, <2>1, <2>2, <2>3 DEF Safe, Keeps, Val
<1>11. Offering'
  <2>1. \A j \in 1..Newest(Bottom), k \in Nat : k >= Gone' /\ Keeps(j, k)' => Keeps(j, k)
    BY <1>2, <1>7
  <2>2. (Newest(Bottom) + 1)..p = (Newest(Bottom) + 1)..(Newest(Bottom) + 1)
    BY <1>2, <1>4
  <2> QED
    BY <1>1, <1>2, <1>3, <1>4, <2>1, <2>2, OfferingKept
<1>12. Thieves'
  <2>1. Newest(ArrayPtr) = 2 => Newest(ArrayPtr)' = 2 /\ hist'[ArrayPtr][2] = hist[ArrayPtr][2]
    BY <1>1 DEF Newest
  <2>2. \A j \in 1..Newest(Bottom), a \in Array : Offers(j, g, a) => Offers(j, g, a)'
    BY <1>1
  <2>3. \A j \in 1..Newest(Bottom) : hist'[Bottom][j] = hist[Bottom][j] /\ (Safe(j) => Safe(j)')
    BY <1>1, <1>2, <1>9
  <2>4. \A j \in (Newest(Bottom) + 1)..p : hist'[Bottom][j].val > g => Safe(j)'
    BY <1>2, <1>10
  <2>5. p >= Newest(Bottom) /\ Item(g)' = Item(g)
    BY <1>1, <1>2, <1>4
  <2>6. \A u \in Thief : Sound(u)'
    BY <1>1, <1>3, <1>4, <2>1, <2>2, <2>3, <2>4, <2>5, SoundKept
  <2> QED
    BY <2>6 DEF Thieves
<1>13. Falls'
  <2> SUFFICES ASSUME NEW j \in 1..p, LastFenced(j)', NEW m \in j..p
               PROVE  \/ Val(Bottom, m)' >= Val(Bottom, j)'
                      \/ m = p /\ l = "takeFence" /\ Val(Bottom, m)' + 1 >= Val(Bottom, j)'
    BY <1>1, <1>4 DEF Falls
  <2>1. CASE j = p
    BY <1>4, <1>6, <2>1
  <2>2. CASE j \in 1..n
    <3>1. LastFenced(j)
      BY <1>1, <1>2, <1>4, <2>2 DEF LastFenced
    <3>2. \A k \in j..n : Val(Bottom, k) >= Val(Bottom, j)
      BY <1>2, <1>5, <2>2, <3>1 DEF DequeInv, Falls
    <3>3. Val(Bottom, n) >= Val(Bottom, j) /\ Val(Bottom, n) \in Nat /\ Val(Bottom, j) \in Nat
      BY <1>2, <1>6, <2>2, <3>2
    <3>4. CASE m \in j..n
      BY <1>2, <1>6, <2>2, <3>2, <3>4
    <3>5. CASE m = p
      <4>1. v >= Val(Bottom, j) \/ (l = "takeFence" /\ v + 1 >= Val(Bottom, j))
        BY <1>6, <3>3
      <4> QED
        BY <1>6, <2>2, <3>5, <4>1
    <3> QED
      BY <1>2, <1>4, <2>2, <3>4, <3>5
  <2> QED
    BY <1>2, <1>4, <2>1, <2>2
<1> QED
  BY <1>1, <1>11, <1>12, <1>13 DEF DequeInv

(* The bounds of the indices, so that they never wrap.                     *)
LEMMA IndexNoWrap ==
  ASSUME DequeInv, NEW c \in Nat, c <= MaxPushes
  PROVE  Plus(c, 1) = c + 1 /\ (c > 0 => Minus(c, 1) = c - 1)
<1>1. SizeMax \in Nat /\ MaxPushes \in Nat /\ SizeMax > MaxPushes
  BY DequeBasics
<1>2. Plus(c, 1) = c + 1
  <2>1. c + 1 \in Nat /\ c + 1 < SizeMax + 1 /\ SizeMax + 1 \in Nat
    BY <1>1
  <2> QED
    BY <2>1 DEF Plus
<1>3. ASSUME c > 0
      PROVE  Minus(c, 1) = c - 1
  <2>1. PICK d \in Nat : d = c - 1 /\ d < SizeMax + 1
    BY <1>1, <1>3
  <2>2. (d + 1 * (SizeMax + 1)) % (SizeMax + 1) = d % (SizeMax + 1)
    BY <1>1, <2>1, Z3
  <2>3. d % (SizeMax + 1) = d
    BY <1>1, <2>1
  <2>4. c + SizeMax + 1 - 1 = d + 1 * (SizeMax + 1)
    BY <1>1, <2>1
  <2> QED
    BY <2>1, <2>2, <2>3, <2>4 DEF Minus
<1> QED
  BY <1>2, <1>3

(* The items stay when the deque does.                                     *)
LEMMA ItemsKept ==
  ASSUME DequeInv, Gone' = Gone, Limit' = Limit, Pushed' = Pushed, out' = out,
         \A k \in Nat : Item(k)' = Item(k)
  PROVE  Items'
<1>1. Gone \in Nat /\ Limit \in Nat /\ \A k \in Gone..(Limit - 1) : k \in Nat
  BY DequeBasics
<1>2. Items
  BY DEF DequeInv
<1>3. \A k \in Gone..(Limit - 1) : Item(k)' = Item(k)
  BY <1>1
<1>4. Gone'..(Limit' - 1) = Gone..(Limit - 1)
  OBVIOUS
<1>5. \A k \in Gone..(Limit - 1) : Item(k)' \in 1..Pushed
  BY <1>2, <1>3 DEF Items
<1>6. \A k, m \in Gone..(Limit - 1) : Item(k)' = Item(m)' => k = m
  BY <1>2, <1>3 DEF Items
<1>7. \A i \in 1..Len(out), k \in Gone..(Limit - 1) : out[i] # Item(k)'
  BY <1>2, <1>3 DEF Items
<1> QED
  BY <1>2, <1>4, <1>5, <1>6, <1>7 DEF Items

LEMMA PushStoreBottomStep ==
  ASSUME DequeInv, Push_StoreBottom
  PROVE  DequeInv' /\ Grown
<1>1. /\ pc[Owner] = "pushBottom" /\ pc' = [pc EXCEPT ![Owner] = "idle"]
      /\ Store(Owner, Bottom, Plus(b, 1), relaxed)
      /\ UNCHANGED <<idx, b, x, arr, sz, copied, pushes, takes, steals, out, won>>
  BY DEF Push_StoreBottom, Goto, dequeLocals
<1>2. /\ pc[Owner] \in PushLabel /\ pc[Owner] \notin TakeLabel
  BY <1>1 DEF PushLabel, TakeLabel, RaceLabel
<1>3. PICK c \in Nat : c = b
  BY DequeBasics
<1>4. /\ c = Own(Bottom) /\ Limit = c /\ Pushed = pushes - 1 /\ c <= Pushed /\ Gone <= c
      /\ c < Gone + Length(OwnArray) /\ Item(b) = pushes /\ pushes > 0 /\ pushes <= MaxPushes
      /\ pushes \in Nat /\ Gone \in Nat /\ MaxPushes \in Nat
  BY <1>1, <1>2, <1>3, DequeBasics DEF DequeInv, Window, Limit, Pushed
<1>5. PICK v \in Nat : v = Plus(b, 1) /\ v = c + 1
  BY <1>3, <1>4, IndexNoWrap
<1>6. Store(Owner, Bottom, v, relaxed) /\ v >= Own(Bottom)
  BY <1>1, <1>4, <1>5
<1>7. /\ pc'[Owner] = "idle" /\ Gone' = Gone /\ OwnArray' = OwnArray /\ Own(Bottom)' = v
      /\ \A k \in Nat : Item(k)' = Item(k)
  BY <1>1, <1>3, <1>6, BottomStoring
<1>8. Limit' = c + 1 /\ Pushed' = pushes
  BY <1>1, <1>5, <1>7 DEF Limit, Pushed, TakeLabel, RaceLabel, PushLabel
<1>9. Window'
  <2>1. Length(OwnArray)' = Length(OwnArray) /\ Length(OwnArray) \in {2, 4}
    BY <1>7, DequeBasics, SlotsApart DEF Length
  <2>2. pc'[Owner] \notin PushLabel \cup TakeLabel
    BY <1>7 DEF PushLabel, TakeLabel, RaceLabel
  <2>3. pc'[Owner] \notin {"store", "pushFence", "pushBottom", "resizeSize", "copy"}
    BY <1>7
  <2> QED
    BY <1>1, <1>4, <1>7, <1>8, <2>1, <2>2, <2>3 DEF Window
<1>10. Items'
  <2>1. \A k \in Gone..c : k \in Nat /\ (k \in Gone..(Limit - 1) \/ k = c)
    BY <1>4
  <2>2. Item(c)' = pushes
    BY <1>3, <1>4, <1>7
  <2>3. \A k \in Gone..(Limit - 1) : k \in Nat /\ Item(k)' = Item(k)
    BY <1>4, <1>7
  <2>4. /\ \A k \in Gone..(Limit - 1) : Item(k) \in 1..(pushes - 1)
        /\ \A i \in 1..Len(out) : out[i] \in 1..(pushes - 1)
    BY <1>4 DEF DequeInv, Items
  <2>5. \A k \in Gone..c : Item(k)' \in 1..pushes
    BY <1>4, <2>1, <2>2, <2>3, <2>4
  <2>6. \A k, m \in Gone..c : Item(k)' = Item(m)' => k = m
    <3>1. \A k, m \in Gone..(Limit - 1) : Item(k)' = Item(m)' => k = m
      BY <2>3 DEF DequeInv, Items
    <3>2. \A k \in Gone..(Limit - 1) : Item(k)' # Item(c)'
      BY <1>4, <2>2, <2>3, <2>4
    <3> QED
      BY <2>1, <3>1, <3>2
  <2>7. \A i \in 1..Len(out), k \in Gone..c : out[i] # Item(k)'
    <3>1. \A i \in 1..Len(out), k \in Gone..(Limit - 1) : out[i] # Item(k)'
      BY <2>3 DEF DequeInv, Items
    <3>2. \A i \in 1..Len(out) : out[i] # Item(c)'
      BY <1>4, <2>2, <2>4
    <3> QED
      BY <2>1, <3>1, <3>2
  <2>8. Gone'..(Limit' - 1) = Gone..c
    BY <1>3, <1>4, <1>7, <1>8
  <2>9. /\ \A i \in 1..Len(out) : out[i] \in 1..pushes
        /\ \A i, j \in 1..Len(out) : out[i] = out[j] => i = j
    BY <1>4, <2>4 DEF DequeInv, Items
  <2> QED
    BY <1>1, <1>8, <2>5, <2>6, <2>7, <2>8, <2>9 DEF Items
<1>11. Grown
  <2>1. \A k \in Gone..(Limit - 1) : k \in Nat
    BY <1>3, <1>4
  <2>2. \A k \in Limit..Limit : Item(k)' = Pushed + 1
    BY <1>3, <1>4, <1>7
  <2>3. Limit' = Limit + 1 /\ Pushed' = Pushed + 1
    BY <1>4, <1>8
  <2> QED
    BY <1>1, <1>7, <2>1, <2>2, <2>3 DEF Grown
<1> QED
  BY <1>1, <1>3, <1>6, <1>9, <1>10, BottomStored, <1>11

LEMMA TakeStoreBottomStep ==
  ASSUME DequeInv, TakeWhenNew = FALSE, Take_StoreBottom
  PROVE  DequeInv' /\ Unmoved
<1>1. /\ pc[Owner] = "idle" /\ pc' = [pc EXCEPT ![Owner] = "takeFence"] /\ pushes > 0
      /\ b' = Minus(Own(Bottom), 1) /\ Store(Owner, Bottom, b', relaxed)
      /\ UNCHANGED <<idx, x, arr, sz, copied, pushes, steals, out, won>>
  BY DEF Take_StoreBottom, Goto
<1>2. pc[Owner] \notin PushLabel /\ pc[Owner] \notin TakeLabel
  BY <1>1 DEF PushLabel, TakeLabel, RaceLabel
<1>3. PICK c \in Nat : c = Own(Bottom)
  BY DequeBasics
<1>4. /\ Limit = c /\ Pushed = pushes /\ c <= Pushed /\ Gone <= c /\ c > 0
      /\ c <= Gone + Length(OwnArray) /\ pushes <= MaxPushes
      /\ pushes \in Nat /\ Gone \in Nat /\ MaxPushes \in Nat
  BY <1>1, <1>2, <1>3, DequeBasics DEF DequeInv, Window, Limit, Pushed
<1>5. PICK v \in Nat : v = b' /\ v + 1 = c
  <2>1. Minus(c, 1) = c - 1 /\ c - 1 \in Nat
    BY <1>3, <1>4, IndexNoWrap
  <2> QED
    BY <1>1, <1>3, <2>1
<1>6. Store(Owner, Bottom, v, relaxed) /\ v + 1 = Own(Bottom) /\ b' \in Nat
  BY <1>1, <1>3, <1>5
<1>7. /\ pc'[Owner] = "takeFence" /\ Gone' = Gone /\ OwnArray' = OwnArray /\ Own(Bottom)' = v
      /\ \A k \in Nat : Item(k)' = Item(k)
  BY <1>1, <1>6, BottomStoring
<1>8. Limit' = c /\ Pushed' = pushes
  <2>1. pc'[Owner] \in TakeLabel /\ pc'[Owner] \notin PushLabel
    BY <1>7 DEF TakeLabel, RaceLabel, PushLabel
  <2> QED
    BY <1>1, <1>5, <2>1 DEF Limit, Pushed
<1>9. Window'
  <2>1. Length(OwnArray)' = Length(OwnArray)
    BY <1>7 DEF Length
  <2>2. pc'[Owner] \notin PushLabel
    BY <1>7 DEF PushLabel
  <2>3. pc'[Owner] \notin {"store", "pushFence", "pushBottom", "resizeSize", "copy"}
    BY <1>7
  <2>4. b' = Own(Bottom)'
    BY <1>5, <1>7
  <2> QED
    BY <1>1, <1>4, <1>7, <1>8, <2>1, <2>2, <2>3, <2>4 DEF Window
<1>10. Items'
  BY <1>1, <1>4, <1>7, <1>8, ItemsKept
<1>11. Unmoved
  <2>1. \A k \in Gone..(Limit - 1) : k \in Nat /\ k >= Gone /\ k < Limit
    BY DequeBasics
  <2> QED
    BY <1>1, <1>4, <1>7, <1>8, <2>1 DEF Unmoved
<1> QED
  BY <1>1, <1>6, <1>9, <1>10, BottomStored, <1>11

LEMMA TakeRestoreBottomStep ==
  ASSUME DequeInv, Take_RestoreBottom
  PROVE  DequeInv' /\ Unmoved
<1>1. /\ pc[Owner] = "restore" /\ pc' = [pc EXCEPT ![Owner] = "idle"]
      /\ Store(Owner, Bottom, Plus(b, 1), relaxed)
      /\ UNCHANGED <<idx, b, x, arr, sz, copied, pushes, takes, steals, out, won>>
  BY DEF Take_RestoreBottom, Goto, dequeLocals
<1>2. /\ pc[Owner] \in TakeLabel /\ pc[Owner] \notin PushLabel
  BY <1>1 DEF PushLabel, TakeLabel, RaceLabel
<1>3. PICK c \in Nat : c = b
  BY DequeBasics
<1>4. /\ c = Own(Bottom) /\ Limit = c + 1 /\ Pushed = pushes /\ c + 1 <= Pushed /\ Gone <= c + 1
      /\ c + 1 <= Gone + Length(OwnArray) /\ pushes > 0 /\ pushes <= MaxPushes
      /\ pushes \in Nat /\ Gone \in Nat /\ MaxPushes \in Nat
  BY <1>1, <1>2, <1>3, DequeBasics DEF DequeInv, Window, Limit, Pushed
<1>5. PICK v \in Nat : v = Plus(b, 1) /\ v = c + 1
  BY <1>3, <1>4, IndexNoWrap
<1>6. Store(Owner, Bottom, v, relaxed) /\ v >= Own(Bottom)
  BY <1>1, <1>4, <1>5
<1>7. /\ pc'[Owner] = "idle" /\ Gone' = Gone /\ OwnArray' = OwnArray /\ Own(Bottom)' = v
      /\ \A k \in Nat : Item(k)' = Item(k)
  BY <1>1, <1>3, <1>6, BottomStoring
<1>8. pc'[Owner] \notin PushLabel \cup TakeLabel
  BY <1>7 DEF PushLabel, TakeLabel, RaceLabel
<1>9. Limit' = c + 1 /\ Pushed' = pushes
  BY <1>1, <1>5, <1>7, <1>8 DEF Limit, Pushed
<1>10. Window'
  <2>1. Length(OwnArray)' = Length(OwnArray)
    BY <1>7 DEF Length
  <2>2. pc'[Owner] \notin {"store", "pushFence", "pushBottom", "resizeSize", "copy"}
    BY <1>7
  <2> QED
    BY <1>1, <1>4, <1>7, <1>8, <1>9, <2>1, <2>2 DEF Window
<1>11. Items'
  BY <1>1, <1>4, <1>7, <1>9, ItemsKept
<1>12. Unmoved
  <2>1. \A k \in Gone..(Limit - 1) : k \in Nat /\ k >= Gone /\ k < Limit
    BY DequeBasics
  <2> QED
    BY <1>1, <1>4, <1>7, <1>9, <2>1 DEF Unmoved
<1> QED
  BY <1>1, <1>3, <1>6, <1>10, <1>11, BottomStored, <1>12

-----------------------------------------------------------------------------
(* What the last fenced decrement of bottom says stays while bottom does,  *)
(* until the next fence publishes the newest value.                        *)
LEMMA FallsKept ==
  ASSUME DequeInv, hist' = hist, sc \subseteq sc',
         pc[Owner] = "takeFence" => pc'[Owner] = "takeFence" \/ <<Bottom, Newest(Bottom)>> \in sc'
  PROVE  Falls'
<1>1. PICK n \in Nat : n = Newest(Bottom) /\ n = Newest(Bottom)'
  <2>1. Newest(Bottom)' = Newest(Bottom)
    BY SameMemory
  <2> QED
    BY <2>1, DequeBasics, DequeLocations
<1>2. \A i : Val(Bottom, i)' = Val(Bottom, i)
  BY SameMemory
<1>3. \A j \in 1..n : Val(Bottom, j) \in Nat
  BY <1>1, DequeBasics, DequeLocations
<1> SUFFICES ASSUME NEW j \in 1..n, LastFenced(j)', NEW m \in j..n
             PROVE  \/ Val(Bottom, m) >= Val(Bottom, j)
                    \/ m = n /\ pc'[Owner] = "takeFence" /\ Val(Bottom, m) + 1 >= Val(Bottom, j)
  BY <1>1, <1>2 DEF Falls
<1>4. LastFenced(j)
  BY <1>1 DEF LastFenced
<1>5. \/ Val(Bottom, m) >= Val(Bottom, j)
      \/ m = n /\ pc[Owner] = "takeFence" /\ Val(Bottom, m) + 1 >= Val(Bottom, j)
  BY <1>1, <1>4 DEF DequeInv, Falls
<1>6. CASE <<Bottom, n>> \in sc'
  <2>1. j = n /\ m = n
    BY <1>1, <1>6 DEF LastFenced
  <2> QED
    BY <1>3, <2>1
<1>7. CASE pc[Owner] = "takeFence" => pc'[Owner] = "takeFence"
  BY <1>5, <1>7
<1> QED
  BY <1>1, <1>6, <1>7

(* A step of take() behind its store of bottom that changes no history.    *)
LEMMA TakeReading ==
  ASSUME DequeInv, pc[Owner] \in RaceLabel, NEW l \in TakeLabel \cup {"idle"},
         pc' = [pc EXCEPT ![Owner] = l],
         hist' = hist, sc \subseteq sc', MemType(DequeLoc, DequeValue)', Ordered',
         \A u \in Thread : cur[u] \subseteq cur'[u],
         rel' = rel \/ rel'[Owner] = cur'[Owner],
         UNCHANGED <<b, arr, sz, copied, pushes, won>>,
         idx' = idx \/ \E n \in Nat : idx' = [idx EXCEPT ![Owner] = n],
         x' = x \/ \E n \in Nat \cup {EMPTY} : x' = [x EXCEPT ![Owner] = n],
         out' \in Seq(Nat),
         pc[Owner] = "takeFence" => <<Bottom, Newest(Bottom)>> \in sc',
         \A j \in 1..Newest(Bottom) : Safe(j) => Safe(j)'
  PROVE  /\ DequeTypes' /\ Arrays' /\ Falls' /\ Fenced' /\ Offering' /\ Thieves'
         /\ pc'[Owner] = l /\ Gone' = Gone /\ Pushed' = Pushed /\ Own(Bottom)' = Own(Bottom)
         /\ \A k : Item(k)' = Item(k)
         /\ l \in TakeLabel => Window' /\ Limit' = Limit
         /\ l \in TakeLabel /\ out' = out => Items'
<1>1. /\ pc'[Owner] = l /\ DOMAIN pc' = Thread
      /\ arr' \in [Thread -> Array] /\ idx' \in [Thread -> Nat] /\ sz' \in [Thread -> Nat]
      /\ x' \in [Thread -> Nat \cup {EMPTY}]
      /\ \A u \in Thief : pc'[u] \in ThiefLabel
  BY OthersStay
<1>2. \A u \in Thief : /\ pc'[u] = pc[u] /\ idx'[u] = idx[u] /\ x'[u] = x[u]
                       /\ arr'[u] = arr[u] /\ sz'[u] = sz[u] /\ cur[u] \subseteq cur'[u]
  <2>1. \A u \in Thief : cur[u] \subseteq cur'[u]
    BY DEF Thief
  <2> QED
    BY <2>1, OthersStay
<1>3. /\ Gone' = Gone /\ OwnArray' = OwnArray
      /\ \A m : Newest(m)' = Newest(m) /\ Own(m)' = Own(m)
      /\ \A m, i : Val(m, i)' = Val(m, i)
      /\ \A k : Item(k)' = Item(k)
      /\ \A j, k, a : Offers(j, k, a)' <=> Offers(j, k, a)
  BY SameMemory
<1>4. /\ pc[Owner] \in TakeLabel /\ pc[Owner] \notin PushLabel /\ pc'[Owner] \notin PushLabel
      /\ pc[Owner] \notin {"resize", "resizeSize", "copy", "store", "pushFence", "pushBottom"}
      /\ pc'[Owner] \notin {"resize", "resizeSize", "copy", "store", "pushFence", "pushBottom"}
  BY <1>1 DEF TakeLabel, RaceLabel, PushLabel
<1>5. PICK n \in Nat : n = Newest(Bottom) /\ n = Newest(Bottom)'
  BY <1>3, DequeBasics, DequeLocations
<1>6. PICK g \in Nat : g = Gone /\ g = Gone'
  BY <1>3, DequeBasics
<1>7. Falls'
  BY FallsKept
<1>8. DequeTypes'
  <2>1. \A m \in DequeLoc \ {ArrayPtr} : \A k \in 1..Newest(m)' : Val(m, k)' \in Nat
    BY SameNumbers
  <2>2. pc'[Owner] \in {"idle"} \cup PushLabel \cup TakeLabel
    BY <1>1
  <2> QED
    BY <1>1, <2>1, <2>2 DEF DequeInv, DequeTypes
<1>9. Arrays'
  <2>1. pc[Owner] # "copy" /\ pc'[Owner] # "copy"
    BY <1>4
  <2> QED
    BY <1>3, <1>4, <2>1 DEF DequeInv, Arrays
<1>10. Fenced'
  <2>1. \A m \in DequeLoc \ {Top, Bottom} : \A i \in 2..Newest(m) : <<m, i>> \in rel'[Owner]
    <3>1. CASE rel' = rel
      BY <1>4, <3>1 DEF DequeInv, Fenced
    <3>2. CASE rel'[Owner] = cur'[Owner]
      <4>1. \A m \in DequeLoc : \A i \in 2..Newest(m) : i \in 1..Newest(m)
        BY DequeBasics
      <4>2. \A m \in DequeLoc \ {Top} : \A i \in 1..Newest(m) : <<m, i>> \in cur'[Owner]
        BY <1>3 DEF Ordered, Knows
      <4> QED
        BY <3>2, <4>1, <4>2
    <3> QED
      BY <3>1, <3>2
  <2> QED
    BY <1>3, <2>1 DEF Fenced
<1>11. Offering'
  <2>1. \A j, k : Keeps(j, k)' => Keeps(j, k)
    BY <1>3 DEF Keeps
  <2>2. \A j \in (Newest(Bottom) + 1)..n : FALSE
    BY <1>5
  <2> QED
    BY <1>3, <1>5, <1>6, <2>1, <2>2, OfferingKept
<1>12. Thieves'
  <2>1. Newest(ArrayPtr) = 2 => Newest(ArrayPtr)' = 2 /\ hist'[ArrayPtr][2] = hist[ArrayPtr][2]
    BY <1>3
  <2>2. \A j \in 1..Newest(Bottom), a \in Array : Offers(j, g, a) => Offers(j, g, a)'
    BY <1>3
  <2>3. \A j \in 1..Newest(Bottom) : hist'[Bottom][j] = hist[Bottom][j] /\ (Safe(j) => Safe(j)')
    OBVIOUS
  <2>4. \A j \in (Newest(Bottom) + 1)..n : FALSE
    BY <1>5
  <2>5. Item(g)' = Item(g)
    BY <1>3
  <2>6. \A u \in Thief : Sound(u)'
    BY <1>2, <1>5, <1>6, <2>1, <2>2, <2>3, <2>4, <2>5, SoundKept
  <2> QED
    BY <2>6 DEF Thieves
<1>13. Pushed' = Pushed
  BY <1>4 DEF Pushed
<1>14. l \in TakeLabel => Limit' = Limit
  BY <1>1, <1>4 DEF Limit
<1>15. l \in TakeLabel => Window'
  <2>1. Length(OwnArray)' = Length(OwnArray)
    BY <1>3 DEF Length
  <2> QED
    BY <1>1, <1>3, <1>4, <1>13, <1>14, <2>1 DEF DequeInv, Window
<1>16. l \in TakeLabel /\ out' = out => Items'
  BY <1>3, <1>13, <1>14, ItemsKept
<1> QED
  BY <1>1, <1>3, <1>7, <1>8, <1>9, <1>10, <1>11, <1>12, <1>13, <1>14, <1>15, <1>16

(* The fence of take() finds every item that has left at the front.        *)
LEMMA TakeFenceStep ==
  ASSUME DequeInv, Take_Fence
  PROVE  DequeInv' /\ Unmoved
<1>1. /\ pc[Owner] = "takeFence" /\ pc' = [pc EXCEPT ![Owner] = "takeTop"]
      /\ SeqCstFence(Owner, Written(Owner))
      /\ UNCHANGED <<idx, b, x, arr, sz, copied, pushes, takes, steals, out, won>>
  BY DEF Take_Fence, Goto, Fence, OrderTakeFence, relaxed, acquire, release, acq_rel, seq_cst,
         dequeLocals
<1>2. /\ Owner \in Thread /\ Bottom \in DequeLoc \ {Top} /\ Top \in DequeLoc
      /\ Newest(Bottom) \in Nat /\ Newest(Bottom) >= 1 /\ Newest(Top) \in Nat /\ Newest(Top) >= 1
      /\ Gone \in Nat /\ b \in Nat /\ Gone + 1 = Newest(Top)
  BY DequeBasics, DequeLocations DEF Gone
<1>3. /\ hist' = hist /\ MemType(DequeLoc, DequeValue)' /\ Ordered'
      /\ cur[Owner] \cup sc \subseteq cur'[Owner]
      /\ rel'[Owner] = cur'[Owner]
      /\ \A u \in Thread : cur[u] \subseteq cur'[u]
      /\ sc' = sc \cup Written(Owner)
  BY <1>1, <1>2, Fencing
<1>4. <<Bottom, Newest(Bottom)>> \in sc'
  <2>1. Event(Bottom, Newest(Bottom)) \in Upto(Bottom, Newest(Bottom))
    BY <1>2 DEF Upto
  <2>2. Event(Bottom, Newest(Bottom)) = <<Bottom, Newest(Bottom)>>
    BY <1>2, DequeBasics
  <2>3. Upto(Bottom, Newest(Bottom)) \subseteq Written(Owner)
    BY <1>2 DEF Written
  <2> QED
    BY <1>3, <2>1, <2>2, <2>3
<1>5. \A k \in 1..Newest(Top) : <<Top, k>> \in cur'[Owner]
  <2>1. \A k \in 1..Newest(Top) : k = 1 \/ k \in 2..Newest(Top)
    BY <1>2
  <2>2. <<Top, 1>> \in cur'[Owner]
    BY <1>2, <1>3 DEF DequeInv, Ordered
  <2>3. \A k \in 2..Newest(Top) : <<Top, k>> \in cur'[Owner]
    BY <1>3 DEF DequeInv, Ordered
  <2> QED
    BY <2>1, <2>2, <2>3
<1>6. /\ pc[Owner] \in RaceLabel /\ "takeTop" \in TakeLabel
      /\ out' \in Seq(Nat) /\ pc'[Owner] = "takeTop"
  BY <1>1, <1>2 DEF RaceLabel, TakeLabel, DequeInv, DequeTypes
<1>7. \A j \in 1..Newest(Bottom) : Safe(j) => Safe(j)'
  <2>1. "takeTop" \in RaceLabel
    BY DEF RaceLabel
  <2>2. \A j : Keeps(j, Gone) => Keeps(j, Gone)'
    BY <1>3, <1>6, <2>1, SameMemory DEF Keeps
  <2>3. <<Top, Gone + 1>> \in cur'[Owner] /\ Gone' = Gone
    BY <1>2, <1>3, <1>5, SameMemory
  <2> QED
    BY <2>2, <2>3 DEF Safe
<1>8. /\ DequeTypes' /\ Arrays' /\ Falls' /\ Fenced' /\ Offering' /\ Thieves'
      /\ Gone' = Gone /\ Window' /\ Items'
      /\ Limit' = Limit /\ Pushed' = Pushed /\ \A k : Item(k)' = Item(k)
  BY <1>1, <1>3, <1>4, <1>6, <1>7, TakeReading
<1>9. Race'
  <2>1. Gone > b => <<Top, b + 1>> \in cur'[Owner]
    BY <1>2, <1>5
  <2>2. <<Bottom, Newest(Bottom)'>> \in sc'
    BY <1>3, <1>4 DEF Newest
  <2> QED
    BY <1>1, <1>6, <1>8, <2>1, <2>2 DEF Race
<1>10. Unmoved
  BY <1>1, <1>8 DEF Unmoved
<1> QED
  BY <1>3, <1>8, <1>9, <1>10 DEF DequeInv

(* What an item that leaves the deque at either end leaves behind.         *)
LEMMA ItemsHandedOut ==
  ASSUME DequeInv, NEW k \in Nat, k >= Gone, k < Limit, out' = Append(out, Item(k)),
         Pushed' = Pushed,
         \A m \in Gone'..(Limit' - 1) : m \in Gone..(Limit - 1) /\ m # k /\ Item(m)' = Item(m)
  PROVE  Items'
<1>1. /\ Gone \in Nat /\ Limit \in Nat /\ Item(k) \in Nat /\ out \in Seq(Nat)
  BY DequeBasics DEF DequeInv, DequeTypes
<1>2. k \in Gone..(Limit - 1)
  BY <1>1
<1>3. /\ Len(out') = Len(out) + 1 /\ Len(out) \in Nat /\ out'[Len(out) + 1] = Item(k)
      /\ \A i \in 1..Len(out) : out'[i] = out[i]
  BY <1>1, LenProperties
<1>4. \A i \in 1..Len(out') : i \in 1..Len(out) \/ i = Len(out) + 1
  BY <1>3
<1>5. /\ \A m \in Gone..(Limit - 1) : Item(m) \in 1..Pushed
      /\ \A m, n \in Gone..(Limit - 1) : Item(m) = Item(n) => m = n
      /\ \A i \in 1..Len(out) : out[i] \in 1..Pushed
      /\ \A i, j \in 1..Len(out) : out[i] = out[j] => i = j
      /\ \A i \in 1..Len(out), m \in Gone..(Limit - 1) : out[i] # Item(m)
  BY DEF DequeInv, Items
<1>6. \A i \in 1..Len(out') : out'[i] \in 1..Pushed
  BY <1>2, <1>3, <1>4, <1>5
<1>7. \A i, j \in 1..Len(out') : out'[i] = out'[j] => i = j
  BY <1>2, <1>3, <1>4, <1>5
<1>8. /\ \A m \in Gone'..(Limit' - 1) : Item(m)' \in 1..Pushed
      /\ \A m, n \in Gone'..(Limit' - 1) : Item(m)' = Item(n)' => m = n
  BY <1>5
<1>9. \A i \in 1..Len(out'), m \in Gone'..(Limit' - 1) : out'[i] # Item(m)'
  <2>1. \A m \in Gone'..(Limit' - 1) : Item(k) # Item(m)'
    BY <1>2, <1>5
  <2>2. \A i \in 1..Len(out), m \in Gone'..(Limit' - 1) : out[i] # Item(m)'
    BY <1>5
  <2> QED
    BY <1>3, <1>4, <2>1, <2>2
<1> QED
  BY <1>6, <1>7, <1>8, <1>9 DEF Items

(* take() finds top: below its bottom it takes the item there, at its      *)
(* bottom it must race for it, above it the thieves have got everything.   *)
LEMMA TakeLoadTopStep ==
  ASSUME DequeInv, Take_LoadTop
  PROVE  DequeInv' /\ (Unmoved \/ TakenBack)
<1>1. PICK i \in Readable(Owner, Top, relaxed) :
        /\ Load(Owner, Top, i, relaxed)
        /\ idx' = [idx EXCEPT ![Owner] = Val(Top, i)]
        /\ x' = [x EXCEPT ![Owner] = IF Val(Top, i) <= b THEN Back ELSE EMPTY]
        /\ pc' = [pc EXCEPT ![Owner] = CASE Val(Top, i) < b -> "idle"
                                         [] Val(Top, i) = b -> "takeCAS"
                                         [] Val(Top, i) > b -> "restore"]
        /\ out' = IF Val(Top, i) < b THEN Append(out, x'[Owner]) ELSE out
  BY DEF Take_LoadTop
<1>2. /\ pc[Owner] = "takeTop"
      /\ UNCHANGED <<b, arr, sz, copied, pushes, takes, steals, won>>
  BY DEF Take_LoadTop
<1>3. /\ Owner \in Thread /\ Top \in DequeLoc /\ relaxed # seq_cst
      /\ Newest(Top) \in Nat /\ Newest(Top) >= 1 /\ Gone + 1 = Newest(Top)
      /\ Gone \in Nat /\ b \in Nat /\ Pushed \in Nat /\ out \in Seq(Nat)
  <2>1. out \in Seq(Nat)
    BY DEF DequeInv, DequeTypes
  <2>2. Newest(Top) \in Nat /\ Newest(Top) >= 1 /\ Gone + 1 = Newest(Top)
    BY DequeBasics, DequeLocations DEF Gone
  <2>3. relaxed # seq_cst
    BY DEF relaxed, seq_cst
  <2> QED
    BY <2>1, <2>2, <2>3, DequeBasics, DequeLocations
<1>4. /\ i \in 1..Newest(Top) /\ hist' = hist /\ rel' = rel /\ sc' = sc
      /\ MemType(DequeLoc, DequeValue)' /\ Ordered'
      /\ \A u \in Thread : cur[u] \subseteq cur'[u]
      /\ <<Top, i>> \in cur'[Owner]
      /\ \A k \in (i + 1)..Newest(Top) : <<Top, k>> \notin cur[Owner]
  BY <1>1, <1>3, DequeLoading
<1>5. PICK v \in Nat : v = Val(Top, i) /\ v = i - 1 /\ v <= Gone
  <2>1. Val(Top, i) = i - 1
    BY <1>4 DEF DequeInv, Ordered
  <2> QED
    BY <1>3, <1>4, <2>1
<1>6. Back = Item(b) /\ Item(b) \in Nat
  BY <1>3, DequeBasics DEF Back, Item, Slot
<1>7. /\ pc[Owner] \in RaceLabel /\ pc[Owner] \in TakeLabel
      /\ "takeCAS" \in TakeLabel /\ "restore" \in TakeLabel /\ pc[Owner] \notin PushLabel
  BY <1>2 DEF RaceLabel, TakeLabel, PushLabel
<1>8. /\ Limit = b + 1 /\ b = Own(Bottom) /\ Gone <= b + 1 /\ b + 1 <= Pushed
      /\ b + 1 <= Gone + Length(OwnArray)
  BY <1>7 DEF DequeInv, Window, Limit
<1>9. Gone > b => <<Top, b + 1>> \in cur[Owner]
  BY <1>2 DEF DequeInv, Race
<1>10. <<Bottom, Newest(Bottom)>> \in sc
  BY <1>2 DEF DequeInv, Race
<1>11. \E n \in Nat : idx' = [idx EXCEPT ![Owner] = n]
  BY <1>1, <1>5
<1>12. \E n \in Nat \cup {EMPTY} : x' = [x EXCEPT ![Owner] = n]
  BY <1>1, <1>5, <1>6
<1>13. x \in [Thread -> Nat \cup {EMPTY}] /\ idx \in [Thread -> Nat]
  BY DEF DequeInv, DequeTypes
<1>18. v <= b => x'[Owner] = Item(b)
  <2>1. v <= b => x' = [x EXCEPT ![Owner] = Item(b)]
    BY <1>1, <1>5, <1>6
  <2> QED
    BY <1>3, <1>13, <2>1
<1>19. /\ v < b => pc' = [pc EXCEPT ![Owner] = "idle"] /\ out' = Append(out, x'[Owner])
       /\ v = b => pc' = [pc EXCEPT ![Owner] = "takeCAS"] /\ out' = out
       /\ v > b => pc' = [pc EXCEPT ![Owner] = "restore"] /\ out' = out
  <2> DEFINE l == CASE v < b -> "idle" [] v = b -> "takeCAS" [] v > b -> "restore"
  <2>1. pc' = [pc EXCEPT ![Owner] = l]
    BY <1>1, <1>5
  <2>2. out' = IF v < b THEN Append(out, x'[Owner]) ELSE out
    BY <1>1, <1>5
  <2>3. (v < b => l = "idle") /\ (v = b => l = "takeCAS") /\ (v > b => l = "restore")
    BY <1>3
  <2> HIDE DEF l
  <2>4. (v < b => v # b) /\ (v >= b => ~(v < b)) /\ (v > b => ~(v < b)) /\ (v = b => ~(v < b))
    BY <1>3
  <2> QED
    BY <2>1, <2>2, <2>3, <2>4
<1>14. /\ Gone' = Gone /\ Newest(Bottom)' = Newest(Bottom)
       /\ \A m, k : Val(m, k)' = Val(m, k)
       /\ \A k : Item(k)' = Item(k)
  BY <1>4, SameMemory
<1>15. CASE v < b
  <2>1. pc' = [pc EXCEPT ![Owner] = "idle"] /\ x'[Owner] = Item(b) /\ out' = Append(out, Item(b))
    BY <1>3, <1>15, <1>18, <1>19
  <2>2. Gone <= b
    <3>1. CASE Gone > b
      <4>1. b + 1 \in (i + 1)..Newest(Top)
        BY <1>3, <1>4, <1>5, <1>15, <3>1
      <4> QED
        BY <1>4, <1>9, <3>1, <4>1
    <3> QED
      BY <1>3, <3>1
  <2>3. "idle" \notin RaceLabel /\ "idle" \in TakeLabel \cup {"idle"} /\ "idle" \notin TakeLabel
        /\ "idle" \notin PushLabel
    BY DEF RaceLabel, TakeLabel, PushLabel
  <2>4. pc'[Owner] = "idle"
    BY <1>3, <2>1 DEF DequeInv, DequeTypes
  <2>5. \A j \in 1..Newest(Bottom) : Safe(j) => Safe(j)'
    <3> SUFFICES ASSUME NEW j \in 1..Newest(Bottom), Safe(j)
                 PROVE  Safe(j)'
      OBVIOUS
    <3>1. b # Gone
      <4>1. CASE b = Gone
        <5>1. <<Top, Gone + 1>> \in cur[Owner]
          BY <1>2, <4>1 DEF Safe
        <5>2. Gone + 1 \in (i + 1)..Newest(Top)
          BY <1>3, <1>4, <1>5, <1>15, <4>1
        <5> QED
          BY <1>4, <5>1, <5>2
      <4> QED
        BY <4>1
    <3>2. PICK n \in Nat : n = Newest(Bottom) /\ n = Newest(Bottom)' /\ Val(Bottom, n) = b
      <4>1. Newest(Bottom) \in Nat
        BY DequeBasics, DequeLocations
      <4> QED
        BY <1>8, <1>14, <4>1 DEF Own
    <3>3. PICK g \in Nat : g = Gone /\ g = Gone'
      BY <1>3, <1>14
    <3>4. Keeps(j, g)
      BY <3>3 DEF Safe, Keeps
    <3>5. \A m \in j..n : Val(Bottom, m) > g
      BY <1>3, <2>2, <3>1, <3>2, <3>3, <3>4 DEF Keeps
    <3>6. Keeps(j, g)'
      BY <1>14, <3>2, <3>4, <3>5 DEF Keeps
    <3> QED
      BY <2>4, <3>3, <3>6 DEF Safe, Keeps
  <2>6. out' \in Seq(Nat)
    BY <1>3, <1>6, <2>1
  <2>7. /\ DequeTypes' /\ Arrays' /\ Falls' /\ Fenced' /\ Offering' /\ Thieves'
        /\ Pushed' = Pushed /\ Own(Bottom)' = Own(Bottom)
    BY <1>2, <1>4, <1>7, <1>11, <1>12, <2>1, <2>3, <2>5, <2>6, TakeReading
  <2>8. Limit' = b
    BY <1>8, <2>3, <2>4, <2>7 DEF Limit
  <2>9. Window'
    <3>1. Length(OwnArray)' = Length(OwnArray) /\ Length(OwnArray) \in {2, 4}
      BY <1>4, DequeBasics, SameMemory, SlotsApart DEF Length
    <3>2. pc'[Owner] \notin {"store", "pushFence", "pushBottom", "resizeSize", "copy"}
      BY <2>4
    <3>3. b > 0 /\ pushes' <= MaxPushes
      BY <1>2, <1>3, <1>5, <1>15 DEF DequeInv, Window
    <3> QED
      BY <1>2, <1>3, <1>8, <1>14, <2>2, <2>3, <2>4, <2>7, <2>8, <3>1, <3>2, <3>3 DEF Window
  <2>10. Items'
    <3>1. \A m \in Gone'..(Limit' - 1) : m \in Gone..(Limit - 1) /\ m # b /\ Item(m)' = Item(m)
      BY <1>3, <1>8, <1>14, <2>2, <2>8
    <3> QED
      BY <1>3, <1>8, <2>1, <2>2, <2>7, <3>1, ItemsHandedOut
  <2>11. Race'
    BY <2>4 DEF Race
  <2>12. TakenBack
    <3>1. Limit - 1 = b
      BY <1>3, <1>8
    <3>2. Limit' + 1 = Limit /\ Gone < Limit /\ out' = Append(out, Item(Limit - 1))
      BY <1>3, <1>8, <2>1, <2>2, <2>8, <3>1
    <3> QED
      BY <1>14, <2>7, <3>2 DEF TakenBack
  <2> QED
    BY <1>4, <2>7, <2>9, <2>10, <2>11, <2>12 DEF DequeInv
<1>16. CASE v = b
  <2>1. pc' = [pc EXCEPT ![Owner] = "takeCAS"] /\ x'[Owner] = Item(b) /\ out' = out
        /\ idx'[Owner] = b
    <3>1. idx'[Owner] = Val(Top, i)
      BY <1>1, <1>3, <1>13
    <3>2. v <= b
      BY <1>3, <1>16
    <3> QED
      BY <1>5, <1>16, <1>18, <1>19, <3>1, <3>2
  <2>2. pc'[Owner] = "takeCAS"
    BY <1>3, <2>1 DEF DequeInv, DequeTypes
  <2>3. \A j \in 1..Newest(Bottom) : Safe(j) => Safe(j)'
    <3>1. "takeCAS" \in RaceLabel
      BY DEF RaceLabel
    <3>2. \A j : Keeps(j, Gone) => Keeps(j, Gone)'
      BY <1>14, <2>2, <3>1 DEF Keeps
    <3> QED
      BY <2>2, <3>2 DEF Safe
  <2>4. /\ DequeTypes' /\ Arrays' /\ Falls' /\ Fenced' /\ Offering' /\ Thieves'
        /\ Window' /\ Items' /\ Limit' = Limit /\ Pushed' = Pushed
    BY <1>2, <1>3, <1>4, <1>7, <1>11, <1>12, <2>1, <2>3, TakeReading
  <2>5. Race'
    <3>1. <<Top, b + 1>> \in cur'[Owner]
      BY <1>4, <1>5, <1>16
    <3>2. Item(b)' = Item(b)
      <4>1. PICK c \in Nat : c = b
        BY <1>3
      <4> QED
        BY <1>2, <1>14, <4>1
    <3> QED
      BY <1>2, <1>4, <1>5, <1>10, <1>14, <1>16, <2>1, <2>2, <3>1, <3>2 DEF Race
  <2>6. Unmoved
    BY <1>14, <2>1, <2>4 DEF Unmoved
  <2> QED
    BY <1>4, <2>4, <2>5, <2>6 DEF DequeInv
<1>17. CASE v > b
  <2>1. pc' = [pc EXCEPT ![Owner] = "restore"] /\ out' = out
    BY <1>3, <1>17, <1>19
  <2>2. pc'[Owner] = "restore" /\ Gone = b + 1
    BY <1>3, <1>5, <1>8, <1>17, <2>1 DEF DequeInv, DequeTypes
  <2>3. \A j \in 1..Newest(Bottom) : ~Safe(j)
    BY <1>3, <1>8, <2>2, KeptInside DEF Safe
  <2>4. /\ DequeTypes' /\ Arrays' /\ Falls' /\ Fenced' /\ Offering' /\ Thieves'
        /\ Window' /\ Items' /\ Limit' = Limit /\ Pushed' = Pushed
    BY <1>2, <1>3, <1>4, <1>7, <1>11, <1>12, <2>1, <2>3, TakeReading
  <2>5. Race'
    BY <1>2, <1>14, <2>2 DEF Race
  <2>6. Unmoved
    BY <1>14, <2>1, <2>4 DEF Unmoved
  <2> QED
    BY <1>4, <2>4, <2>5, <2>6 DEF DequeInv
<1> QED
  BY <1>3, <1>5, <1>15, <1>16, <1>17

(* The owner loses the last item only to a thief that has taken it.        *)
LEMMA TakeLoseCASStep ==
  ASSUME DequeInv, Take_LoseCAS
  PROVE  DequeInv' /\ Unmoved
<1>1. /\ pc[Owner] = "takeCAS" /\ pc' = [pc EXCEPT ![Owner] = "restore"] /\ LoseTop(Owner)
      /\ x' = [x EXCEPT ![Owner] = EMPTY]
      /\ UNCHANGED <<idx, b, arr, sz, copied, pushes, takes, steals, out, won>>
  BY DEF Take_LoseCAS, Goto
<1>2. /\ Owner \in Thread /\ Gone \in Nat /\ b \in Nat /\ Newest(Top) \in Nat
      /\ Gone + 1 = Newest(Top) /\ out' \in Seq(Nat)
  <2>1. out' \in Seq(Nat)
    BY <1>1 DEF DequeInv, DequeTypes
  <2>2. Newest(Top) \in Nat /\ Newest(Top) >= 1 /\ Gone + 1 = Newest(Top)
    BY DequeBasics, DequeLocations DEF Gone
  <2> QED
    BY <2>1, <2>2, DequeBasics
<1>3. /\ hist' = hist /\ rel' = rel /\ sc' = sc
      /\ MemType(DequeLoc, DequeValue)' /\ Ordered'
      /\ \A u \in Thread : cur[u] \subseteq cur'[u]
      /\ \E i \in 1..Newest(Top) :
           i - 1 # idx[Owner] /\ \A k \in (i + 1)..Newest(Top) : <<Top, k>> \notin cur[Owner]
  BY <1>1, <1>2, Losing
<1>4. /\ pc[Owner] \in RaceLabel /\ pc[Owner] \in TakeLabel /\ "restore" \in TakeLabel
  BY <1>1 DEF RaceLabel, TakeLabel
<1>5. /\ Limit = b + 1 /\ b = Own(Bottom) /\ Gone <= b + 1
  BY <1>4 DEF DequeInv, Window, Limit
<1>6. idx[Owner] = b /\ <<Top, b + 1>> \in cur[Owner]
  BY <1>1 DEF DequeInv, Race
<1>7. Gone = b + 1
  <2>1. PICK i \in 1..Newest(Top) :
          i - 1 # b /\ \A k \in (i + 1)..Newest(Top) : <<Top, k>> \notin cur[Owner]
    BY <1>3, <1>6
  <2>2. Gone >= b
    BY <1>1 DEF DequeInv, Race
  <2>3. b + 1 \notin (i + 1)..Newest(Top)
    BY <1>6, <2>1
  <2> QED
    BY <1>2, <1>5, <2>1, <2>2, <2>3
<1>8. \A j \in 1..Newest(Bottom) : ~Safe(j)
  BY <1>2, <1>5, <1>7, KeptInside DEF Safe
<1>9. /\ DequeTypes' /\ Arrays' /\ Falls' /\ Fenced' /\ Offering' /\ Thieves'
      /\ Window' /\ Items' /\ pc'[Owner] = "restore" /\ Gone' = Gone
      /\ Limit' = Limit /\ Pushed' = Pushed /\ \A k : Item(k)' = Item(k)
  BY <1>1, <1>2, <1>3, <1>4, <1>8, TakeReading
<1>10. Race'
  BY <1>1, <1>7, <1>9 DEF Race
<1>11. Unmoved
  BY <1>1, <1>9 DEF Unmoved
<1> QED
  BY <1>3, <1>9, <1>10, <1>11 DEF DequeInv

-----------------------------------------------------------------------------
(* A step that writes only top leaves what the arrays and bottom hold.     *)
LEMMA TopAlone ==
  ASSUME DequeInv, \A m \in DequeLoc \ {Top} : hist'[m] = hist[m]
  PROVE  /\ OwnArray' = OwnArray /\ Own(Bottom)' = Own(Bottom)
         /\ Newest(Bottom)' = Newest(Bottom) /\ \A i : Val(Bottom, i)' = Val(Bottom, i)
         /\ hist'[Bottom] = hist[Bottom] /\ hist'[ArrayPtr] = hist[ArrayPtr]
         /\ \A k \in Nat : Item(k)' = Item(k)
         /\ \A k \in Nat, a \in Array : Own(Slot(a, k))' = Own(Slot(a, k))
         /\ \A j, k, a : k \in Nat /\ a \in Array => (Offers(j, k, a)' <=> Offers(j, k, a))
<1>1. /\ hist'[Bottom] = hist[Bottom] /\ hist'[ArrayPtr] = hist[ArrayPtr]
      /\ OwnArray \in Array
  BY DequeBasics, DequeLocations
<1>2. /\ OwnArray' = OwnArray /\ Own(Bottom)' = Own(Bottom)
      /\ Newest(Bottom)' = Newest(Bottom) /\ \A i : Val(Bottom, i)' = Val(Bottom, i)
  BY <1>1 DEF OwnArray, Own, Newest, Val
<1>3. \A k \in Nat, a \in Array :
        /\ Own(Slot(a, k))' = Own(Slot(a, k)) /\ Newest(Slot(a, k))' = Newest(Slot(a, k))
  <2>1. \A k \in Nat, a \in Array : hist'[Slot(a, k)] = hist[Slot(a, k)]
    BY SlotsApart
  <2> QED
    BY <2>1 DEF Slot, Own, Val, Newest
<1>4. \A k \in Nat : Item(k)' = Item(k)
  <2>1. PICK a \in Array : a = OwnArray /\ a = OwnArray'
    BY <1>1, <1>2
  <2> QED
    BY <1>3, <2>1 DEF Item, Slot
<1>5. \A a : Installed(a)' = Installed(a)
  BY <1>1 DEF Installed
<1>6. \A j, k, a : k \in Nat /\ a \in Array => (Offers(j, k, a)' <=> Offers(j, k, a))
  BY <1>1, <1>3, <1>4, <1>5 DEF Offers
<1> QED
  BY <1>1, <1>2, <1>3, <1>4, <1>6

(* A compare_exchange that succeeds hands out the item at the front.       *)
LEMMA ItemWon ==
  ASSUME DequeInv, NEW t \in Thread, NEW ord, WinTop(t, ord), ord = seq_cst \/ t = Owner,
         NEW l, pc' = [pc EXCEPT ![t] = l],
         (t = Owner /\ pc[Owner] = "takeCAS" /\ l = "restore") \/ (t \in Thief /\ l = "idle"),
         x[t] = Item(Gone), Gone < Limit
  PROVE  /\ DequeTypes' /\ Ordered' /\ Arrays' /\ Window' /\ Items' /\ Falls' /\ Fenced'
         /\ Offering' /\ Thieves'
         /\ TakenFront
         /\ pc'[t] = l /\ (t # Owner => pc'[Owner] = pc[Owner])
<1>1. /\ idx[t] = Gone /\ Gone' = Gone + 1
      /\ MemType(DequeLoc, DequeValue)' /\ Ordered'
      /\ \A m \in DequeLoc \ {Top} : hist'[m] = hist[m]
      /\ \A u \in Thread : cur[u] \subseteq cur'[u]
      /\ rel' = rel
      /\ \A j \in Nat : <<Bottom, j>> \in sc' <=> <<Bottom, j>> \in sc
      /\ out' = Append(out, x[t])
      /\ won' \in [Thread -> SUBSET Events(DequeLoc)]
      /\ UNCHANGED <<idx, b, x, arr, sz, copied, pushes>>
  BY Winning
<1>2. /\ Owner \in Thread /\ Owner \notin Thief /\ DOMAIN pc = Thread
      /\ Gone \in Nat /\ Limit \in Nat /\ b \in Nat /\ out \in Seq(Nat) /\ Item(Gone) \in Nat
  BY DequeBasics DEF DequeInv, DequeTypes
<1>3. /\ pc'[t] = l /\ DOMAIN pc' = Thread /\ \A u \in Thread \ {t} : pc'[u] = pc[u]
  BY <1>2
<1>4. pc'[Owner] = pc[Owner] \/ (pc[Owner] = "takeCAS" /\ pc'[Owner] = "restore")
  BY <1>2, <1>3
<1>5. /\ pc'[Owner] \in TakeLabel <=> pc[Owner] \in TakeLabel
      /\ pc'[Owner] \in PushLabel <=> pc[Owner] \in PushLabel
      /\ pc'[Owner] \in RaceLabel => pc[Owner] = pc'[Owner]
  BY <1>4 DEF TakeLabel, RaceLabel, PushLabel
<1>6. /\ OwnArray' = OwnArray /\ Own(Bottom)' = Own(Bottom)
      /\ Newest(Bottom)' = Newest(Bottom) /\ \A i : Val(Bottom, i)' = Val(Bottom, i)
      /\ hist'[Bottom] = hist[Bottom] /\ hist'[ArrayPtr] = hist[ArrayPtr]
      /\ \A k \in Nat : Item(k)' = Item(k)
      /\ \A k \in Nat, a \in Array : Own(Slot(a, k))' = Own(Slot(a, k))
      /\ \A j, k, a : k \in Nat /\ a \in Array => (Offers(j, k, a)' <=> Offers(j, k, a))
  BY <1>1, TopAlone
<1>7. Limit' = Limit /\ Pushed' = Pushed
  BY <1>1, <1>5, <1>6 DEF Limit, Pushed
<1>8. PICK n \in Nat : n = Newest(Bottom) /\ n = Newest(Bottom)'
  BY <1>6, DequeBasics, DequeLocations
<1>9. PICK g \in Nat : g = Gone /\ Gone' = g + 1
  BY <1>1, <1>2
<1>10. DequeTypes'
  <2>1. ASSUME NEW m \in DequeLoc \ {ArrayPtr}, NEW k \in 1..Newest(m)'
        PROVE  hist'[m][k].val \in Nat
    <3>1. CASE m = Top
      <4>1. hist'[Top][k].val = k - 1
        BY <2>1, <3>1, <1>1 DEF Ordered, Val
      <4>2. Newest(Top)' \in Nat
        <5>1. Newest(Top)' = Gone' + 1
          <6>1. hist'[Top] \in Seq(Messages(DequeLoc, DequeValue))
            BY <1>1, DequeLocations DEF MemType
          <6>2. Len(hist'[Top]) \in Nat
            BY <6>1, LenProperties
          <6> QED
            BY <6>2 DEF Gone, Newest
        <5> QED
          BY <1>9, <5>1
      <4> QED
        BY <2>1, <3>1, <4>1, <4>2
    <3>2. CASE m # Top
      BY <1>1, <2>1, <3>2 DEF DequeInv, DequeTypes, Newest, Val
    <3> QED
      BY <3>1, <3>2
  <2>2. \A m \in DequeLoc \ {ArrayPtr} : \A k \in 1..Newest(m)' : Val(m, k)' \in Nat
    BY <2>1 DEF Val
  <2>3. pc'[Owner] \in {"idle"} \cup PushLabel \cup TakeLabel
    BY <1>4 DEF DequeInv, DequeTypes, TakeLabel
  <2>4. \A u \in Thief : pc'[u] \in ThiefLabel
    <3>1. "idle" \in ThiefLabel /\ \A u \in Thief : u \in Thread /\ u # Owner
      BY <1>2 DEF ThiefLabel, Thief
    <3> QED
      BY <1>3, <3>1 DEF DequeInv, DequeTypes
  <2>5. out' \in Seq(Nat)
    BY <1>1, <1>2
  <2> QED
    BY <1>1, <1>3, <2>2, <2>3, <2>4, <2>5 DEF DequeInv, DequeTypes
<1>11. Arrays'
  <2>1. /\ hist'[Size("old")] = hist[Size("old")] /\ hist'[Size("new")] = hist[Size("new")]
    BY <1>1, DequeLocations
  <2>2. /\ Newest(ArrayPtr)' = Newest(ArrayPtr) /\ Newest(Size("old"))' = Newest(Size("old"))
        /\ Newest(Size("new"))' = Newest(Size("new"))
    BY <1>6, <2>1 DEF Newest
  <2>3. /\ \A i : Val(ArrayPtr, i)' = Val(ArrayPtr, i)
        /\ \A i : Val(Size("old"), i)' = Val(Size("old"), i)
        /\ \A i : Val(Size("new"), i)' = Val(Size("new"), i)
    BY <1>6, <2>1 DEF Val
  <2>4. /\ pc'[Owner] = "copy" <=> pc[Owner] = "copy"
        /\ pc'[Owner] = "resize" <=> pc[Owner] = "resize"
        /\ pc'[Owner] = "resizeSize" <=> pc[Owner] = "resizeSize"
    BY <1>4
  <2> QED
    BY <1>1, <1>5, <1>6, <2>2, <2>3, <2>4 DEF DequeInv, Arrays
<1>12. Items'
  <2>1. \A m \in Gone'..(Limit' - 1) : m \in Gone..(Limit - 1) /\ m # g /\ m \in Nat
    BY <1>2, <1>7, <1>9
  <2>2. \A m \in Gone'..(Limit' - 1) : Item(m)' = Item(m)
    BY <1>6, <2>1
  <2>3. out' = Append(out, Item(g)) /\ g >= Gone /\ g < Limit
    BY <1>1, <1>2, <1>9
  <2> QED
    BY <1>7, <2>1, <2>2, <2>3, ItemsHandedOut
<1>13. Window'
  <2>1. Length(OwnArray)' = Length(OwnArray) /\ Length(OwnArray) \in {2, 4}
    BY <1>6, DequeBasics, SlotsApart DEF Length
  <2>2. Gone' <= Limit' /\ Limit' <= Pushed' /\ Limit' <= Gone' + Length(OwnArray)
    BY <1>2, <1>7, <1>9, <2>1 DEF DequeInv, Window
  <2>3. \A s \in {"store", "pushFence", "pushBottom", "resizeSize", "copy"} :
          pc'[Owner] = s => pc[Owner] = s
    BY <1>4
  <2>4. pc'[Owner] \in {"store", "pushFence", "pushBottom"} => b' < Gone' + Length(OwnArray)
    BY <1>1, <1>2, <1>9, <2>1, <2>3 DEF DequeInv, Window
  <2>5. pc'[Owner] \in {"pushFence", "pushBottom"} => Item(b)' = pushes'
    <3>1. PICK c \in Nat : c = b
      BY <1>2
    <3>2. Item(b)' = Item(c)' /\ Item(b) = Item(c)
      BY <1>1, <3>1
    <3> QED
      BY <1>1, <1>6, <2>3, <3>2 DEF DequeInv, Window
  <2>6. pc'[Owner] \in {"resizeSize", "copy"} => copied' <= b'
    BY <1>1, <2>3 DEF DequeInv, Window
  <2>7. pc'[Owner] = "resizeSize" => copied' <= Gone'
    BY <1>1, <1>2, <1>9, <2>3 DEF DequeInv, DequeTypes, Window
  <2>8. pc'[Owner] = "copy" =>
          \A k \in Gone'..(copied' - 1) : Own(Slot("old", k))' = Own(Slot("new", k))'
    <3>1. \A k \in Gone'..(copied' - 1) : k \in Gone..(copied - 1) /\ k \in Nat
      BY <1>1, <1>2, <1>9 DEF DequeInv, DequeTypes
    <3>2. "old" \in Array /\ "new" \in Array
      BY DequeLocations
    <3> QED
      BY <1>6, <2>3, <3>1, <3>2 DEF DequeInv, Window
  <2>9. /\ pushes' <= MaxPushes /\ (pc'[Owner] \in PushLabel => pushes' > 0)
        /\ Pushed' > 0 => Limit' > 0
        /\ pc'[Owner] \in PushLabel \cup TakeLabel => b' = Own(Bottom)'
        /\ pc'[Owner] \in TakeLabel => pushes' > 0
    BY <1>1, <1>5, <1>6, <1>7 DEF DequeInv, Window
  <2> QED
    BY <2>1, <2>2, <2>4, <2>5, <2>6, <2>7, <2>8, <2>9 DEF Window
<1>14. Falls'
  <2>1. \A j \in 1..n : LastFenced(j)' => LastFenced(j)
    <3>1. \A j \in 1..n : \A m \in (j + 1)..n : m \in Nat
      BY <1>8
    <3> QED
      BY <1>1, <1>8, <3>1 DEF LastFenced
  <2>2. pc[Owner] = "takeFence" => pc'[Owner] = "takeFence"
    BY <1>4
  <2> QED
    BY <1>6, <1>8, <2>1, <2>2 DEF DequeInv, Falls
<1>15. Fenced'
  <2>1. pc'[Owner] \notin {"resize", "resizeSize", "copy", "store", "pushFence"} =>
          pc[Owner] \notin {"resize", "resizeSize", "copy", "store", "pushFence"}
    BY <1>4
  <2>2. \A m \in DequeLoc \ {Top, Bottom} : Newest(m)' = Newest(m)
    BY <1>1 DEF Newest
  <2> QED
    BY <1>1, <2>1, <2>2 DEF DequeInv, Fenced
<1>16. Offering'
  <2>1. \A j, k : Keeps(j, k)' => Keeps(j, k)
    BY <1>5, <1>6 DEF Keeps
  <2>2. \A j \in (Newest(Bottom) + 1)..n : FALSE
    BY <1>8
  <2>3. n >= Newest(Bottom) /\ Gone' \in Nat /\ Gone' >= Gone
    BY <1>8, <1>9
  <2>4. \A j \in 1..Newest(Bottom) : hist'[Bottom][j] = hist[Bottom][j]
    BY <1>6
  <2> QED
    BY <1>6, <1>8, <2>1, <2>2, <2>3, <2>4, OfferingKept
<1>17. Thieves'
  <2>1. ASSUME NEW u \in Thief
        PROVE  Sound(u)'
    <3>1. idx'[u] <= Gone /\ idx'[u] \in Nat
      BY <1>1 DEF DequeInv, DequeTypes, Thieves, Sound, Thief
    <3>2. pc'[u] \in {pc[u], "idle"}
      BY <1>2, <1>3 DEF Thief
    <3> QED
      BY <1>1, <1>6, <3>1, <3>2, Outrun
  <2> QED
    BY <2>1 DEF Thieves
<1>18. TakenFront
  <2>1. \A k \in Gone..(Limit - 1) : k \in Nat
    BY <1>2
  <2> QED
    BY <1>1, <1>6, <1>7, <2>1 DEF TakenFront
<1> QED
  BY <1>1, <1>2, <1>3, <1>10, <1>11, <1>12, <1>13, <1>14, <1>15, <1>16, <1>17, <1>18

LEMMA TakeWinCASStep ==
  ASSUME DequeInv, Take_WinCAS
  PROVE  DequeInv' /\ TakenFront
<1>1. /\ pc[Owner] = "takeCAS" /\ pc' = [pc EXCEPT ![Owner] = "restore"]
      /\ WinTop(Owner, relaxed)
  BY DEF Take_WinCAS, Goto
<1>2. Owner \in Thread /\ b \in Nat
  BY DequeBasics
<1>3. idx[Owner] = Gone /\ Gone' = Gone + 1 /\ b' = b
  BY <1>1, <1>2, Winning
<1>4. idx[Owner] = b /\ x[Owner] = Item(b)
  BY <1>1 DEF DequeInv, Race
<1>5. Gone < Limit /\ x[Owner] = Item(Gone)
  BY <1>1, <1>2, <1>3, <1>4 DEF Limit, TakeLabel, RaceLabel
<1>6. /\ DequeTypes' /\ Ordered' /\ Arrays' /\ Window' /\ Items' /\ Falls' /\ Fenced'
      /\ Offering' /\ Thieves' /\ TakenFront /\ pc'[Owner] = "restore"
  BY <1>1, <1>2, <1>5, ItemWon
<1>7. Race'
  BY <1>3, <1>4, <1>6 DEF Race
<1> QED
  BY <1>6, <1>7 DEF DequeInv

(* A thief wins the item at the front; if that is the last one and take()  *)
(* is racing for it, take() will find it gone.                             *)
LEMMA StealWinCASStep ==
  ASSUME DequeInv, NEW t \in Thief, Steal_WinCAS(t)
  PROVE  DequeInv' /\ TakenFront
<1>1. /\ pc[t] = "stealCAS" /\ pc' = [pc EXCEPT ![t] = "idle"]
      /\ WinTop(t, seq_cst)
  BY DEF Steal_WinCAS, Goto, OrderStealCAS
<1>2. /\ Owner \in Thread /\ t \in Thread /\ t # Owner /\ b \in Nat /\ Gone \in Nat
      /\ Newest(Bottom) \in Nat
  BY DequeBasics, DequeLocations
<1>3. /\ idx[t] = Gone /\ Gone' = Gone + 1
      /\ \A m \in DequeLoc \ {Top} : hist'[m] = hist[m]
      /\ \A u \in Thread : cur[u] \subseteq cur'[u]
      /\ \A j \in Nat : <<Bottom, j>> \in sc' <=> <<Bottom, j>> \in sc
      /\ UNCHANGED <<idx, b, x, arr, sz, copied, pushes>>
  BY <1>1, <1>2, Winning
<1>4. /\ x[t] = Item(Gone) /\ \E j \in 1..Newest(Bottom) : Seeing(t, j)
  BY <1>1, <1>3 DEF DequeInv, Thieves, Sound, StolenLabel
<1>5. PICK j \in 1..Newest(Bottom) : Safe(j)
  BY <1>4 DEF Seeing
<1>6. Gone < Limit /\ pc[Owner] # "restore"
  <2>1. Keeps(j, Gone)
    BY <1>5 DEF Safe
  <2>2. pc[Owner] # "restore"
    <3>1. Gone <= Own(Bottom) /\ Own(Bottom) \in Nat
      BY <1>2, <2>1, KeptInside, DequeBasics
    <3>2. pc[Owner] = "restore" => Gone = b + 1 /\ b = Own(Bottom)
      BY DEF DequeInv, Race, Window, TakeLabel
    <3> QED
      BY <1>2, <3>1, <3>2
  <2> QED
    BY <1>2, <2>1, <2>2, KeptInside
<1>7. /\ DequeTypes' /\ Ordered' /\ Arrays' /\ Window' /\ Items' /\ Falls' /\ Fenced'
      /\ Offering' /\ Thieves' /\ TakenFront /\ pc'[Owner] = pc[Owner]
  BY <1>1, <1>2, <1>4, <1>6, ItemWon
<1>8. Race'
  <2>1. pc[Owner] = "takeTop" /\ Gone' > b => <<Top, b + 1>> \in cur'[Owner]
    <3>1. CASE Gone > b
      BY <1>2, <1>3, <3>1 DEF DequeInv, Race
    <3>2. CASE Gone = b
      BY <1>2, <1>3, <1>5, <3>2 DEF Safe
    <3> QED
      BY <1>2, <1>3, <3>1, <3>2
  <2>2. pc[Owner] \in {"takeTop", "takeCAS"} => <<Bottom, Newest(Bottom)>> \in sc'
    BY <1>2, <1>3 DEF DequeInv, Race
  <2>3. Newest(Bottom)' = Newest(Bottom) /\ \A k \in Nat : Item(k)' = Item(k)
    BY <1>3, TopAlone
  <2>4. Item(b)' = Item(b)
    <3>1. PICK c \in Nat : c = b
      BY <1>2
    <3> QED
      BY <1>3, <2>3, <3>1
  <2>5. pc[Owner] = "takeCAS" =>
          /\ idx[Owner] = b /\ b <= Gone' /\ <<Top, b + 1>> \in cur'[Owner] /\ x[Owner] = Item(b)
    BY <1>2, <1>3 DEF DequeInv, Race
  <2> QED
    BY <1>3, <1>6, <1>7, <2>1, <2>2, <2>3, <2>4, <2>5 DEF Race
<1> QED
  BY <1>7, <1>8 DEF DequeInv

(* A step of a thief that only reads touches nothing but what that thief   *)
(* relies on.                                                              *)
LEMMA StealReading ==
  ASSUME DequeInv, NEW t \in Thief, NEW l \in ThiefLabel, pc' = [pc EXCEPT ![t] = l],
         hist' = hist, sc \subseteq sc', MemType(DequeLoc, DequeValue)', Ordered',
         \A u \in Thread : cur[u] \subseteq cur'[u], rel'[Owner] = rel[Owner],
         UNCHANGED <<b, copied, pushes, out, won>>,
         idx' = idx \/ \E n \in Nat : idx' = [idx EXCEPT ![t] = n],
         x' = x \/ \E n \in Nat : x' = [x EXCEPT ![t] = n],
         arr' = arr \/ \E a \in Array : arr' = [arr EXCEPT ![t] = a],
         sz' = sz \/ \E n \in Nat : sz' = [sz EXCEPT ![t] = n],
         Sound(t)'
  PROVE  DequeInv' /\ Unmoved
<1>1. /\ Owner \in Thread /\ t \in Thread /\ t # Owner /\ b \in Nat
      /\ DOMAIN pc = Thread /\ arr \in [Thread -> Array] /\ idx \in [Thread -> Nat]
      /\ sz \in [Thread -> Nat] /\ x \in [Thread -> Nat \cup {EMPTY}]
      /\ \A u \in Thief : u \in Thread /\ u # Owner /\ pc[u] \in ThiefLabel
  BY DequeBasics DEF DequeInv, DequeTypes, Thief
<1>2. /\ pc'[t] = l /\ DOMAIN pc' = Thread /\ \A u \in Thread \ {t} : pc'[u] = pc[u]
  BY <1>1
<1>3. /\ arr' \in [Thread -> Array] /\ \A u \in Thread \ {t} : arr'[u] = arr[u]
  BY <1>1
<1>4. /\ idx' \in [Thread -> Nat] /\ \A u \in Thread \ {t} : idx'[u] = idx[u]
  BY <1>1
<1>5. /\ x' \in [Thread -> Nat \cup {EMPTY}] /\ \A u \in Thread \ {t} : x'[u] = x[u]
  BY <1>1
<1>6. /\ sz' \in [Thread -> Nat] /\ \A u \in Thread \ {t} : sz'[u] = sz[u]
  BY <1>1
<1>7. /\ pc'[Owner] = pc[Owner] /\ idx'[Owner] = idx[Owner] /\ x'[Owner] = x[Owner]
      /\ arr'[Owner] = arr[Owner] /\ sz'[Owner] = sz[Owner]
  BY <1>1, <1>2, <1>3, <1>4, <1>5, <1>6
<1>8. /\ Gone' = Gone /\ OwnArray' = OwnArray
      /\ \A m : Newest(m)' = Newest(m) /\ Own(m)' = Own(m)
      /\ \A m, i : Val(m, i)' = Val(m, i)
      /\ \A k : Item(k)' = Item(k)
      /\ \A j, k, a : Offers(j, k, a)' <=> Offers(j, k, a)
  BY SameMemory
<1>9. PICK n \in Nat : n = Newest(Bottom) /\ n = Newest(Bottom)'
  BY <1>8, DequeBasics, DequeLocations
<1>10. PICK g \in Nat : g = Gone /\ g = Gone'
  BY <1>8, DequeBasics
<1>11. Limit' = Limit /\ Pushed' = Pushed
  BY <1>7, <1>8 DEF Limit, Pushed
<1>12. DequeTypes'
  <2>1. \A m \in DequeLoc \ {ArrayPtr} : \A k \in 1..Newest(m)' : Val(m, k)' \in Nat
    BY SameNumbers
  <2>2. \A u \in Thief : pc'[u] \in ThiefLabel
    BY <1>1, <1>2
  <2> QED
    BY <1>2, <1>3, <1>4, <1>5, <1>6, <1>7, <2>1, <2>2 DEF DequeInv, DequeTypes
<1>13. Arrays'
  BY <1>7, <1>8 DEF DequeInv, Arrays
<1>14. Window'
  <2>1. Length(OwnArray)' = Length(OwnArray)
    BY <1>8 DEF Length
  <2>2. Item(b)' = Item(b)
    <3>1. PICK c \in Nat : c = b
      BY <1>1
    <3> QED
      BY <1>8, <3>1
  <2>3. \A a, k : Own(Slot(a, k))' = Own(Slot(a, k))
    BY DEF Slot, Own, Val, Newest
  <2> QED
    BY <1>7, <1>8, <1>11, <2>1, <2>2, <2>3 DEF DequeInv, Window
<1>15. Race'
  <2>1. Item(b)' = Item(b)
    <3>1. PICK c \in Nat : c = b
      BY <1>1
    <3> QED
      BY <1>8, <3>1
  <2>2. cur[Owner] \subseteq cur'[Owner]
    BY <1>1
  <2> QED
    BY <1>7, <1>8, <2>1, <2>2 DEF DequeInv, Race
<1>16. Items'
  BY <1>8, <1>11, ItemsKept
<1>17. Falls'
  BY <1>7, FallsKept
<1>18. Fenced'
  BY <1>7, <1>8 DEF DequeInv, Fenced
<1>19. Offering'
  <2>1. \A j, k : Keeps(j, k)' => Keeps(j, k)
    BY <1>7, <1>8 DEF Keeps
  <2>2. \A j \in (Newest(Bottom) + 1)..n : FALSE
    BY <1>9
  <2> QED
    BY <1>8, <1>9, <1>10, <2>1, <2>2, OfferingKept
<1>20. \A j \in 1..n : Safe(j) => Safe(j)'
  <2>1. cur[Owner] \subseteq cur'[Owner]
    BY <1>1
  <2>2. \A j : Keeps(j, Gone)' <=> Keeps(j, Gone)
    BY <1>7, <1>8 DEF Keeps
  <2> QED
    BY <1>7, <1>8, <2>1, <2>2 DEF Safe
<1>21. Thieves'
  <2>1. ASSUME NEW u \in Thief, u # t
        PROVE  Sound(u)'
    <3>1. /\ pc'[u] = pc[u] /\ idx'[u] = idx[u] /\ x'[u] = x[u]
          /\ arr'[u] = arr[u] /\ sz'[u] = sz[u] /\ cur[u] \subseteq cur'[u]
      BY <1>1, <1>2, <1>3, <1>4, <1>5, <1>6, <2>1
    <3>2. Newest(ArrayPtr) = 2 => Newest(ArrayPtr)' = 2 /\ hist'[ArrayPtr][2] = hist[ArrayPtr][2]
      BY <1>8
    <3>3. \A j \in 1..Newest(Bottom), a \in Array : Offers(j, g, a) => Offers(j, g, a)'
      BY <1>8
    <3>4. \A j \in 1..Newest(Bottom) : hist'[Bottom][j] = hist[Bottom][j] /\ (Safe(j) => Safe(j)')
      BY <1>9, <1>20
    <3>5. \A j \in (Newest(Bottom) + 1)..n : FALSE
      BY <1>9
    <3>6. Item(g)' = Item(g)
      BY <1>8
    <3> QED
      BY <1>9, <1>10, <3>1, <3>2, <3>3, <3>4, <3>5, <3>6, SoundKept
  <2> QED
    BY <2>1 DEF Thieves
<1>22. Unmoved
  BY <1>8, <1>11 DEF Unmoved
<1> QED
  BY <1>12, <1>13, <1>14, <1>15, <1>16, <1>17, <1>18, <1>19, <1>21, <1>22 DEF DequeInv

(* What a thief has seen stays safe to see.                                *)
LEMMA SeenStays ==
  ASSUME DequeInv, NEW t \in Thief, hist' = hist, pc'[Owner] = pc[Owner], b' = b,
         \A u \in Thread : cur[u] \subseteq cur'[u]
  PROVE  /\ \A j : Safe(j) => Safe(j)'
         /\ \A j : Safe(j) /\ hist[Bottom][j].view \subseteq cur[t] =>
              Safe(j)' /\ hist'[Bottom][j].view \subseteq cur'[t]
<1>1. cur[Owner] \subseteq cur'[Owner] /\ cur[t] \subseteq cur'[t]
  BY DequeBasics DEF Thief
<1>2. /\ Gone' = Gone /\ Newest(Bottom)' = Newest(Bottom)
      /\ \A i : Val(Bottom, i)' = Val(Bottom, i)
  BY SameMemory
<1>3. \A j : Keeps(j, Gone)' <=> Keeps(j, Gone)
  BY <1>2 DEF Keeps
<1>4. \A j : Safe(j) => Safe(j)'
  BY <1>1, <1>2, <1>3 DEF Safe
<1> QED
  BY <1>1, <1>4

LEMMA StealLoadTopStep ==
  ASSUME DequeInv, NEW t \in Thief, Steal_LoadTop(t)
  PROVE  DequeInv' /\ Unmoved
<1>1. /\ pc' = [pc EXCEPT ![t] = "stealFence"]
      /\ UNCHANGED <<b, x, arr, sz, copied, pushes, takes, out, won>>
  BY DEF Steal_LoadTop, Goto
<1>2. PICK i \in Readable(t, Top, relaxed) :
        Load(t, Top, i, relaxed) /\ idx' = [idx EXCEPT ![t] = Val(Top, i)]
  BY DEF Steal_LoadTop
<1>3. /\ t \in Thread /\ Owner # t /\ Top \in DequeLoc /\ Newest(Top) \in Nat /\ Newest(Top) >= 1
      /\ Gone = Newest(Top) - 1
  BY DequeBasics, DequeLocations DEF Gone
<1>4. /\ i \in 1..Newest(Top) /\ hist' = hist /\ rel' = rel /\ sc' = sc
      /\ MemType(DequeLoc, DequeValue)' /\ Ordered'
      /\ \A u \in Thread : cur[u] \subseteq cur'[u]
  BY <1>2, <1>3, DequeLoading
<1>5. PICK n \in Nat : n = Val(Top, i) /\ n <= Gone
  <2>1. Val(Top, i) = i - 1
    BY <1>4 DEF DequeInv, Ordered
  <2> QED
    BY <1>3, <1>4, <2>1
<1>6. "stealFence" \in ThiefLabel
  BY DEF ThiefLabel
<1>7. pc'[t] = "stealFence" /\ idx'[t] = n
  BY <1>1, <1>2, <1>3, <1>5 DEF DequeInv, DequeTypes
<1>8. Sound(t)'
  BY <1>4, <1>5, <1>7, SameMemory DEF Sound, StolenLabel
<1>9. \E m \in Nat : idx' = [idx EXCEPT ![t] = m]
  BY <1>2, <1>5
<1> QED
  BY <1>1, <1>4, <1>6, <1>8, <1>9, StealReading

(* Behind its fence a thief whose index is current reads only what keeps   *)
(* the item at the front in the deque.                                     *)
LEMMA StealFenceStep ==
  ASSUME DequeInv, NEW t \in Thief, Steal_Fence(t)
  PROVE  DequeInv' /\ Unmoved
<1>1. /\ pc[t] = "stealFence" /\ pc' = [pc EXCEPT ![t] = "stealBottom"]
      /\ SeqCstFence(t, Written(t))
      /\ UNCHANGED <<idx, b, x, arr, sz, copied, pushes, takes, steals, out, won>>
  BY DEF Steal_Fence, Goto, Fence, OrderStealFence, relaxed, acquire, release, acq_rel, seq_cst,
         dequeLocals
<1>2. /\ t \in Thread /\ Owner \in Thread /\ t # Owner /\ Bottom \in DequeLoc /\ Bottom # Top
      /\ Newest(Bottom) \in Nat /\ Newest(Bottom) >= 1 /\ Gone \in Nat
      /\ \A j \in 1..Newest(Bottom) : Val(Bottom, j) \in Nat
      /\ Newest(Top) \in Nat /\ Newest(Top) >= 1 /\ Gone + 1 = Newest(Top) /\ b \in Nat
      /\ Own(Bottom) = Val(Bottom, Newest(Bottom))
  BY DequeBasics, DequeLocations DEF Gone, Own
<1>3. /\ hist' = hist /\ MemType(DequeLoc, DequeValue)' /\ Ordered'
      /\ cur[t] \cup sc \subseteq cur'[t]
      /\ \A u \in Thread : cur[u] \subseteq cur'[u]
      /\ \A u \in Thread \ {t} : cur'[u] = cur[u] /\ rel'[u] = rel[u]
      /\ sc' = sc \cup Written(t)
  BY <1>1, <1>2, Fencing
<1>4. /\ pc'[t] = "stealBottom" /\ pc'[Owner] = pc[Owner] /\ "stealBottom" \in ThiefLabel
  BY <1>1, <1>2 DEF DequeInv, DequeTypes, ThiefLabel
<1>5. idx[t] <= Gone
  BY DEF DequeInv, Thieves, Sound
<1>6. ASSUME NEW j \in 1..Newest(Bottom), Val(Bottom, j) > Gone,
             \A m \in (j + 1)..Newest(Bottom) : <<Bottom, m>> \notin sc
      PROVE  Safe(j)
  <2>1. \A m \in j..Newest(Bottom) :
          \/ Val(Bottom, m) >= Val(Bottom, j)
          \/ m = Newest(Bottom) /\ pc[Owner] = "takeFence" /\ Val(Bottom, m) + 1 >= Val(Bottom, j)
    BY <1>6 DEF DequeInv, Falls, LastFenced
  <2>2. \A m \in j..Newest(Bottom) : m \in 1..Newest(Bottom)
    BY <1>2
  <2>3. "takeFence" \in RaceLabel
    BY DEF RaceLabel
  <2>4. \A m \in j..Newest(Bottom) :
          \/ Val(Bottom, m) > Gone
          \/ m = Newest(Bottom) /\ pc[Owner] \in RaceLabel /\ Val(Bottom, m) = Gone
    BY <1>2, <1>6, <2>1, <2>2, <2>3
  <2>5. Keeps(j, Gone)
    BY <1>6, <2>4 DEF Keeps
  <2>6. pc[Owner] = "takeTop" /\ b = Gone => <<Top, Gone + 1>> \in cur[Owner]
    <3>1. ASSUME pc[Owner] = "takeTop", b = Gone
          PROVE  FALSE
      <4>1. <<Bottom, Newest(Bottom)>> \in sc
        BY <3>1 DEF DequeInv, Race
      <4>2. j = Newest(Bottom)
        BY <1>2, <1>6, <4>1
      <4>3. Own(Bottom) = b
        BY <3>1 DEF DequeInv, Window, TakeLabel, RaceLabel
      <4> QED
        BY <1>2, <1>6, <3>1, <4>2, <4>3
    <3> QED
      BY <3>1
  <2> QED
    BY <2>5, <2>6 DEF Safe
<1>7. Sound(t)'
  <2>1. /\ Gone' = Gone /\ Newest(Bottom)' = Newest(Bottom)
        /\ \A j : Val(Bottom, j)' = Val(Bottom, j)
    BY <1>3, SameMemory
  <2>2. ASSUME NEW j \in 1..Newest(Bottom), Val(Bottom, j) > Gone,
               \A m \in (j + 1)..Newest(Bottom) : <<Bottom, m>> \notin cur'[t]
        PROVE  Safe(j)'
    <3>1. Safe(j)
      BY <1>3, <1>6, <2>2
    <3> QED
      BY <1>1, <1>3, <1>4, <3>1, SeenStays
  <2> QED
    BY <1>1, <1>4, <1>5, <2>1, <2>2 DEF Sound, StolenLabel
<1> QED
  BY <1>1, <1>2, <1>3, <1>4, <1>7, StealReading

LEMMA StealLoadBottomStep ==
  ASSUME DequeInv, NEW t \in Thief, Steal_LoadBottom(t)
  PROVE  DequeInv' /\ Unmoved
<1>1. PICK i \in Readable(t, Bottom, acquire) :
        /\ Load(t, Bottom, i, acquire)
        /\ Goto(t, "stealBottom", IF idx[t] < Val(Bottom, i) THEN "stealArray" ELSE "idle")
  BY DEF Steal_LoadBottom, OrderStealBottom
<1> DEFINE l == IF idx[t] < Val(Bottom, i) THEN "stealArray" ELSE "idle"
<1>2. /\ pc[t] = "stealBottom" /\ pc' = [pc EXCEPT ![t] = l] /\ l \in ThiefLabel
      /\ UNCHANGED <<idx, b, x, arr, sz, copied, pushes, takes, steals, out, won>>
  BY <1>1 DEF Steal_LoadBottom, Goto, ThiefLabel, StolenLabel, dequeLocals
<1>3. /\ t \in Thread /\ Owner # t /\ Bottom \in DequeLoc /\ acquire # seq_cst
      /\ acquire \in Acquiring /\ Newest(Bottom) \in Nat
  BY DequeBasics, DequeLocations DEF acquire, seq_cst, Acquiring
<1>4. /\ i \in 1..Newest(Bottom) /\ hist' = hist /\ rel' = rel /\ sc' = sc
      /\ MemType(DequeLoc, DequeValue)' /\ Ordered'
      /\ \A u \in Thread : cur[u] \subseteq cur'[u]
      /\ hist[Bottom][i].view \subseteq cur'[t]
      /\ \A k \in (i + 1)..Newest(Bottom) : <<Bottom, k>> \notin cur[t]
  BY <1>1, <1>3, DequeLoading
<1>5. pc'[t] = l /\ pc'[Owner] = pc[Owner]
  BY <1>2, <1>3, DequeBasics DEF DequeInv, DequeTypes
<1>6. idx[t] <= Gone /\ Gone' = Gone /\ Newest(Bottom)' = Newest(Bottom)
  BY <1>4, SameMemory DEF DequeInv, Thieves, Sound
<1>7. l \in {"stealArray", "idle"} /\ (l = "stealArray" => idx[t] < Val(Bottom, i))
  OBVIOUS
<1> HIDE DEF l
<1>8. ASSUME idx[t] = Gone, l = "stealArray"
      PROVE  Seeing(t, i)'
  <2>1. Val(Bottom, i) > Gone
    BY <1>7, <1>8, DequeBasics, <1>3, <1>4
  <2>2. Safe(i)
    BY <1>2, <1>4, <1>8, <2>1 DEF DequeInv, Thieves, Sound
  <2>3. Safe(i)'
    BY <1>2, <1>4, <1>5, <2>2, SeenStays
  <2> QED
    BY <1>4, <1>5, <1>8, <2>3 DEF Seeing
<1>9. Sound(t)'
  <2>1. /\ pc'[t] \notin {"stealSize", "stealBuffer", "stealBottom", "stealCAS"}
        /\ pc'[t] \in StolenLabel => l = "stealArray"
    BY <1>5, <1>7 DEF StolenLabel
  <2> QED
    BY <1>2, <1>4, <1>6, <1>8, <2>1 DEF Sound
<1> QED
  BY <1>2, <1>4, <1>9, StealReading

(* The array a thief loads has its item in the place where it will look.   *)
LEMMA StealLoadArrayStep ==
  ASSUME DequeInv, NEW t \in Thief, Steal_LoadArray(t)
  PROVE  DequeInv' /\ Unmoved
<1>1. PICK i \in Readable(t, ArrayPtr, acquire) :
        Load(t, ArrayPtr, i, acquire) /\ arr' = [arr EXCEPT ![t] = Val(ArrayPtr, i)]
  BY DEF Steal_LoadArray, OrderStealArray
<1>2. /\ pc[t] = "stealArray" /\ pc' = [pc EXCEPT ![t] = "stealSize"]
      /\ UNCHANGED <<idx, b, x, sz, copied, pushes, takes, steals, out, won>>
  BY DEF Steal_LoadArray, Goto
<1>3. /\ t \in Thread /\ Owner # t /\ ArrayPtr \in DequeLoc /\ acquire # seq_cst
      /\ acquire \in Acquiring /\ Newest(Bottom) \in Nat /\ "stealSize" \in ThiefLabel
      /\ "old" \in Array /\ "new" \in Array /\ "old" # "new"
      /\ (OwnArray = "new" <=> Newest(ArrayPtr) = 2) /\ OwnArray \in Array /\ Array = {"old", "new"}
  BY DequeBasics, DequeLocations DEF acquire, seq_cst, Acquiring, ThiefLabel, StolenLabel
<1>4. /\ i \in 1..Newest(ArrayPtr) /\ hist' = hist /\ rel' = rel /\ sc' = sc
      /\ MemType(DequeLoc, DequeValue)' /\ Ordered'
      /\ \A u \in Thread : cur[u] \subseteq cur'[u]
      /\ hist[ArrayPtr][i].view \subseteq cur'[t]
      /\ \A k \in (i + 1)..Newest(ArrayPtr) : <<ArrayPtr, k>> \notin cur[t]
  BY <1>1, <1>3, DequeLoading
<1>5. /\ Newest(ArrayPtr) \in {1, 2} /\ Val(ArrayPtr, 1) = "old"
      /\ Newest(ArrayPtr) = 2 => Val(ArrayPtr, 2) = "new"
  BY DEF DequeInv, Arrays
<1>6. PICK a \in Array : /\ a = Val(ArrayPtr, i)
                         /\ (a = "old" /\ i = 1) \/ (a = "new" /\ i = 2 /\ Newest(ArrayPtr) = 2)
  BY <1>3, <1>4, <1>5
<1>7. /\ pc'[t] = "stealSize" /\ pc'[Owner] = pc[Owner] /\ arr'[t] = a
  BY <1>1, <1>2, <1>3, <1>6 DEF DequeInv, DequeTypes
<1>8. /\ idx[t] <= Gone /\ Gone' = Gone /\ \A m : Newest(m)' = Newest(m)
      /\ \A j, k, d : Offers(j, k, d)' <=> Offers(j, k, d)
      /\ \A d : Installed(d)' = Installed(d)
  BY <1>4, SameMemory DEF DequeInv, Thieves, Sound
<1>9. ASSUME idx[t] = Gone
      PROVE  \E j \in 1..Newest(Bottom) : Seeing(t, j)'
  <2>1. PICK j \in 1..Newest(Bottom) : Seeing(t, j)
    BY <1>2, <1>9 DEF DequeInv, Thieves, Sound, StolenLabel
  <2>2. Safe(j) /\ hist[Bottom][j].view \subseteq cur[t]
    BY <2>1 DEF Seeing
  <2>3. Safe(j)' /\ hist'[Bottom][j].view \subseteq cur'[t]
    BY <1>2, <1>4, <1>7, <2>2, SeenStays
  <2>4. Gone \in Gone..MaxPushes /\ Gone \in Nat
    <3>1. Gone \in Nat /\ Gone <= MaxPushes /\ MaxPushes \in Nat
      BY DequeBasics DEF DequeInv, Window, Pushed
    <3> QED
      BY <3>1
  <2>5. /\ Offers(j, Gone, OwnArray)
        /\ Offers(j, Gone, "old") \/ (Newest(ArrayPtr) = 2 /\ <<ArrayPtr, 2>> \in hist[Bottom][j].view)
    BY <2>2, <2>4 DEF Safe, DequeInv, Offering
  <2>6. Offers(j, Gone, a) /\ Installed(a) \subseteq cur'[t] /\ (a = "new" => Newest(ArrayPtr) = 2)
    <3>1. CASE a = "old" /\ i = 1
      <4>1. Installed(a) = {}
        BY <1>3, <3>1 DEF Installed
      <4>2. Offers(j, Gone, "old")
        BY <1>3, <1>4, <1>5, <2>2, <2>5, <3>1
      <4> QED
        BY <1>3, <3>1, <4>1, <4>2
    <3>2. CASE a = "new" /\ i = 2 /\ Newest(ArrayPtr) = 2
      BY <1>3, <1>4, <2>5, <3>2 DEF Installed
    <3> QED
      BY <1>6, <3>1, <3>2
  <2>7. Seeing(t, j)'
    <3>1. Offers(j, Gone, arr[t])' <=> Offers(j, Gone, a)
      <4>1. PICK g \in Nat : g = Gone /\ g = Gone'
        BY <1>8, <2>4
      <4>2. Offers(j, Gone, arr[t])' <=> Offers(j, g, a)'
        BY <1>7, <4>1 DEF Offers, Item, Slot, Installed
      <4> QED
        BY <1>8, <4>1, <4>2
    <3>2. Installed(arr[t])' = Installed(a)
      BY <1>4, <1>7 DEF Installed
    <3> QED
      BY <1>7, <1>8, <2>3, <2>6, <3>1, <3>2 DEF Seeing
  <2> QED
    BY <2>7
<1>10. Sound(t)'
  BY <1>2, <1>6, <1>7, <1>8, <1>9 DEF Sound
<1> QED
  BY <1>1, <1>2, <1>3, <1>4, <1>6, <1>10, StealReading

LEMMA StealLoadSizeStep ==
  ASSUME DequeInv, NEW t \in Thief, Steal_LoadSize(t)
  PROVE  DequeInv' /\ Unmoved
<1>0. PICK a \in Array, m \in DequeLoc : a = arr[t] /\ m = Size(a)
  <2>1. arr[t] \in Array
    BY DequeBasics DEF DequeInv, DequeTypes
  <2> QED
    BY <2>1, DequeLocations
<1>1. PICK i \in Readable(t, m, relaxed) :
        Load(t, m, i, relaxed) /\ sz' = [sz EXCEPT ![t] = Val(m, i)]
  BY <1>0 DEF Steal_LoadSize
<1>2. /\ pc[t] = "stealSize" /\ pc' = [pc EXCEPT ![t] = "stealBuffer"]
      /\ UNCHANGED <<idx, b, x, arr, copied, pushes, takes, steals, out, won>>
  BY DEF Steal_LoadSize, Goto
<1>3. /\ t \in Thread /\ Owner # t /\ relaxed # seq_cst /\ "stealBuffer" \in ThiefLabel
      /\ Array = {"old", "new"} /\ "old" # "new" /\ Slots["old"] = 2 /\ Slots["new"] = 8
  BY DequeBasics, DequeLocations DEF relaxed, seq_cst, ThiefLabel, StolenLabel
<1>4. /\ i \in 1..Newest(m) /\ hist' = hist /\ rel' = rel /\ sc' = sc
      /\ MemType(DequeLoc, DequeValue)' /\ Ordered'
      /\ \A u \in Thread : cur[u] \subseteq cur'[u]
      /\ \A k \in (i + 1)..Newest(m) : <<m, k>> \notin cur[t]
  BY <1>1, <1>3, DequeLoading
<1>5. /\ a = "new" => Newest(ArrayPtr) = 2
      /\ idx[t] <= Gone
      /\ idx[t] = Gone => \E j \in 1..Newest(Bottom) : Seeing(t, j)
  BY <1>0, <1>2 DEF DequeInv, Thieves, Sound, StolenLabel
<1>6. PICK n \in Nat : n = Val(m, i) /\ n \in 1..Slots[a] /\ (a = "old" => n = 2)
                       /\ (a = "new" /\ i = 2 => n = 4)
  <2>1. CASE a = "old"
    <3>1. Newest(m) = 1 /\ Val(m, 1) = 2
      BY <1>0, <2>1 DEF DequeInv, Arrays
    <3> QED
      BY <1>3, <1>4, <2>1, <3>1
  <2>2. CASE a = "new"
    <3>1. Newest(m) \in {1, 2} /\ Val(m, 1) = 8 /\ (Newest(m) = 2 => Val(m, 2) = 4)
      BY <1>0, <2>2 DEF DequeInv, Arrays
    <3> QED
      BY <1>3, <1>4, <2>2, <3>1
  <2> QED
    BY <1>3, <2>1, <2>2
<1>7. /\ pc'[t] = "stealBuffer" /\ pc'[Owner] = pc[Owner] /\ arr'[t] = a /\ sz'[t] = n
  BY <1>0, <1>1, <1>2, <1>3, <1>6 DEF DequeInv, DequeTypes
<1>8. /\ Gone' = Gone /\ \A d : Newest(d)' = Newest(d)
      /\ \A j, k, d : Offers(j, k, d)' <=> Offers(j, k, d)
      /\ \A d : Installed(d)' = Installed(d)
  BY <1>4, SameMemory
<1>9. ASSUME idx[t] = Gone
      PROVE  n = Length(a) /\ \E j \in 1..Newest(Bottom) : Seeing(t, j)'
  <2>1. PICK j \in 1..Newest(Bottom) : Seeing(t, j)
    BY <1>5, <1>9
  <2>2. /\ Safe(j) /\ hist[Bottom][j].view \subseteq cur[t]
        /\ Offers(j, Gone, a) /\ Installed(a) \subseteq cur[t]
    BY <1>0, <1>2, <2>1 DEF Seeing
  <2>3. Safe(j)' /\ hist'[Bottom][j].view \subseteq cur'[t]
    BY <1>2, <1>4, <1>7, <2>2, SeenStays
  <2>4. Seeing(t, j)'
    <3>1. PICK g \in Nat : g = Gone /\ g = Gone'
      BY <1>8, DequeBasics
    <3>2. Offers(j, Gone, arr[t])' <=> Offers(j, g, a)'
      BY <1>7, <3>1 DEF Offers, Item, Slot, Installed
    <3>3. Offers(j, g, a)'
      BY <1>8, <2>2, <3>1
    <3>4. Installed(arr[t])' = Installed(a)
      BY <1>4, <1>7 DEF Installed
    <3>5. cur[t] \subseteq cur'[t]
      BY <1>3, <1>4
    <3> QED
      BY <1>5, <1>7, <1>8, <2>2, <2>3, <3>2, <3>3, <3>4, <3>5 DEF Seeing
  <2>5. n = Length(a)
    <3>1. CASE a = "old"
      BY <1>6, <3>1 DEF Length
    <3>2. CASE a = "new"
      <4>1. Newest(ArrayPtr) = 2 /\ <<m, 2>> \in hist[ArrayPtr][2].view
        BY <1>0, <1>5, <3>2 DEF DequeInv, Arrays
      <4>2. Newest(m) = 2
        BY <1>0, <3>2, <4>1 DEF DequeInv, Arrays
      <4>3. <<m, 2>> \in cur[t]
        BY <2>2, <3>2, <4>1 DEF Installed
      <4>4. i = 2
        BY <1>4, <4>2, <4>3
      <4> QED
        BY <1>3, <1>6, <3>2, <4>4 DEF Length
    <3> QED
      BY <1>3, <3>1, <3>2
  <2> QED
    BY <2>4, <2>5
<1>10. Sound(t)'
  <2>1. Length(arr[t])' = Length(a)
    BY <1>7 DEF Length
  <2> QED
    BY <1>2, <1>5, <1>6, <1>7, <1>8, <1>9, <2>1 DEF Sound
<1>11. \E k \in Nat : sz' = [sz EXCEPT ![t] = k]
  BY <1>1, <1>6
<1> QED
  BY <1>2, <1>3, <1>4, <1>10, <1>11, StealReading

LEMMA StealLoadBufferStep ==
  ASSUME DequeInv, NEW t \in Thief, Steal_LoadBuffer(t)
  PROVE  DequeInv' /\ Unmoved
<1>0. PICK a \in Array : a = arr[t]
  BY DequeBasics DEF DequeInv, DequeTypes
<1>1. /\ pc[t] = "stealBuffer" /\ pc' = [pc EXCEPT ![t] = "stealCAS"]
      /\ UNCHANGED <<idx, b, arr, sz, copied, pushes, takes, steals, out, won>>
  BY DEF Steal_LoadBuffer, Goto
<1>2. /\ idx[t] <= Gone /\ idx[t] \in Nat /\ sz[t] \in 1..Slots[a] /\ t \in Thread /\ Owner # t
      /\ idx[t] = Gone => sz[t] = Length(a) /\ \E j \in 1..Newest(Bottom) : Seeing(t, j)
      /\ relaxed # seq_cst /\ "stealCAS" \in ThiefLabel
  <2>1. t \in Thread /\ Owner # t
    BY DequeBasics
  <2>2. idx[t] \in Nat
    BY <2>1 DEF DequeInv, DequeTypes
  <2>3. relaxed # seq_cst /\ "stealCAS" \in ThiefLabel
    BY DEF relaxed, seq_cst, ThiefLabel, StolenLabel
  <2> QED
    BY <1>0, <1>1, <2>1, <2>2, <2>3 DEF DequeInv, Thieves, Sound, StolenLabel
<1>3. idx[t] % sz[t] \in 0..(Slots[a] - 1)
  <2>1. Slots[a] \in Nat
    BY DequeLocations
  <2>2. sz[t] \in Nat /\ sz[t] > 0 /\ sz[t] <= Slots[a]
    BY <1>2, <2>1
  <2>3. idx[t] % sz[t] \in 0..(sz[t] - 1)
    BY <1>2, <2>2
  <2> QED
    BY <2>1, <2>2, <2>3
<1>4. PICK m \in DequeLoc \ {ArrayPtr} : m = Buffer(a, idx[t] % sz[t])
  BY <1>3, DequeLocations
<1>5. PICK i \in Readable(t, m, relaxed) : Load(t, m, i, relaxed) /\ x' = [x EXCEPT ![t] = Val(m, i)]
  BY <1>0, <1>4 DEF Steal_LoadBuffer
<1>6. /\ i \in 1..Newest(m) /\ hist' = hist /\ rel' = rel /\ sc' = sc
      /\ MemType(DequeLoc, DequeValue)' /\ Ordered'
      /\ \A u \in Thread : cur[u] \subseteq cur'[u]
      /\ \A k \in (i + 1)..Newest(m) : <<m, k>> \notin cur[t]
  BY <1>2, <1>5, DequeLoading
<1>7. PICK n \in Nat : n = Val(m, i)
  BY <1>4, <1>6, DequeBasics
<1>8. pc'[t] = "stealCAS" /\ pc'[Owner] = pc[Owner] /\ x'[t] = n
  BY <1>1, <1>2, <1>5, <1>7 DEF DequeInv, DequeTypes
<1>9. /\ Gone' = Gone /\ \A d : Newest(d)' = Newest(d) /\ \A k : Item(k)' = Item(k)
  BY <1>6, SameMemory
<1>10. ASSUME idx[t] = Gone
       PROVE  n = Item(Gone) /\ \E j \in 1..Newest(Bottom) : Seeing(t, j)'
  <2>1. PICK j \in 1..Newest(Bottom) : Seeing(t, j)
    BY <1>2, <1>10
  <2>2. /\ Safe(j) /\ hist[Bottom][j].view \subseteq cur[t]
        /\ Offers(j, Gone, a) /\ Installed(a) \subseteq cur[t]
    BY <1>0, <1>1, <2>1 DEF Seeing
  <2>3. Safe(j)' /\ hist'[Bottom][j].view \subseteq cur'[t]
    BY <1>1, <1>6, <1>8, <2>2, SeenStays
  <2>4. Seeing(t, j)'
    BY <1>8, <2>3 DEF Seeing
  <2>5. m = Slot(a, Gone)
    BY <1>2, <1>4, <1>10 DEF Slot
  <2>6. Own(m) = Item(Gone) /\ (Newest(m) > 1 => <<m, Newest(m)>> \in cur[t])
    BY <2>2, <2>5 DEF Offers
  <2>7. Newest(m) \in Nat /\ Newest(m) >= 1
    BY DequeBasics
  <2>8. i = Newest(m)
    BY <1>6, <2>6, <2>7
  <2> QED
    BY <1>7, <2>4, <2>6, <2>8 DEF Own
<1>11. Sound(t)'
  BY <1>1, <1>2, <1>8, <1>9, <1>10 DEF Sound
<1>12. \E k \in Nat : x' = [x EXCEPT ![t] = k]
  BY <1>5, <1>7
<1> QED
  BY <1>1, <1>2, <1>6, <1>11, <1>12, StealReading

LEMMA StealLoseCASStep ==
  ASSUME DequeInv, NEW t \in Thief, Steal_LoseCAS(t)
  PROVE  DequeInv' /\ Unmoved
<1>1. /\ pc' = [pc EXCEPT ![t] = "idle"] /\ LoseTop(t)
      /\ UNCHANGED <<idx, b, x, arr, sz, copied, pushes, takes, steals, out, won>>
  BY DEF Steal_LoseCAS, Goto, dequeLocals
<1>2. t \in Thread /\ Owner # t /\ "idle" \in ThiefLabel
  BY DequeBasics DEF ThiefLabel
<1>3. /\ hist' = hist /\ rel' = rel /\ sc' = sc
      /\ MemType(DequeLoc, DequeValue)' /\ Ordered'
      /\ \A u \in Thread : cur[u] \subseteq cur'[u]
  BY <1>1, <1>2, Losing
<1>4. pc'[t] = "idle"
  BY <1>1, <1>2 DEF DequeInv, DequeTypes
<1>5. Sound(t)'
  BY <1>1, <1>3, <1>4, SameMemory DEF DequeInv, Thieves, Sound, StolenLabel
<1> QED
  BY <1>1, <1>2, <1>3, <1>5, StealReading

-----------------------------------------------------------------------------
(* The invariant holds of the deque create() returns.                      *)
THEOREM DequeInitInvariant ==
  ASSUME DequeInit
  PROVE  DequeInv
<1> DEFINE init == [l \in DequeLoc |->
             CASE l = ArrayPtr -> "old"
               [] l \in {Size(a) : a \in Array} -> Slots[l[2]]
               [] OTHER -> 0]
<1>1. /\ MemInit(init)
      /\ pc = [t \in Thread |-> "idle"] /\ idx = [t \in Thread |-> 0] /\ b = 0
      /\ x = [t \in Thread |-> EMPTY] /\ arr = [t \in Thread |-> "old"]
      /\ sz = [t \in Thread |-> 0] /\ copied = 0 /\ pushes = 0 /\ out = <<>>
      /\ won = [t \in Thread |-> {}]
  BY DEF DequeInit
<1>2. /\ Array = {"old", "new"} /\ "old" # "new" /\ Slots["old"] = 2 /\ Slots["new"] = 8
      /\ Top \in DequeLoc /\ Bottom \in DequeLoc /\ ArrayPtr \in DequeLoc
      /\ Top # Bottom /\ Top # ArrayPtr /\ Bottom # ArrayPtr
      /\ \A a \in Array : Size(a) \in DequeLoc \ {Top, Bottom, ArrayPtr}
      /\ Owner \in Thread /\ Owner \notin Thief /\ Thief \subseteq Thread
      /\ MaxPushes \in Nat
  BY DequeLocations, DequeAssumption DEF Thief
<1>3. \A a : Size(a)[2] = a
  BY DEF Size
<1>4. /\ init \in [DequeLoc -> DequeValue] /\ init[ArrayPtr] = "old" /\ init[Top] = 0
      /\ init[Bottom] = 0 /\ init[Size("old")] = 2 /\ init[Size("new")] = 8
      /\ \A l \in DequeLoc \ {ArrayPtr} : init[l] \in Nat
      /\ \A a \in Array, k \in Nat : init[Slot(a, k)] = 0
  <2>1. init[ArrayPtr] = "old" /\ init[Top] = 0 /\ init[Bottom] = 0
    BY <1>2
  <2>2. init[Size("old")] = 2 /\ init[Size("new")] = 8
    BY <1>2, <1>3
  <2>3. ASSUME NEW l \in DequeLoc \ {ArrayPtr}
        PROVE  init[l] \in Nat
    <3>1. CASE l \in {Size(a) : a \in Array}
      BY <1>2, <1>3, <3>1
    <3>2. CASE l \notin {Size(a) : a \in Array}
      BY <3>2
    <3> QED
      BY <3>1, <3>2
  <2>4. ASSUME NEW a \in Array, NEW k \in Nat
        PROVE  init[Slot(a, k)] = 0
    <3>1. Slot(a, k) \in DequeLoc /\ Slot(a, k) # ArrayPtr
          /\ Slot(a, k) \notin {Size(d) : d \in Array}
      BY SlotsApart, DequeLocations DEF Slot
    <3> QED
      BY <3>1
  <2>5. \A l \in DequeLoc : init[l] \in DequeValue
    <3>1. "old" \in DequeValue
      BY <1>2 DEF DequeValue
    <3> QED
      BY <2>1, <2>3, <3>1 DEF DequeValue
  <2>6. init = [l \in DequeLoc |-> init[l]]
    OBVIOUS
  <2> HIDE DEF init
  <2> QED
    BY <2>1, <2>2, <2>3, <2>4, <2>5, <2>6
<1>5. DOMAIN init = DequeLoc
  OBVIOUS
<1> HIDE DEF init
<1>6. /\ hist = [l \in DequeLoc |-> <<Message(1, init[l], {}, "store")>>]
      /\ cur = [t \in Thread |-> {<<l, 1>> : l \in DequeLoc}]
      /\ acq = [t \in Thread |-> {}] /\ rel = [t \in Thread |-> {}] /\ sc = {}
  BY <1>1, <1>5 DEF MemInit
<1>7. ASSUME NEW l \in DequeLoc
      PROVE  /\ hist[l] \in Seq(Messages(DequeLoc, DequeValue)) /\ Len(hist[l]) = 1
             /\ Newest(l) = 1 /\ Val(l, 1) = init[l] /\ hist[l][1].id = 1 /\ Own(l) = init[l]
  <2> DEFINE m == Message(1, init[l], {}, "store")
  <2>1. m \in Messages(DequeLoc, DequeValue) /\ m.id = 1 /\ m.val = init[l]
    BY <1>4 DEF Message, Messages
  <2>2. hist[l] = <<m>>
    BY <1>6
  <2> HIDE DEF m
  <2>3. Newest(l) = 1 /\ Val(l, 1) = init[l]
    BY <2>1, <2>2 DEF Newest, Val
  <2>4. Own(l) = init[l]
    BY <2>3 DEF Own
  <2> QED
    BY <2>1, <2>2, <2>3, <2>4
<1>8. pc[Owner] = "idle" /\ \A t \in Thread : pc[t] = "idle" /\ idx[t] = 0
  BY <1>1, <1>2
<1>9. /\ "idle" \notin PushLabel /\ "idle" \notin TakeLabel /\ "idle" \notin StolenLabel
      /\ "idle" \in ThiefLabel /\ "idle" \notin RaceLabel
  BY DEF PushLabel, TakeLabel, RaceLabel, StolenLabel, ThiefLabel
<1>10. /\ Gone = 0 /\ Limit = 0 /\ Pushed = 0 /\ OwnArray = "old"
       /\ Length(OwnArray) = 2
  BY <1>1, <1>2, <1>4, <1>7, <1>8, <1>9 DEF Gone, Limit, Pushed, OwnArray, Length
<1>11. DequeTypes
  <2>1. MemType(DequeLoc, DequeValue)
    <3>1. hist \in [DequeLoc -> Seq(Messages(DequeLoc, DequeValue))]
      BY <1>6, <1>7
    <3>2. {<<l, 1>> : l \in DequeLoc} \subseteq Events(DequeLoc)
      BY DEF Events
    <3>3. \A l \in DequeLoc : Len(hist[l]) >= 1
      BY <1>7
    <3> QED
      BY <1>6, <3>1, <3>2, <3>3 DEF MemType
  <2>2. \A l \in DequeLoc \ {ArrayPtr} : \A i \in 1..Newest(l) : Val(l, i) \in Nat
    BY <1>4, <1>7
  <2>3. /\ idx \in [Thread -> Nat] /\ x \in [Thread -> Nat \cup {EMPTY}]
        /\ arr \in [Thread -> Array] /\ sz \in [Thread -> Nat]
        /\ won \in [Thread -> SUBSET Events(DequeLoc)]
    BY <1>1, <1>2
  <2>4. DOMAIN pc = Thread /\ \A t \in Thief : pc[t] \in ThiefLabel
    BY <1>1, <1>2, <1>9
  <2>5. out \in Seq(Nat)
    BY <1>1
  <2> QED
    BY <1>1, <1>8, <2>1, <2>2, <2>3, <2>4, <2>5 DEF DequeTypes
<1>12. Ordered
  <2>1. \A l \in DequeLoc : Linear(l)
    BY <1>7 DEF Linear
  <2>2. \A t \in Thread, l \in DequeLoc : <<l, 1>> \in cur[t]
    BY <1>6
  <2>3. \A l \in DequeLoc \ {Top} : Knows(Owner, l)
    BY <1>2, <1>7, <2>2 DEF Knows
  <2>4. \A k \in 1..Newest(Top) : Val(Top, k) = k - 1 /\ (k > 1 => hist[Top][k].kind = "rmw")
    BY <1>2, <1>4, <1>7
  <2>5. \A k \in 2..Newest(Top) : FALSE
    BY <1>2, <1>7
  <2> QED
    BY <2>1, <2>2, <2>3, <2>4, <2>5 DEF Ordered
<1>13. Arrays
  BY <1>2, <1>4, <1>7, <1>8, <1>9 DEF Arrays
<1>14. Window
  BY <1>1, <1>2, <1>8, <1>9, <1>10 DEF Window
<1>15. Race
  BY <1>8 DEF Race
<1>16. Items
  <2>1. Len(out) = 0 /\ \A k \in Gone..(Limit - 1) : FALSE
    BY <1>1, <1>10
  <2> QED
    BY <2>1 DEF Items
<1>17. Falls
  BY <1>2, <1>4, <1>7 DEF Falls
<1>18. Fenced
  BY <1>7 DEF Fenced
<1>19. \A j \in 1..Newest(Bottom), k \in Nat : ~Keeps(j, k)
  BY <1>2, <1>4, <1>7 DEF Keeps
<1>20. Offering
  <2>1. \A k \in Gone..MaxPushes : k \in Nat
    BY <1>2, <1>10
  <2> QED
    BY <1>19, <2>1 DEF Offering
<1>21. Thieves
  BY <1>2, <1>8, <1>9, <1>10 DEF Thieves, Sound
<1> QED
  BY <1>11, <1>12, <1>13, <1>14, <1>15, <1>16, <1>17, <1>18, <1>20, <1>21 DEF DequeInv

(* A step that changes nothing.                                            *)
LEMMA DequeStuttering ==
  ASSUME DequeInv, UNCHANGED dequeVars
  PROVE  DequeInv' /\ Unmoved
<1>1. /\ hist' = hist /\ cur' = cur /\ acq' = acq /\ rel' = rel /\ sc' = sc /\ pc' = pc
      /\ UNCHANGED <<idx, b, x, arr, sz, copied, pushes, out, won>>
  BY DEF dequeVars, dequeLocals
<1>2. /\ Gone' = Gone /\ OwnArray' = OwnArray
      /\ \A l : Newest(l)' = Newest(l) /\ Own(l)' = Own(l)
      /\ \A l, i : Val(l, i)' = Val(l, i)
      /\ \A k : Item(k)' = Item(k)
      /\ \A j, k, a : Offers(j, k, a)' <=> Offers(j, k, a)
      /\ \A a : Installed(a)' = Installed(a)
  BY <1>1, SameMemory
<1>3. Limit' = Limit /\ Pushed' = Pushed
  BY <1>1, <1>2 DEF Limit, Pushed
<1>4. Ordered' /\ MemType(DequeLoc, DequeValue)'
  <2>1. Ordered'
    BY <1>1, DequeReading
  <2>2. MemType(DequeLoc, DequeValue)
    BY DequeBasics
  <2> QED
    BY <1>1, <2>1, <2>2 DEF MemType
<1>5. DequeTypes'
  <2>1. \A m \in DequeLoc \ {ArrayPtr} : \A k \in 1..Newest(m)' : Val(m, k)' \in Nat
    BY <1>1, SameNumbers
  <2> QED
    BY <1>1, <1>4, <2>1 DEF DequeInv, DequeTypes
<1>6. Arrays'
  BY <1>1, <1>2 DEF DequeInv, Arrays
<1>7. Length(OwnArray)' = Length(OwnArray) /\ Item(b)' = Item(b)
  BY <1>1, <1>2 DEF Length, Item, Slot
<1>8. Window'
  <2>1. \A a, k : Own(Slot(a, k))' = Own(Slot(a, k))
    BY <1>1 DEF Slot, Own, Val, Newest
  <2> QED
    BY <1>1, <1>2, <1>3, <1>7, <2>1 DEF DequeInv, Window
<1>9. Race'
  BY <1>1, <1>2, <1>7 DEF DequeInv, Race
<1>10. Items'
  BY <1>1, <1>2, <1>3, ItemsKept
<1>11. Falls'
  BY <1>1, FallsKept
<1>12. Fenced'
  BY <1>1, <1>2 DEF DequeInv, Fenced
<1>13. PICK n \in Nat : n = Newest(Bottom) /\ n = Newest(Bottom)'
  BY <1>2, DequeBasics, DequeLocations
<1>14. PICK g \in Nat : g = Gone /\ g = Gone'
  BY <1>2, DequeBasics
<1>15. \A j \in (Newest(Bottom) + 1)..n : FALSE
  BY <1>13
<1>16. Offering'
  <2>1. \A j, k : Keeps(j, k)' => Keeps(j, k)
    BY <1>1, <1>2 DEF Keeps
  <2> QED
    BY <1>1, <1>2, <1>13, <1>14, <1>15, <2>1, OfferingKept
<1>17. Thieves'
  <2>1. \A j : Safe(j) => Safe(j)'
    <3>1. \A j : Keeps(j, Gone)' <=> Keeps(j, Gone)
      BY <1>1, <1>2 DEF Keeps
    <3> QED
      BY <1>1, <1>2, <3>1 DEF Safe
  <2>2. \A u \in Thief : Sound(u)'
    BY <1>1, <1>2, <1>13, <1>14, <1>15, <2>1, SoundKept
  <2> QED
    BY <2>2 DEF Thieves
<1>18. Unmoved
  BY <1>1, <1>2, <1>3 DEF Unmoved
<1> QED
  BY <1>4, <1>5, <1>6, <1>8, <1>9, <1>10, <1>11, <1>12, <1>16, <1>17, <1>18 DEF DequeInv

(* Every step keeps the invariant, and moves the deque as it may.          *)
THEOREM DequeNextInvariant ==
  ASSUME TakeWhenNew = FALSE, DequeInv, ResizesOnce, ResizesOnce', [DequeNext]_dequeVars
  PROVE  DequeInv' /\ (Unmoved \/ Grown \/ TakenBack \/ TakenFront)
<1>1. CASE Push
  BY <1>1, PushLoadTopStep, ResizeLoadTopStep, ResizeStoreSizeStep, ResizeCopyStep,
     ResizeStoreArrayStep, PushStoreBufferStep, PushFenceStep, PushStoreBottomStep DEF Push
<1>2. CASE Take
  BY <1>2, TakeStoreBottomStep, TakeFenceStep, TakeLoadTopStep, TakeWinCASStep, TakeLoseCASStep,
     TakeRestoreBottomStep DEF Take
<1>3. ASSUME NEW t \in Thief, Steal(t)
      PROVE  DequeInv' /\ (Unmoved \/ TakenFront)
  BY <1>3, StealLoadTopStep, StealFenceStep, StealLoadBottomStep, StealLoadArrayStep,
     StealLoadSizeStep, StealLoadBufferStep, StealWinCASStep, StealLoseCASStep DEF Steal
<1>4. CASE DequeTerminated \/ UNCHANGED dequeVars
  BY <1>4, DequeStuttering DEF DequeTerminated
<1> QED
  BY <1>1, <1>2, <1>3, <1>4 DEF DequeNext

(* The invariant holds in every run that resizes at most once.             *)
THEOREM DequeInvariance ==
  ASSUME TakeWhenNew = FALSE
  PROVE  DequeSpec /\ []ResizesOnce => []DequeInv
<1>1. DequeInit => DequeInv
  BY DequeInitInvariant
<1>2. DequeInv /\ ResizesOnce /\ ResizesOnce' /\ [DequeNext]_dequeVars => DequeInv'
  BY DequeNextInvariant
<1> QED
  BY <1>1, <1>2, PTL DEF DequeSpec

(* The array of two slots gives way to one of four, which four pushes do   *)
(* not fill: resize() is not called a second time.                         *)
LEMMA ResizesOnceKept ==
  ASSUME MaxPushes <= 4, DequeInv, ResizesOnce, [DequeNext]_dequeVars
  PROVE  ResizesOnce'
<1>1. /\ Owner \in Thread /\ Owner \notin Thief /\ Thief \subseteq Thread /\ DOMAIN pc = Thread
      /\ MaxPushes \in Nat /\ SizeMax \in Nat /\ SizeMax > MaxPushes
      /\ pushes \in Nat /\ Own(Bottom) \in Nat /\ Limit \in Nat /\ Pushed \in Nat
      /\ Limit <= Pushed /\ OwnArray \in Array /\ Own(Size(OwnArray)) = Length(OwnArray)
  BY DequeBasics DEF DequeInv, DequeTypes, Window
<1>2. CASE Push_LoadTop
  <2>1. PICK i \in Readable(Owner, Top, OrderPushTop) :
          /\ Load(Owner, Top, i, OrderPushTop)
          /\ Goto(Owner, "idle",
                  IF Minus(b', Val(Top, i)) > Own(Size(OwnArray)) - 1 THEN "resize" ELSE "store")
    BY <1>2 DEF Push_LoadTop
  <2>2. /\ i \in 1..Newest(Top) /\ hist' = hist
    BY <1>1, <2>1, DequeLocations, DequeLoading
  <2>3. OwnArray' = OwnArray
    BY <2>2, SameMemory
  <2>4. CASE OwnArray = "old"
    BY <2>3, <2>4 DEF ResizesOnce
  <2>5. CASE OwnArray # "old"
    <3>1. /\ pc[Owner] = "idle" /\ pushes < MaxPushes /\ b' = Own(Bottom)
          /\ pc[Owner] \notin PushLabel \cup TakeLabel
      BY <1>2, <2>1 DEF Push_LoadTop, Goto, PushLabel, TakeLabel, RaceLabel
    <3>2. b' \in Nat /\ b' <= 3
      BY <1>1, <3>1 DEF Limit, Pushed
    <3>3. Val(Top, i) = i - 1 /\ i \in Nat /\ i - 1 \in Nat /\ i - 1 <= b'
      <4>1. Val(Top, i) = i - 1 /\ Newest(Top) \in Nat /\ Gone <= Limit /\ b' = Limit
        BY <2>2, <3>1, DequeBasics, DequeLocations DEF DequeInv, Ordered, Window, Limit
      <4> QED
        BY <1>1, <2>2, <4>1 DEF Gone
    <3>4. PICK d \in Nat : b' = i - 1 + d /\ d <= SizeMax /\ d <= 3
      <4>1. PICK c \in Nat, e \in Nat : c = i - 1 /\ e = b' /\ c <= e /\ e <= 3 /\ e <= SizeMax
        <5>1. b' <= SizeMax
          BY <1>1, <3>1, <3>2 DEF Limit, Pushed
        <5> QED
          BY <3>2, <3>3, <5>1
      <4>2. e - c \in Nat /\ e = c + (e - c) /\ e - c <= SizeMax /\ e - c <= 3
        BY <1>1, <4>1
      <4> QED
        BY <4>1, <4>2
    <3>5. (d + SizeMax + 1) % (SizeMax + 1) = d
      <4>1. (d + 1 * (SizeMax + 1)) % (SizeMax + 1) = d % (SizeMax + 1)
        BY <1>1, <3>4, Z3
      <4>2. d % (SizeMax + 1) = d
        BY <1>1, <3>4
      <4>3. d + SizeMax + 1 = d + 1 * (SizeMax + 1)
        BY <1>1, <3>4
      <4> QED
        BY <4>1, <4>2, <4>3
    <3>6. Minus(b', Val(Top, i)) = d
      <4>1. b' + SizeMax + 1 - (i - 1) = d + SizeMax + 1
        BY <1>1, <3>2, <3>3, <3>4
      <4> QED
        BY <3>3, <3>5, <4>1 DEF Minus
    <3>7. Own(Size(OwnArray)) = 4
      BY <1>1, <2>5, DequeLocations DEF Length
    <3>8. pc'[Owner] = "store"
      BY <1>1, <2>1, <3>4, <3>6, <3>7 DEF Goto
    <3> QED
      BY <3>8 DEF ResizesOnce
  <2> QED
    BY <2>4, <2>5
<1>3. CASE Push /\ ~Push_LoadTop
  <2>1. pc'[Owner] # "resize"
    <3>1. CASE Resize_Copy
      BY <3>1 DEF Resize_Copy
    <3> QED
      BY <1>1, <1>3, <3>1 DEF Push, Goto, Resize_LoadTop, Resize_StoreSize, Resize_StoreArray,
           Push_StoreBuffer, Push_Fence, Push_StoreBottom
  <2> QED
    BY <2>1 DEF ResizesOnce
<1>4. CASE Take
  <2>1. pc'[Owner] # "resize"
    <3>1. CASE Take_LoadTop
      <4>1. PICK i \in Readable(Owner, Top, relaxed) :
              /\ Load(Owner, Top, i, relaxed)
              /\ pc' = [pc EXCEPT ![Owner] = CASE Val(Top, i) < b -> "idle"
                                               [] Val(Top, i) = b -> "takeCAS"
                                               [] Val(Top, i) > b -> "restore"]
        BY <3>1 DEF Take_LoadTop
      <4>2. i \in 1..Newest(Top)
        BY <1>1, <4>1, DequeLocations, DequeLoading
      <4>3. Val(Top, i) \in Nat /\ b \in Nat
        BY <4>2, DequeBasics, DequeLocations
      <4>4. Val(Top, i) < b \/ Val(Top, i) = b \/ Val(Top, i) > b
        BY <4>3
      <4> QED
        BY <1>1, <4>1, <4>4
    <3> QED
      BY <1>1, <1>4, <3>1 DEF Take, Goto, Take_StoreBottom, Take_Fence, Take_WinCAS, Take_LoseCAS,
           Take_RestoreBottom
  <2> QED
    BY <2>1 DEF ResizesOnce
<1>5. ASSUME NEW t \in Thief, Steal(t)
      PROVE  pc'[Owner] = pc[Owner] /\ OwnArray' = OwnArray
  <2>1. pc'[Owner] = pc[Owner]
    BY <1>1, <1>5 DEF Steal, Goto, Steal_LoadTop, Steal_Fence, Steal_LoadBottom, Steal_LoadArray,
         Steal_LoadSize, Steal_LoadBuffer, Steal_WinCAS, Steal_LoseCAS
  <2>2. CASE Steal_WinCAS(t)
    <3>1. /\ pc[t] = "stealCAS" /\ WinTop(t, seq_cst) /\ t \in Thread /\ t # Owner
      BY <1>1, <2>2 DEF Steal_WinCAS, Goto, OrderStealCAS
    <3>2. \A m \in DequeLoc \ {Top} : hist'[m] = hist[m]
      BY <3>1, Winning
    <3> QED
      BY <2>1, <3>2, TopAlone
  <2>3. CASE Steal(t) /\ ~Steal_WinCAS(t)
    <3>1. hist' = hist
      <4>1. CASE Steal_LoadTop(t) \/ Steal_LoadBottom(t) \/ Steal_LoadArray(t)
        BY <4>1 DEF Load, Steal_LoadTop, Steal_LoadBottom, Steal_LoadArray
      <4>2. CASE Steal_LoadSize(t) \/ Steal_LoadBuffer(t) \/ Steal_LoseCAS(t)
        BY <4>2 DEF Load, LoseTop, Steal_LoadSize, Steal_LoadBuffer, Steal_LoseCAS
      <4>3. CASE Steal_Fence(t)
        <5>1. Fence(t, seq_cst, Written(t))
          BY <4>3 DEF Steal_Fence, OrderStealFence
        <5> QED
          BY <5>1 DEF Fence, SeqCstFence
      <4> QED
        BY <2>3, <4>1, <4>2, <4>3 DEF Steal
    <3> QED
      BY <2>1, <3>1, SameMemory
  <2> QED
    BY <1>5, <2>2, <2>3
<1>6. CASE DequeTerminated \/ UNCHANGED dequeVars
  BY <1>6 DEF DequeTerminated, dequeVars, ResizesOnce, OwnArray, Own, Val, Newest
<1> QED
  BY <1>2, <1>3, <1>4, <1>5, <1>6 DEF DequeNext, ResizesOnce

(* Up to four pushes resize at most once: the invariant needs no more.     *)
THEOREM FewPushes ==
  ASSUME TakeWhenNew = FALSE, MaxPushes <= 4
  PROVE  DequeSpec => [](DequeInv /\ ResizesOnce)
<1>1. DequeInit => DequeInv /\ ResizesOnce
  <2> SUFFICES ASSUME DequeInit PROVE DequeInv /\ ResizesOnce
    OBVIOUS
  <2>1. pc[Owner] = "idle"
    BY DequeAssumption DEF DequeInit
  <2> QED
    BY <2>1, DequeInitInvariant DEF ResizesOnce
<1>2. DequeInv /\ ResizesOnce /\ [DequeNext]_dequeVars => (DequeInv /\ ResizesOnce)'
  BY DequeNextInvariant, ResizesOnceKept
<1> QED
  BY <1>1, <1>2, PTL DEF DequeSpec

(* The local b is an index, between the calls too.                         *)
LEMMA IndexBounded ==
  ASSUME TakeWhenNew = FALSE, DequeInv, b <= MaxPushes, [DequeNext]_dequeVars
  PROVE  b' <= MaxPushes
<1>1. /\ MaxPushes \in Nat /\ Own(Bottom) \in Nat /\ Limit \in Nat /\ Pushed \in Nat
      /\ pushes \in Nat /\ pushes <= MaxPushes /\ Limit <= Pushed /\ (Pushed > 0 => Limit > 0)
  BY DequeBasics DEF DequeInv, Window
<1>2. pc[Owner] = "idle" => Own(Bottom) <= MaxPushes /\ (pushes > 0 => Own(Bottom) > 0)
  BY <1>1 DEF Limit, Pushed, TakeLabel, RaceLabel, PushLabel
<1>3. CASE Push_LoadTop
  <2>1. pc[Owner] = "idle" /\ b' = Own(Bottom)
    BY <1>3 DEF Push_LoadTop, Goto
  <2> QED
    BY <1>2, <2>1
<1>4. CASE Take_StoreBottom
  <2>1. pc[Owner] = "idle" /\ b' = Minus(Own(Bottom), 1) /\ pushes > 0
    BY <1>4 DEF Take_StoreBottom, Goto
  <2>2. PICK c \in Nat : c = Own(Bottom) /\ c > 0 /\ c <= MaxPushes
    BY <1>1, <1>2, <2>1
  <2>3. b' = c - 1
    BY <2>1, <2>2, IndexNoWrap
  <2> QED
    BY <1>1, <2>2, <2>3
<1>5. CASE Push /\ ~Push_LoadTop
  BY <1>5 DEF Push, Resize_LoadTop, Resize_StoreSize, Resize_Copy, Resize_StoreArray,
     Push_StoreBuffer, Push_Fence, Push_StoreBottom, dequeLocals
<1>6. CASE Take /\ ~Take_StoreBottom
  BY <1>6 DEF Take, Take_Fence, Take_LoadTop, Take_WinCAS, WinTop, Take_LoseCAS,
     Take_RestoreBottom, dequeLocals
<1>7. ASSUME NEW t \in Thief, Steal(t)
      PROVE  b' = b
  BY <1>7 DEF Steal, Steal_LoadTop, Steal_Fence, Steal_LoadBottom, Steal_LoadArray,
     Steal_LoadSize, Steal_LoadBuffer, Steal_WinCAS, WinTop, Steal_LoseCAS, dequeLocals
<1>8. CASE DequeTerminated \/ UNCHANGED dequeVars
  BY <1>8 DEF DequeTerminated, dequeVars, dequeLocals
<1> QED
  BY <1>3, <1>4, <1>5, <1>6, <1>7, <1>8 DEF DequeNext

(* The types: the indices never wrap, and a thief never divides by zero.   *)
LEMMA TypesFollow == DequeInv /\ b <= MaxPushes => DequeTypeOK
<1> SUFFICES ASSUME DequeInv, b <= MaxPushes PROVE DequeTypeOK
  OBVIOUS
<1>1. /\ MaxPushes \in Nat /\ Own(Bottom) \in Nat /\ Limit \in Nat /\ Pushed \in Nat
      /\ pushes \in Nat /\ pushes <= MaxPushes /\ Limit <= Pushed /\ Gone <= Limit
      /\ Gone \in Nat /\ b \in Nat
  BY DequeBasics DEF DequeInv, Window
<1>2. pc[Owner] \in {"idle"} \cup PushLabel \cup TakeLabel /\ \A t \in Thief : pc[t] \in ThiefLabel
  BY DEF DequeInv, DequeTypes
<1>3. Own(Top) = Gone
  <2>1. Newest(Top) \in 1..Newest(Top)
    BY DequeBasics, DequeLocations
  <2> QED
    BY <2>1 DEF DequeInv, Ordered, Own, Gone
<1>4. Own(Bottom) <= MaxPushes /\ Gone <= Own(Bottom) + 1
  <2>1. CASE pc[Owner] \in TakeLabel
    <3>1. b = Own(Bottom) /\ Limit = b + 1
      BY <2>1 DEF DequeInv, Window, Limit
    <3> QED
      BY <1>1, <3>1
  <2>2. CASE pc[Owner] \notin TakeLabel
    <3>1. Limit = Own(Bottom) /\ Pushed <= pushes
      BY <1>1, <2>2 DEF Limit, Pushed
    <3> QED
      BY <1>1, <3>1
  <2> QED
    BY <2>1, <2>2
<1>5. \A t \in Thief : pc[t] = "stealBuffer" => sz[t] \in 1..Slots[arr[t]]
  BY DEF DequeInv, Thieves, Sound
<1> QED
  BY <1>1, <1>2, <1>3, <1>4, <1>5
     DEF DequeTypeOK, PushLabel, TakeLabel, RaceLabel, ThiefLabel, StolenLabel

THEOREM DequeTypeCorrectness ==
  ASSUME TakeWhenNew = FALSE
  PROVE  DequeSpec /\ []ResizesOnce => []DequeTypeOK
<1>1. DequeInit => b <= MaxPushes
  BY DequeAssumption DEF DequeInit
<1>2. DequeInv /\ b <= MaxPushes /\ [DequeNext]_dequeVars => (b <= MaxPushes)'
  BY IndexBounded
<1> QED
  BY <1>1, <1>2, TypesFollow, DequeInvariance, PTL DEF DequeSpec

(* Each item is handed out once, and only if it was pushed.                *)
THEOREM ItemsOnce ==
  ASSUME TakeWhenNew = FALSE
  PROVE  DequeSpec /\ []ResizesOnce => []EachItemOnce
<1>1. DequeInv => EachItemOnce
  <2> SUFFICES ASSUME DequeInv PROVE EachItemOnce
    OBVIOUS
  <2>1. pushes \in Nat /\ Pushed \in Nat /\ Pushed <= pushes
    BY DequeBasics DEF Pushed
  <2>2. /\ \A i \in 1..Len(out) : out[i] \in 1..Pushed
        /\ \A i, j \in 1..Len(out) : out[i] = out[j] => i = j
    BY DEF DequeInv, Items
  <2> QED
    BY <2>1, <2>2 DEF EachItemOnce
<1> QED
  BY <1>1, DequeInvariance, PTL

(* take() finds nothing only when the thieves have got everything.         *)
THEOREM TakeFailure ==
  ASSUME TakeWhenNew = FALSE
  PROVE  DequeSpec /\ []ResizesOnce => []TakeFailsOnlyWhenStolen
<1>1. DequeInv => TakeFailsOnlyWhenStolen
  <2> SUFFICES ASSUME DequeInv PROVE TakeFailsOnlyWhenStolen
    OBVIOUS
  <2>1. Newest(Top) \in 1..Newest(Top) /\ b \in Nat
    BY DequeBasics, DequeLocations
  <2>2. Own(Top) = Gone
    BY <2>1 DEF DequeInv, Ordered, Own, Gone
  <2>3. pc[Owner] = "restore" => Gone = b + 1
    BY DEF DequeInv, Race
  <2> QED
    BY <2>1, <2>2, <2>3 DEF TakeFailsOnlyWhenStolen
<1> QED
  BY <1>1, DequeInvariance, PTL

-----------------------------------------------------------------------------
(* The deque, by the numbers of its items.                                 *)
ContentLaw ==
  /\ Gone \in Nat /\ Limit \in Nat /\ Gone <= Limit
  /\ Content \in Seq(Nat) /\ Len(Content) = Limit - Gone
  /\ \A j \in Gone..(Limit - 1) : Content[(j - Gone) + 1] = Item(j)

LEMMA ContentIs == DequeInv => ContentLaw
<1> SUFFICES ASSUME DequeInv PROVE ContentLaw
  OBVIOUS
<1>1. PICK g \in Nat, n \in Nat : g = Gone /\ g + n = Limit
  <2>1. Gone \in Nat /\ Limit \in Nat /\ Gone <= Limit
    BY DequeBasics DEF DequeInv, Window
  <2>2. Limit - Gone \in Nat /\ Gone + (Limit - Gone) = Limit
    BY <2>1
  <2> QED
    BY <2>1, <2>2
<1>2. Own(Top) = g
  <2>1. Newest(Top) \in 1..Newest(Top)
    BY DequeBasics, DequeLocations
  <2> QED
    BY <1>1, <2>1 DEF DequeInv, Ordered, Own, Gone
<1>3. End = Limit
  <2>1. CASE pc[Owner] \in TakeLabel
    <3>1. Limit = b + 1 /\ Limit <= MaxPushes
      <4>1. Limit <= Pushed /\ Pushed <= MaxPushes
        BY DequeBasics DEF DequeInv, Window, Pushed
      <4> QED
        BY <2>1, <4>1, DequeBasics DEF Limit
    <3>2. PICK c \in Nat : c = b /\ c <= MaxPushes
      BY <3>1, DequeBasics
    <3>3. Plus(c, 1) = c + 1
      BY <3>2, IndexNoWrap
    <3>4. Undecided \/ pc[Owner] = "restore"
      BY <2>1 DEF Undecided, TakeLabel, RaceLabel
    <3> QED
      BY <3>1, <3>2, <3>3, <3>4 DEF End
  <2>2. CASE pc[Owner] \notin TakeLabel
    BY <2>2 DEF End, Limit, Undecided, TakeLabel, RaceLabel
  <2> QED
    BY <2>1, <2>2
<1>4. Own(Size(OwnArray)) = Length(OwnArray)
  BY DequeBasics
<1>5. (IF Own(Top) < End THEN End - Own(Top) ELSE 0) = n
  BY <1>1, <1>2, <1>3
<1>6. Content = [k \in 1..n |-> Item((g + k) - 1)]
  BY <1>2, <1>4, <1>5 DEF Content, Item, Slot
<1>7. \A k \in Nat : Item(k) \in Nat
  BY DequeBasics
<1>8. \A k \in 1..n : (g + k) - 1 \in Nat
  OBVIOUS
<1>9. \A k \in 1..n : Item((g + k) - 1) \in Nat
  BY <1>7, <1>8
<1>10. Content \in Seq(Nat) /\ Len(Content) = n
  BY <1>6, <1>9
<1>11. ASSUME NEW j \in g..(g + n - 1)
       PROVE  Content[(j - g) + 1] = Item(j)
  <2>1. (j - g) + 1 \in 1..n /\ (g + ((j - g) + 1)) - 1 = j
    OBVIOUS
  <2> QED
    BY <1>6, <2>1
<1>12. Limit - Gone = n /\ Gone <= Limit /\ Limit \in Nat /\ Gone \in Nat
  BY <1>1
<1> QED
  BY <1>1, <1>10, <1>11, <1>12 DEF ContentLaw

LEMMA ContentIsThen == DequeInv' => ContentLaw'
BY ContentIs, PTL

(* Two lists of the same items.                                            *)
LEMMA SameItems ==
  ASSUME NEW g \in Nat, NEW n \in Nat, NEW s \in Seq(Nat), NEW r \in Seq(Nat),
         Len(s) = n, Len(r) = n,
         \A j \in g..(g + n - 1) : s[(j - g) + 1] = r[(j - g) + 1]
  PROVE  s = r
<1>1. ASSUME NEW k \in 1..n
      PROVE  s[k] = r[k]
  <2>1. PICK j \in g..(g + n - 1) : (j - g) + 1 = k
    <3>1. g + k - 1 \in g..(g + n - 1) /\ ((g + k - 1) - g) + 1 = k
      OBVIOUS
    <3> QED
      BY <3>1
  <2> QED
    BY <2>1
<1> QED
  BY <1>1, SeqEqual

(* Steps that leave the items alone stutter.                               *)
LEMMA UnmovedRefines ==
  ASSUME DequeInv, DequeInv', Unmoved
  PROVE  Content' = Content /\ out' = out /\ Pushed' = Pushed
<1>1. PICK g \in Nat, n \in Nat : g = Gone /\ n = Limit - Gone /\ Limit - 1 = g + n - 1
  BY ContentIs DEF ContentLaw
<1>2. PICK s, r : s = Content /\ r = Content'
  OBVIOUS
<1>3. s \in Seq(Nat) /\ Len(s) = n /\ \A j \in g..(g + n - 1) : s[(j - g) + 1] = Item(j)
  BY <1>1, <1>2, ContentIs DEF ContentLaw
<1>4. r \in Seq(Nat) /\ Len(r) = n /\ \A j \in g..(g + n - 1) : r[(j - g) + 1] = Item(j)'
  <2>1. Gone' = g /\ Limit' = Limit
    BY <1>1 DEF Unmoved
  <2> QED
    BY <1>1, <1>2, <2>1, ContentIsThen DEF ContentLaw
<1>5. \A j \in g..(g + n - 1) : Item(j)' = Item(j)
  BY <1>1 DEF Unmoved
<1>6. \A j \in g..(g + n - 1) : s[(j - g) + 1] = r[(j - g) + 1]
  BY <1>3, <1>4, <1>5
<1>7. s = r
  BY <1>3, <1>4, <1>6, SameItems
<1> QED
  BY <1>2, <1>7 DEF Unmoved

(* The store of bottom in push() is the Push of the abstract deque.        *)
LEMMA GrownRefines ==
  ASSUME DequeInv, DequeInv', Grown
  PROVE  /\ Content' = Append(Content, Pushed') /\ Pushed' = Pushed + 1 /\ out' = out
<1>1. PICK g \in Nat, n \in Nat, v \in Nat :
        g = Gone /\ n = Limit - Gone /\ Limit = g + n /\ v = Pushed + 1
  <2>1. Gone \in Nat /\ Limit \in Nat /\ Gone <= Limit
    BY ContentIs DEF ContentLaw
  <2>2. Limit - Gone \in Nat /\ Limit = Gone + (Limit - Gone)
    BY <2>1
  <2>3. Pushed + 1 \in Nat
    BY DequeBasics
  <2> QED
    BY <2>1, <2>2, <2>3
<1>2. PICK s, r : s = Content /\ r = Content'
  OBVIOUS
<1>3. s \in Seq(Nat) /\ Len(s) = n /\ \A j \in g..(g + n - 1) : s[(j - g) + 1] = Item(j)
  BY <1>1, <1>2, ContentIs DEF ContentLaw
<1>4. Gone' = g /\ Limit' = g + n + 1 /\ Pushed' = v /\ out' = out
  BY <1>1 DEF Grown
<1>5. r \in Seq(Nat) /\ Len(r) = n + 1 /\ \A j \in g..(g + n) : r[(j - g) + 1] = Item(j)'
  BY <1>1, <1>2, <1>4, ContentIsThen DEF ContentLaw
<1>6. \A j \in g..(g + n - 1) : Item(j)' = Item(j)
  BY <1>1 DEF Grown
<1>7. Item(g + n)' = v
  <2>1. PICK j \in Limit..Limit : j = g + n
    BY <1>1
  <2> QED
    BY <1>1, <2>1 DEF Grown
<1>8. PICK f : f = Append(s, v)
  OBVIOUS
<1>9. f \in Seq(Nat) /\ Len(f) = n + 1 /\ (\A k \in 1..n : f[k] = s[k]) /\ f[n + 1] = v
  BY <1>3, <1>8, AppendProperties
<1>10. ASSUME NEW j \in g..(g + (n + 1) - 1)
       PROVE  r[(j - g) + 1] = f[(j - g) + 1]
  <2>1. CASE j = g + n
    <3>1. (j - g) + 1 = n + 1 /\ j \in g..(g + n)
      BY <2>1
    <3>2. r[n + 1] = Item(j)' /\ Item(j)' = v
      BY <1>5, <1>7, <2>1, <3>1
    <3> QED
      BY <1>9, <3>1, <3>2
  <2>2. CASE j # g + n
    <3>1. j \in g..(g + n - 1) /\ j \in g..(g + n) /\ (j - g) + 1 \in 1..n
      BY <2>2
    <3> QED
      BY <1>3, <1>5, <1>6, <1>9, <3>1
  <2> QED
    BY <2>1, <2>2
<1>11. r = f
  <2>1. PICK m \in Nat : m = n + 1
    OBVIOUS
  <2>2. \A j \in g..(g + m - 1) : r[(j - g) + 1] = f[(j - g) + 1]
    BY <1>10, <2>1
  <2> QED
    BY <1>5, <1>9, <2>1, <2>2, SameItems
<1> QED
  BY <1>1, <1>2, <1>4, <1>8, <1>11

(* take() hands out the item at the back ...                               *)
LEMMA TakenBackRefines ==
  ASSUME DequeInv, DequeInv', TakenBack
  PROVE  Abstract!Take
<1>1. PICK g \in Nat, n \in Nat : g = Gone /\ n + 1 = Limit - Gone /\ Limit = g + n + 1
  <2>1. Gone \in Nat /\ Limit \in Nat /\ Gone < Limit
    BY ContentIs DEF ContentLaw, TakenBack
  <2>2. /\ Limit - Gone - 1 \in Nat /\ Limit - Gone - 1 + 1 = Limit - Gone
        /\ Limit = Gone + (Limit - Gone - 1) + 1
    BY <2>1
  <2> QED
    BY <2>1, <2>2
<1>2. PICK s, r : s = Content /\ r = Content'
  OBVIOUS
<1>3. s \in Seq(Nat) /\ Len(s) = n + 1 /\ \A j \in g..(g + n) : s[(j - g) + 1] = Item(j)
  <2>1. Limit - 1 = g + n
    BY <1>1
  <2> QED
    BY <1>1, <1>2, <2>1, ContentIs DEF ContentLaw
<1>4. Gone' = g /\ Limit' = g + n /\ Pushed' = Pushed
  <2>1. PICK m \in Nat, l \in Nat : m = Limit' /\ l = Limit /\ l = g + n + 1
    BY <1>1, ContentIs, ContentIsThen DEF ContentLaw
  <2>2. m + 1 = l
    BY <2>1 DEF TakenBack
  <2>3. l = g + n + 1
    BY <2>1
  <2>4. m = g + n
    BY <2>2, <2>3
  <2> QED
    BY <1>1, <2>1, <2>4 DEF TakenBack
<1>5. r \in Seq(Nat) /\ Len(r) = n /\ \A j \in g..(g + n - 1) : r[(j - g) + 1] = Item(j)'
  BY <1>1, <1>2, <1>4, ContentIsThen DEF ContentLaw
<1>6. \A j \in g..(g + n - 1) : Item(j)' = Item(j)
  <2>1. \A j \in g..(g + n - 1) : j \in Gone..(Limit - 1)
    BY <1>1
  <2> QED
    BY <2>1 DEF TakenBack
<1>7. out' = Append(out, s[n + 1]) /\ s # <<>>
  <2>1. PICK j \in g..(g + n) : j = g + n
    OBVIOUS
  <2>2. (j - g) + 1 = n + 1 /\ j = Limit - 1
    BY <1>1, <2>1
  <2>3. s[n + 1] = Item(Limit - 1)
    BY <1>3, <2>2
  <2>4. s # <<>>
    BY <1>3
  <2> QED
    BY <2>3, <2>4 DEF TakenBack
<1>8. PICK f : f = SubSeq(s, 1, n)
  OBVIOUS
<1>9. f \in Seq(Nat) /\ Len(f) = n /\ \A k \in 1..n : f[k] = s[k]
  <2>1. \A k \in 1..n : s[k] \in Nat
    BY <1>3, ElementOfSeq
  <2>2. f \in Seq(Nat) /\ Len(f) = (IF 1 <= n THEN n - 1 + 1 ELSE 0)
        /\ \A k \in 1..(n - 1 + 1) : f[k] = s[1 + k - 1]
    BY <1>8, <2>1, SubSeqProperties
  <2>3. n - 1 + 1 = n /\ \A k \in 1..n : 1 + k - 1 = k
    OBVIOUS
  <2> QED
    BY <2>2, <2>3
<1>10. \A j \in g..(g + n - 1) : r[(j - g) + 1] = f[(j - g) + 1]
  <2>1. \A j \in g..(g + n - 1) : j \in g..(g + n) /\ (j - g) + 1 \in 1..n
    OBVIOUS
  <2> QED
    BY <1>3, <1>5, <1>6, <1>9, <2>1
<1>11. r = f
  BY <1>5, <1>9, <1>10, SameItems
<1>12. (n + 1) - 1 = n
  OBVIOUS
<1>13. Last(s) = s[n + 1] /\ Front(s) = f
  BY <1>3, <1>8, <1>12 DEF Last, Front
<1> QED
  BY <1>2, <1>4, <1>7, <1>11, <1>13
     DEF Abstract!Take, Abstract!Last, Abstract!Front, Last, Front, Pushed, PushLabel

(* ... and steal() the one at the front.                                   *)
LEMMA TakenFrontRefines ==
  ASSUME DequeInv, DequeInv', TakenFront
  PROVE  Abstract!Steal
<1>1. PICK g \in Nat, n \in Nat : g = Gone /\ n + 1 = Limit - Gone /\ Limit = g + n + 1
  <2>1. Gone \in Nat /\ Limit \in Nat /\ Gone < Limit
    BY ContentIs DEF ContentLaw, TakenFront
  <2>2. /\ Limit - Gone - 1 \in Nat /\ Limit - Gone - 1 + 1 = Limit - Gone
        /\ Limit = Gone + (Limit - Gone - 1) + 1
    BY <2>1
  <2> QED
    BY <2>1, <2>2
<1>2. PICK s, r : s = Content /\ r = Content'
  OBVIOUS
<1>3. s \in Seq(Nat) /\ Len(s) = n + 1 /\ \A j \in g..(g + n) : s[(j - g) + 1] = Item(j)
  <2>1. Limit - 1 = g + n
    BY <1>1
  <2> QED
    BY <1>1, <1>2, <2>1, ContentIs DEF ContentLaw
<1>4. PICK h \in Nat : h = g + 1
  OBVIOUS
<1>5. Gone' = h /\ Limit' = g + n + 1 /\ Pushed' = Pushed
  BY <1>1, <1>4 DEF TakenFront
<1>6. r \in Seq(Nat) /\ Len(r) = n /\ \A j \in h..(h + n - 1) : r[(j - h) + 1] = Item(j)'
  <2>1. (g + n + 1) - h = n /\ (g + n + 1) - 1 = h + n - 1
    BY <1>4
  <2> QED
    BY <1>2, <1>5, <2>1, ContentIsThen DEF ContentLaw
<1>7. \A j \in h..(h + n - 1) : Item(j)' = Item(j)
  <2>1. \A j \in h..(h + n - 1) : j \in Gone..(Limit - 1)
    BY <1>1, <1>4
  <2> QED
    BY <2>1 DEF TakenFront
<1>8. out' = Append(out, s[1]) /\ s # <<>>
  <2>1. PICK j \in g..(g + n) : j = g
    OBVIOUS
  <2>2. (j - g) + 1 = 1
    BY <2>1
  <2>3. s[1] = Item(Gone)
    BY <1>1, <1>3, <2>1, <2>2
  <2>4. s # <<>>
    BY <1>3
  <2> QED
    BY <2>3, <2>4 DEF TakenFront
<1>9. PICK f : f = Tail(s)
  OBVIOUS
<1>10. f \in Seq(Nat) /\ Len(f) = n /\ \A k \in 1..n : f[k] = s[k + 1]
  <2>1. (n + 1) - 1 = n
    OBVIOUS
  <2>2. f \in Seq(Nat) /\ Len(f) = (n + 1) - 1 /\ \A k \in 1..Len(f) : f[k] = s[k + 1]
    BY <1>3, <1>8, <1>9, HeadTailProperties
  <2> QED
    BY <2>1, <2>2
<1>11. \A j \in h..(h + n - 1) : r[(j - h) + 1] = f[(j - h) + 1]
  <2>1. \A j \in h..(h + n - 1) :
          j \in g..(g + n) /\ (j - h) + 1 \in 1..n /\ ((j - h) + 1) + 1 = (j - g) + 1
    BY <1>4
  <2> QED
    BY <1>3, <1>6, <1>7, <1>10, <2>1
<1>12. r = f
  BY <1>6, <1>10, <1>11, SameItems
<1>13. Head(s) = s[1]
  BY <1>3, <1>8
<1> QED
  BY <1>2, <1>5, <1>8, <1>9, <1>12, <1>13 DEF Abstract!Steal, Pushed, PushLabel

(* The deque is the one of the annotations: the owner pushes and takes at  *)
(* the back, the thieves get the front.                                    *)
THEOREM DequeRefinement ==
  ASSUME TakeWhenNew = FALSE
  PROVE  DequeSpec /\ []ResizesOnce => ImplementsDeque
<1> DEFINE abstract == <<Content, out, Pushed>>
           Moved == [Abstract!Push \/ Abstract!Take \/ Abstract!Steal]_abstract
<1>1. ASSUME DequeInit
      PROVE  Abstract!Init
  <2>1. DequeInv /\ out = <<>> /\ pushes = 0 /\ pc[Owner] = "idle" /\ b = 0
    BY <1>1, DequeInitInvariant, DequeAssumption DEF DequeInit
  <2>2. Pushed = 0 /\ Limit <= Pushed
    BY <2>1 DEF Pushed, PushLabel, DequeInv, Window
  <2>3. Content \in Seq(Nat) /\ Len(Content) = 0
    BY <2>1, <2>2, ContentIs DEF ContentLaw
  <2>4. Content = <<>>
    BY <2>3, EmptySeq
  <2> QED
    BY <2>1, <2>4 DEF Abstract!Init
<1>2. ASSUME DequeInv, DequeInv', Unmoved \/ Grown \/ TakenBack \/ TakenFront
      PROVE  Moved
  <2>1. CASE Unmoved
    BY <1>2, <2>1, UnmovedRefines
  <2>2. CASE Grown
    <3>1. Content' = Append(Content, Pushed') /\ Pushed' = Pushed + 1 /\ out' = out
      BY <1>2, <2>2, GrownRefines
    <3>2. Abstract!Push
      BY <3>1 DEF Abstract!Push, Pushed, PushLabel
    <3> QED
      BY <3>2
  <2>3. CASE TakenBack
    BY <1>2, <2>3, TakenBackRefines
  <2>4. CASE TakenFront
    BY <1>2, <2>4, TakenFrontRefines
  <2> QED
    BY <1>2, <2>1, <2>2, <2>3, <2>4
<1>3. DequeInv /\ ResizesOnce /\ ResizesOnce' /\ [DequeNext]_dequeVars => Moved
  BY <1>2, DequeNextInvariant
<1> HIDE DEF Moved
<1>4. DequeSpec /\ []ResizesOnce => [][Abstract!Push \/ Abstract!Take \/ Abstract!Steal]_abstract
  <2>1. Moved => [Abstract!Push \/ Abstract!Take \/ Abstract!Steal]_abstract
    BY DEF Moved
  <2> QED
    BY <1>3, <2>1, DequeInvariance, PTL DEF DequeSpec
<1> QED
  BY <1>1, <1>4, PTL DEF DequeSpec, ImplementsDeque, Abstract!Spec, Pushed, PushLabel
=============================================================================
