--------------------------- MODULE SPSCQueueProofs ---------------------------
(***************************************************************************)
(* Proofs about SPSCQueue and its eventcount, for any number of calls and  *)
(* of wake-ups without a notification.                                     *)
(***************************************************************************)
EXTENDS SPSCQueue, C11MemoryProofs, FiniteSetTheorems

CountValue == [n : 0..(CountRange - 1), flag : BOOLEAN]
Value == CountValue \cup Node \cup {0, 1, null, Uninit}

ProducerLabel ==
  {"idle", "newNext", "link", "signal", "signalLock", "signalCAS", "signalUnlock", "notify"}
ConsumerLabel ==
  {"idle", "data", "get", "tryAgain", "wait", "waitLock", "recheck", "sleep", "asleep",
   "relock", "waitUnlock", "awake"}

Knows(t, x) == \A j \in 1..Newest(x) : <<x, j>> \in cur[t]

(* The inductive invariant.  Types: of the memory and of the locals.       *)
QueueTypes ==
  /\ MemType(SPSCLoc, Value)
  /\ \A i \in 1..Newest(Count) : Val(Count, i) \in CountValue
  /\ DOMAIN pc = Thread /\ pc[Producer] \in ProducerLabel /\ pc[Consumer] \in ConsumerLabel
  /\ cmp \in [Thread -> CountValue]
  /\ DOMAIN n = Thread
  /\ waiters \in Nat

(* Chain: count is only changed by read-modify-writes; all locations are   *)
(* written in the order of their histories.                                *)
Chain ==
  /\ \A x \in SPSCLoc : Linear(x)
  /\ \A k \in 2..Newest(Count) : hist[Count][k].kind = "rmw"

(* Locked: the guard has at most one holder, who knows it.                 *)
Holds(t) == pc[t] \in {"signalCAS", "signalUnlock", "recheck", "sleep", "waitUnlock"}
Locked ==
  /\ ~ (Holds(Producer) /\ Holds(Consumer))
  /\ \A t \in Thread :
       Holds(t) => Current(Guard) # 0 /\ <<Guard, Newest(Guard)>> \in cur[t]

(* Sleeping: who sleeps was counted under the guard, and the signal that   *)
(* took the count is about to notify.                                      *)
Sleeping ==
  /\ pc[Consumer] = "sleep" => waiters > 0
  /\ pc[Consumer] = "asleep" => waiters > 0 \/ pc[Producer] = "notify"

(* List: the nodes up to head are linked one after the other, and the      *)
(* producer knows all their fields.  Ready(k) messages initialise the next *)
(* of node k, one more links it to its successor.                          *)
Making == pc[Producer] \in {"newNext", "link"}
Ready(k) == IF k = 0 THEN 1 ELSE 2
NextLength(k) ==
  IF k < head THEN Ready(k) + 1
  ELSE IF k = head \/ (k = enqueues /\ pc[Producer] = "link") THEN Ready(k) ELSE 1
NextValue(k, i) == IF i > Ready(k) THEN k + 1 ELSE IF i = Ready(k) THEN null ELSE Uninit
DataLength(k) == IF k = 0 \/ k > enqueues THEN 1 ELSE 2
List ==
  /\ enqueues \in 0..MaxEnqueues
  /\ head \in 0..enqueues /\ head = (IF Making THEN enqueues - 1 ELSE enqueues)
  /\ Making => n[Producer] = enqueues
  /\ \A k \in Node :
       /\ Newest(NextOf(k)) = NextLength(k)
       /\ \A i \in 1..Newest(NextOf(k)) : Val(NextOf(k), i) = NextValue(k, i)
       /\ Newest(DataOf(k)) = DataLength(k)
       /\ k <= enqueues => Current(DataOf(k)) = k
       /\ Knows(Producer, NextOf(k)) /\ Knows(Producer, DataOf(k))

(* Links: the link to a node carries its initialisation.                   *)
Made(k) == {<<NextOf(k), Ready(k)>>, <<DataOf(k), 2>>}
Links == \A k \in Node : k < head => Made(k + 1) \subseteq hist[NextOf(k)][Ready(k) + 1].view

(* Reading: the consumer has taken the items in order, has deleted the     *)
(* nodes it has left, and has seen the next of the node it is at.          *)
Reading ==
  /\ tail \in 0..head
  /\ out = [k \in 1..tail |-> k]
  /\ deleted = 0..(tail - 1)
  /\ dequeues = (IF pc[Consumer] = "idle" THEN tail ELSE tail + 1)
  /\ <<NextOf(tail), Ready(tail)>> \in cur[Consumer]
  /\ pc[Consumer] = "data" =>
       tail < head /\ n[Consumer] = tail + 1 /\ Made(tail + 1) \subseteq cur[Consumer]

QueueInv == QueueTypes /\ Chain /\ Locked /\ Sleeping /\ List /\ Links /\ Reading

-----------------------------------------------------------------------------
(* The locations are different.                                            *)
LEMMA Locations ==
  /\ Count \in SPSCLoc /\ Guard \in SPSCLoc \ {Count}
  /\ \A k \in Node : /\ NextOf(k) \in SPSCLoc \ {Count, Guard}
                    /\ DataOf(k) \in SPSCLoc \ {Count, Guard}
  /\ \A j, k : NextOf(j) # DataOf(k)
  /\ \A j, k : NextOf(j) = NextOf(k) => j = k
  /\ \A j, k : DataOf(j) = DataOf(k) => j = k
<1>1. Len(Count) = 1 /\ Count[1] = "count" /\ Len(Guard) = 1 /\ Guard[1] = "guard"
  BY DEF Count, Guard
<1>2. \A k : Len(NextOf(k)) = 2 /\ NextOf(k)[1] = "next" /\ NextOf(k)[2] = k
  BY DEF NextOf
<1>3. \A k : Len(DataOf(k)) = 2 /\ DataOf(k)[1] = "data" /\ DataOf(k)[2] = k
  BY DEF DataOf
<1> QED
  BY <1>1, <1>2, <1>3 DEF SPSCLoc, EventCountLoc

(* The two threads, and the nodes as numbers.                              *)
LEMMA Constants ==
  /\ Thread = {Producer, Consumer} /\ Producer # Consumer
  /\ MaxEnqueues \in Nat /\ CountRange \in Nat \ {0}
  /\ Node = 0..MaxEnqueues /\ 0 \in Node
  /\ null \notin Node /\ Uninit \notin Node
  /\ CountOf(0, FALSE) \in CountValue
BY SPSCAssumption DEF Node, CountOf, CountValue

(* Lengths of the histories are positive numbers.                          *)
LEMMA QueueLengths ==
  ASSUME MemType(SPSCLoc, Value), NEW x \in SPSCLoc
  PROVE  Newest(x) \in Nat /\ Newest(x) >= 1 /\ hist[x] \in Seq(Messages(SPSCLoc, Value))
BY LenProperties DEF MemType, Newest

THEOREM QueueInit ==
  ASSUME SPSCInit
  PROVE  QueueInv
<1> DEFINE init == [x \in SPSCLoc |->
             IF x \in EventCountLoc THEN EventCountInit(x)
             ELSE IF x = NextOf(0) THEN null ELSE IF x = DataOf(0) THEN 0 ELSE Uninit]
           m(v) == Message(1, v, {}, "store")
<1>1. DOMAIN init = SPSCLoc
  OBVIOUS
<1>0. /\ hist = [x \in DOMAIN init |-> <<m(init[x])>>]
      /\ cur = [t \in Thread |-> {<<x, 1>> : x \in DOMAIN init}]
      /\ acq = [t \in Thread |-> {}]
      /\ rel = [t \in Thread |-> {}]
      /\ sc = {}
  BY DEF SPSCInit, MemInit
<1>2. init[Count] = CountOf(0, FALSE) /\ init[Guard] = 0
  BY Locations DEF EventCountLoc, EventCountInit
<1>5. /\ init[NextOf(0)] = null /\ init[DataOf(0)] = 0
      /\ \A k \in Node \ {0} : init[NextOf(k)] = Uninit /\ init[DataOf(k)] = Uninit
  BY Locations, Constants DEF EventCountLoc
<1> HIDE DEF init, m
<1>6. \A x \in SPSCLoc : init[x] \in Value
  <2>1. {CountOf(0, FALSE), 0, null, Uninit} \subseteq Value
    BY Constants DEF Value
  <2>2. \A k \in Node : init[NextOf(k)] \in {null, Uninit} /\ init[DataOf(k)] \in {0, Uninit}
    BY <1>5
  <2> QED
    BY <1>2, <2>1, <2>2 DEF SPSCLoc, EventCountLoc
<1>7. \A v \in Value : m(v) \in Messages(SPSCLoc, Value) /\ m(v).id = 1 /\ m(v).val = v
  BY DEF m, Message, Messages
<1>8. \A x \in SPSCLoc : /\ hist[x] = <<m(init[x])>>
                     /\ hist[x] \in Seq(Messages(SPSCLoc, Value))
                     /\ Len(hist[x]) = 1
                     /\ hist[x][1].id = 1
                     /\ hist[x][1].val = init[x]
  BY <1>1, <1>0, <1>6, <1>7
<1>9. \A t \in Thread, x \in SPSCLoc : <<x, 1>> \in cur[t]
  BY <1>1, <1>0
<1>10. /\ pc = [t \in Thread |-> "idle"]
       /\ cmp = [t \in Thread |-> CountOf(0, FALSE)]
       /\ n = [t \in Thread |-> 0]
       /\ waiters = 0 /\ head = 0 /\ tail = 0 /\ deleted = {}
       /\ enqueues = 0 /\ dequeues = 0 /\ out = <<>>
  BY DEF SPSCInit
<1>11. \A x \in SPSCLoc : Newest(x) = 1 /\ Val(x, 1) = init[x] /\ \A t \in Thread : Knows(t, x)
  BY <1>8, <1>9 DEF Newest, Val, Knows
<1>12. QueueTypes
  <2>1. hist \in [SPSCLoc -> Seq(Messages(SPSCLoc, Value))]
    BY <1>1, <1>0, <1>8
  <2>2. cur \in [Thread -> SUBSET Events(SPSCLoc)]
    BY <1>1, <1>0 DEF Events
  <2>3. MemType(SPSCLoc, Value)
    BY <1>0, <1>8, <2>1, <2>2 DEF MemType
  <2>4. \A i \in 1..Newest(Count) : Val(Count, i) \in CountValue
    <3>1. Newest(Count) = 1 /\ Val(Count, 1) \in CountValue
      BY <1>2, <1>11, Locations, Constants
    <3> QED
      BY <3>1
  <2>5. pc[Producer] \in ProducerLabel /\ pc[Consumer] \in ConsumerLabel /\ DOMAIN pc = Thread
    BY <1>10, Constants DEF ProducerLabel, ConsumerLabel
  <2>6. cmp \in [Thread -> CountValue] /\ DOMAIN n = Thread /\ waiters \in Nat
    BY <1>10, Constants
  <2> QED
    BY <2>3, <2>4, <2>5, <2>6 DEF QueueTypes
<1>13. Chain
  BY <1>8, <1>11, Locations DEF Chain, Linear
<1>14. Locked /\ Sleeping
  BY <1>10, Constants DEF Locked, Holds, Sleeping
<1>15. List
  <2>1. ASSUME NEW k \in Node
        PROVE  /\ Newest(NextOf(k)) = NextLength(k)
               /\ \A i \in 1..Newest(NextOf(k)) : Val(NextOf(k), i) = NextValue(k, i)
               /\ Newest(DataOf(k)) = DataLength(k)
               /\ k <= enqueues => Current(DataOf(k)) = k
               /\ Knows(Producer, NextOf(k)) /\ Knows(Producer, DataOf(k))
    <3>1. NextOf(k) \in SPSCLoc /\ DataOf(k) \in SPSCLoc /\ k \in Nat
      BY Locations, Constants
    <3>2. Newest(NextOf(k)) = 1 /\ Newest(DataOf(k)) = 1
      BY <1>11, <3>1
    <3>3. NextLength(k) = 1 /\ DataLength(k) = 1
      BY <1>10, <3>1, Constants DEF NextLength, DataLength, Ready
    <3>4. Val(NextOf(k), 1) = NextValue(k, 1)
      BY <1>5, <1>11, <3>1 DEF NextValue, Ready
    <3>5. k <= enqueues => Current(DataOf(k)) = k
      BY <1>5, <1>10, <1>11, <3>1 DEF Current
    <3> QED
      BY <1>11, <3>1, <3>2, <3>3, <3>4, <3>5, Constants
  <2>2. ~Making
    BY <1>10, Constants DEF Making
  <2> QED
    BY <1>10, <2>1, <2>2, Constants DEF List
<1>16. Links
  BY <1>10, Constants DEF Links
<1>17. Reading
  <2>1. out = [k \in 1..tail |-> k] /\ deleted = 0..(tail - 1) /\ tail \in 0..head
    BY <1>10
  <2>2. <<NextOf(tail), Ready(tail)>> \in cur[Consumer]
    BY <1>9, <1>10, Locations, Constants DEF Ready
  <2> QED
    BY <1>10, <2>1, <2>2, Constants DEF Reading
<1> QED
  BY <1>12, <1>13, <1>14, <1>15, <1>16, <1>17 DEF QueueInv

-----------------------------------------------------------------------------
(* What a step of the eventcount may do to the memory: the fields of the   *)
(* nodes stay, and views only grow.                                        *)
Quiet ==
  /\ MemType(SPSCLoc, Value)'
  /\ \A i \in 1..Newest(Count)' : Val(Count, i)' \in CountValue
  /\ Chain'
  /\ \A k \in Node : hist'[NextOf(k)] = hist[NextOf(k)] /\ hist'[DataOf(k)] = hist[DataOf(k)]
  /\ \A t \in Thread : cur[t] \subseteq cur'[t]

LEMMA Basics ==
  ASSUME QueueInv
  PROVE  /\ MemType(SPSCLoc, Value) /\ \A x \in SPSCLoc : Linear(x)
         /\ \A x \in SPSCLoc : Newest(x) \in Nat /\ Newest(x) >= 1
         /\ \A x \in SPSCLoc, t \in Thread :
              <<x, Newest(x)>> \in cur[t] => Event(x, Newest(x)) \in cur[t]
<1>1. MemType(SPSCLoc, Value) /\ \A x \in SPSCLoc : Linear(x)
  BY DEF QueueInv, QueueTypes, Chain
<1>2. \A x \in SPSCLoc : Newest(x) \in Nat /\ Newest(x) >= 1
  BY <1>1, QueueLengths
<1> QED
  BY <1>1, <1>2 DEF Linear, Event, Newest

(* A load changes no history.                                              *)
LEMMA Loading ==
  ASSUME QueueInv, NEW t \in Thread, NEW x \in SPSCLoc, NEW i, NEW ord, Load(t, x, i, ord)
  PROVE  /\ i \in 1..Newest(x) /\ hist' = hist /\ Quiet
         /\ cur'[t] = Observe(t, x, i, ord)
<1>1. MemType(SPSCLoc, Value)' /\ i \in 1..Newest(x)
  BY Basics, LoadType
<1>2. hist' = hist /\ cur' = [cur EXCEPT ![t] = Observe(t, x, i, ord)]
  BY DEF Load
<1>3. cur'[t] = Observe(t, x, i, ord) /\ \A u \in Thread : cur[u] \subseteq cur'[u]
  BY <1>2, Basics DEF MemType, Observe
<1>4. Chain' /\ \A j \in 1..Newest(Count)' : Val(Count, j)' \in CountValue
  BY <1>2 DEF QueueInv, QueueTypes, Chain, Linear, Newest, Val
<1> QED
  BY <1>1, <1>2, <1>3, <1>4 DEF Quiet

(* A message behind the newest one of count or of the guard.               *)
LEMMA Appending ==
  ASSUME QueueInv, NEW t \in Thread, NEW x \in {Count, Guard}, NEW v, Appended(SPSCLoc, x),
         hist'[x][Newest(x) + 1].id = Newest(x) + 1,
         hist'[x][Newest(x) + 1].val = v,
         x = Count => v \in CountValue /\ hist'[x][Newest(x) + 1].kind = "rmw",
         MemType(SPSCLoc, Value)', \A u \in Thread : cur[u] \subseteq cur'[u]
  PROVE  Quiet /\ Newest(x)' = Newest(x) + 1 /\ Current(x)' = v
<1>1. /\ x \in SPSCLoc /\ \A k \in Node : /\ NextOf(k) \in SPSCLoc \ {x}
                                      /\ DataOf(k) \in SPSCLoc \ {x}
  BY Locations
<1>2. Newest(x) \in Nat /\ MemType(SPSCLoc, Value) /\ \A y \in SPSCLoc : Linear(y)
  BY <1>1, Basics
<1>3. /\ Newest(x)' = Newest(x) + 1
      /\ \A k \in 1..Newest(x) : hist'[x][k] = hist[x][k]
      /\ \A y \in SPSCLoc \ {x} : hist'[y] = hist[y]
      /\ \A k \in 1..(Newest(x) + 1) : k \in 1..Newest(x) \/ k = Newest(x) + 1
  BY <1>2 DEF Appended, Newest
<1>4. \A y \in SPSCLoc : Linear(y)'
  BY <1>1, <1>2, AppendedLinear
<1>5. /\ \A k \in 2..Newest(Count)' : hist'[Count][k].kind = "rmw"
      /\ \A k \in 1..Newest(Count)' : Val(Count, k)' \in CountValue
  <2>1. CASE x = Count
    <3>1. ASSUME NEW k \in 1..Newest(Count)'
          PROVE  /\ k >= 2 => hist'[Count][k].kind = "rmw"
                 /\ hist'[Count][k].val \in CountValue
      <4>1. CASE k = Newest(Count) + 1
        BY <2>1, <4>1
      <4>2. CASE k \in 1..Newest(Count)
        BY <1>2, <1>3, <2>1, <4>2 DEF QueueInv, Chain, QueueTypes, Val
      <4> QED
        BY <1>3, <2>1, <3>1, <4>1, <4>2
    <3>2. \A k \in 2..Newest(Count)' : k \in 1..Newest(Count)' /\ k >= 2
      OBVIOUS
    <3> QED
      BY <3>1, <3>2 DEF Val
  <2>2. CASE x # Count
    <3>1. hist'[Count] = hist[Count]
      BY <1>3, <2>2, Locations
    <3> QED
      BY <3>1 DEF QueueInv, Chain, QueueTypes, Val, Newest
  <2> QED
    BY <2>1, <2>2
<1> QED
  BY <1>1, <1>3, <1>4, <1>5 DEF Quiet, Chain, Val, Current

(* A read-modify-write of count goes to the end of its history, since no   *)
(* write comes between a read-modify-write and what it read.               *)
LEMMA Counting ==
  ASSUME QueueInv, NEW t \in Thread, NEW i, NEW v \in CountValue, NEW ord,
         ReadModifyWrite(t, Count, i, v, ord)
  PROVE  Quiet /\ hist'[Guard] = hist[Guard]
<1>1. MemType(SPSCLoc, Value) /\ Newest(Count) \in Nat /\ Count \in SPSCLoc /\ v \in Value
  BY Basics, Locations DEF Value
<1>2. i \in 1..Newest(Count) /\ (i < Newest(Count) => hist[Count][i + 1].kind # "rmw")
  BY DEF ReadModifyWrite, Extendable, Readable
<1>3. i = Newest(Count)
  BY <1>1, <1>2 DEF QueueInv, Chain
<1>4. /\ Appended(SPSCLoc, Count)
      /\ hist'[Count][Newest(Count) + 1].id = Newest(Count) + 1
      /\ hist'[Count][Newest(Count) + 1].val = v
      /\ hist'[Count][Newest(Count) + 1].kind = "rmw"
  BY <1>1, <1>3, ReadModifyWriteAtEnd
<1>5. MemType(SPSCLoc, Value)'
  BY <1>1, ReadModifyWriteType
<1>6. \A u \in Thread : cur[u] \subseteq cur'[u]
  BY <1>1 DEF ReadModifyWrite, MemType, Observe
<1>7. Quiet
  BY <1>4, <1>5, <1>6, Appending
<1> QED
  BY <1>4, <1>7, Locations DEF Appended

(* The mutex is free when it is locked, and its new holder knows it.       *)
LEMMA Locking ==
  ASSUME QueueInv, NEW t \in Thread, LockGuard(t)
  PROVE  /\ Quiet /\ \A u \in Thread : ~Holds(u)
         /\ Current(Guard)' # 0 /\ <<Guard, Newest(Guard)'>> \in cur'[t]
<1>1. MemType(SPSCLoc, Value) /\ Newest(Guard) \in Nat /\ Guard \in SPSCLoc /\ 1 \in Value
  BY Basics, Locations DEF Value
<1>2. Current(Guard) = 0 /\ ReadModifyWrite(t, Guard, Newest(Guard), 1, acquire)
  BY DEF LockGuard, Current
<1>3. /\ Appended(SPSCLoc, Guard)
      /\ hist'[Guard][Newest(Guard) + 1].id = Newest(Guard) + 1
      /\ hist'[Guard][Newest(Guard) + 1].val = 1
  BY <1>1, <1>2, ReadModifyWriteAtEnd
<1>4. MemType(SPSCLoc, Value)'
  BY <1>1, <1>2, ReadModifyWriteType
<1>5. cur' = [cur EXCEPT ![t] = Observe(t, Guard, Newest(Guard), acquire) \cup {NextEvent(Guard)}]
  BY <1>2 DEF ReadModifyWrite
<1>6. \A u \in Thread : cur[u] \subseteq cur'[u]
  BY <1>1, <1>5 DEF MemType, Observe
<1>7. Quiet /\ Newest(Guard)' = Newest(Guard) + 1 /\ Current(Guard)' = 1
  BY <1>3, <1>4, <1>6, Locations, Appending
<1>8. <<Guard, Newest(Guard) + 1>> \in cur'[t]
  BY <1>1, <1>5 DEF MemType, NextEvent
<1> QED
  BY <1>2, <1>7, <1>8 DEF QueueInv, Locked, Current, Val

(* Who holds the mutex unlocks it with the next message.                   *)
LEMMA Unlocking ==
  ASSUME QueueInv, NEW t \in Thread, Holds(t), UnlockGuard(t)
  PROVE  Quiet
<1>1. MemType(SPSCLoc, Value) /\ Newest(Guard) \in Nat /\ Guard \in SPSCLoc /\ 0 \in Value
  BY Basics, Locations DEF Value
<1>2. Event(Guard, Newest(Guard)) \in cur[t]
  BY <1>1, Basics DEF QueueInv, Locked
<1>3. Store(t, Guard, 0, release)
  BY DEF UnlockGuard
<1>4. /\ Appended(SPSCLoc, Guard)
      /\ hist'[Guard][Newest(Guard) + 1].id = Newest(Guard) + 1
      /\ hist'[Guard][Newest(Guard) + 1].val = 0
      /\ cur'[t] = cur[t] \cup Upto(Guard, Newest(Guard)) \cup {NextEvent(Guard)}
      /\ \A u \in Thread \ {t} : cur'[u] = cur[u]
  BY <1>1, <1>2, <1>3, StoreAtEnd
<1>5. MemType(SPSCLoc, Value)'
  BY <1>1, <1>3, StoreType
<1>6. \A u \in Thread : cur[u] \subseteq cur'[u]
  BY <1>4
<1> QED
  BY <1>4, <1>5, <1>6, Locations, Appending

-----------------------------------------------------------------------------
(* Steps that leave the list alone, and who holds the mutex after them.    *)
LEMMA SameNodes ==
  ASSUME QueueInv, Quiet, UNCHANGED <<head, enqueues>>, n'[Producer] = n[Producer],
         pc'[Producer] = pc[Producer] \/ (~Making /\ ~Making')
  PROVE  List' /\ Links'
<1>1. cur[Producer] \subseteq cur'[Producer]
  BY Constants DEF Quiet
<1>2. \A k \in Node : /\ Newest(NextOf(k))' = Newest(NextOf(k))
                      /\ Newest(DataOf(k))' = Newest(DataOf(k))
                      /\ hist'[NextOf(k)] = hist[NextOf(k)]
                      /\ \A i : Val(NextOf(k), i)' = Val(NextOf(k), i)
                      /\ Current(DataOf(k))' = Current(DataOf(k))
  BY DEF Quiet, Newest, Val, Current
<1>3. (pc'[Producer] = "link" <=> pc[Producer] = "link") /\ Making' = Making
  BY DEF Making
<1>4. \A k \in Node : /\ NextLength(k)' = NextLength(k) /\ DataLength(k)' = DataLength(k)
                      /\ \A i : NextValue(k, i)' = NextValue(k, i)
                      /\ Knows(Producer, NextOf(k))' /\ Knows(Producer, DataOf(k))'
  BY <1>1, <1>2, <1>3 DEF NextLength, DataLength, NextValue, Knows, QueueInv, List, Ready
<1>5. ASSUME NEW k \in Node
      PROVE  /\ Newest(NextOf(k))' = NextLength(k)'
             /\ \A i \in 1..Newest(NextOf(k))' : Val(NextOf(k), i)' = NextValue(k, i)'
             /\ Newest(DataOf(k))' = DataLength(k)'
             /\ k <= enqueues' => Current(DataOf(k))' = k
  BY <1>2, <1>4 DEF QueueInv, List
<1>6. /\ enqueues' \in 0..MaxEnqueues /\ head' \in 0..enqueues'
      /\ head' = (IF Making' THEN enqueues' - 1 ELSE enqueues')
      /\ Making' => n'[Producer] = enqueues'
  BY <1>3 DEF QueueInv, List
<1>7. Links'
  BY <1>2 DEF QueueInv, Links, Made, Ready
<1> QED
  BY <1>4, <1>5, <1>6, <1>7 DEF List

LEMMA SameList ==
  ASSUME QueueInv, Quiet, UNCHANGED queueVars,
         pc'[Producer] = pc[Producer] \/ (~Making /\ ~Making'),
         \/ pc'[Consumer] = pc[Consumer]
         \/ pc[Consumer] \notin {"idle", "data"} /\ pc'[Consumer] \notin {"idle", "data"}
  PROVE  List' /\ Links' /\ Reading'
<1>1. /\ head' = head /\ tail' = tail /\ n' = n /\ deleted' = deleted
      /\ enqueues' = enqueues /\ dequeues' = dequeues /\ out' = out
  BY DEF queueVars
<1>2. List' /\ Links'
  BY <1>1, SameNodes
<1>3. Reading'
  BY <1>1, Constants DEF QueueInv, Reading, Made, Ready, Quiet
<1> QED
  BY <1>2, <1>3

LEMMA EventCountStep ==
  ASSUME QueueInv, Quiet, UNCHANGED queueVars, DOMAIN pc' = Thread,
         \/ pc'[Producer] = pc[Producer]
         \/ ~Making /\ pc'[Producer] \in ProducerLabel \ {"newNext", "link"},
         \/ pc'[Consumer] = pc[Consumer]
         \/ /\ pc[Consumer] \notin {"idle", "data"}
            /\ pc'[Consumer] \in ConsumerLabel \ {"idle", "data"},
         cmp' \in [Thread -> CountValue], waiters' \in Nat, Locked', Sleeping'
  PROVE  QueueInv'
<1>1. List' /\ Links' /\ Reading'
  BY SameList DEF Making
<1>2. QueueTypes'
  BY DEF QueueInv, QueueTypes, Quiet, queueVars
<1> QED
  BY <1>1, <1>2 DEF QueueInv, Quiet

LEMMA SameHolder ==
  ASSUME QueueInv, Quiet, hist'[Guard] = hist[Guard], \A t \in Thread : Holds(t)' => Holds(t)
  PROVE  Locked'
<1>1. Current(Guard)' = Current(Guard) /\ Newest(Guard)' = Newest(Guard)
  BY DEF Current, Val, Newest
<1> QED
  BY <1>1, Constants DEF QueueInv, Locked, Quiet

LEMMA NewHolder ==
  ASSUME QueueInv, NEW t \in Thread, LockGuard(t), \A u \in Thread \ {t} : pc'[u] = pc[u]
  PROVE  Locked' /\ Quiet
<1>1. /\ Quiet /\ \A u \in Thread : ~Holds(u)
      /\ Current(Guard)' # 0 /\ <<Guard, Newest(Guard)'>> \in cur'[t]
  BY Locking
<1>2. \A u \in Thread \ {t} : ~Holds(u)'
  BY <1>1 DEF Holds
<1> QED
  BY <1>1, <1>2, Constants DEF Locked

LEMMA NoHolder ==
  ASSUME QueueInv, NEW t \in Thread, Holds(t), UnlockGuard(t), ~Holds(t)',
         \A u \in Thread \ {t} : pc'[u] = pc[u]
  PROVE  Locked' /\ Quiet
<1>1. Quiet
  BY Unlocking
<1>2. \A u \in Thread : ~Holds(u)'
  BY Constants DEF QueueInv, Locked, Holds
<1> QED
  BY <1>1, <1>2, Constants DEF Locked

(* The actions of signal().                                                *)
LEMMA SignalStep ==
  ASSUME QueueInv, Signal(Producer, "idle"), UNCHANGED queueVars
  PROVE  QueueInv'
<1>0. /\ Producer \in Thread /\ Consumer \in Thread /\ Producer # Consumer
      /\ DOMAIN pc = Thread /\ pc[Producer] \in ProducerLabel /\ pc[Consumer] \in ConsumerLabel
      /\ cmp \in [Thread -> CountValue] /\ waiters \in Nat
      /\ \A i \in 1..Newest(Count) : Val(Count, i) \in CountValue
      /\ Count \in SPSCLoc
  BY Constants, Locations DEF QueueInv, QueueTypes
<1>1. CASE Signal_FetchAdd(Producer, "idle")
  <2>1. PICK i \in Extendable(Producer, Count, OrderSignal) :
          /\ ReadModifyWrite(Producer, Count, i, Val(Count, i), OrderSignal)
          /\ cmp' = [cmp EXCEPT ![Producer] = Val(Count, i)]
          /\ MoveTo(Producer, IF Val(Count, i).flag THEN "signalLock" ELSE "idle")
    BY <1>1 DEF Signal_FetchAdd
  <2>2. Val(Count, i) \in CountValue
    BY <1>0, <2>1, ExtendableRange
  <2>3. Quiet /\ hist'[Guard] = hist[Guard]
    BY <1>0, <2>1, <2>2, Counting
  <2>4. /\ pc[Producer] = "signal" /\ DOMAIN pc' = Thread
        /\ pc'[Producer] \in {"signalLock", "idle"} /\ pc'[Consumer] = pc[Consumer]
        /\ waiters' = waiters
    BY <1>0, <1>1, <2>1 DEF Signal_FetchAdd, MoveTo
  <2>5. Locked'
    BY <1>0, <2>3, <2>4, SameHolder, Constants DEF Holds
  <2>6. Sleeping'
    BY <2>4 DEF QueueInv, Sleeping
  <2>7. cmp' \in [Thread -> CountValue]
    BY <1>0, <2>1, <2>2
  <2> QED
    BY <1>0, <2>3, <2>4, <2>5, <2>6, <2>7, EventCountStep DEF Making, ProducerLabel
<1>2. CASE Signal_Lock(Producer)
  <2>1. /\ pc[Producer] = "signalLock" /\ DOMAIN pc' = Thread
        /\ pc'[Producer] = "signalCAS" /\ pc'[Consumer] = pc[Consumer]
        /\ waiters' = waiters /\ cmp' = cmp /\ LockGuard(Producer)
    BY <1>0, <1>2 DEF Signal_Lock, Goto, MoveTo, ecVars
  <2>2. Locked' /\ Quiet
    BY <1>0, <2>1, NewHolder, Constants
  <2>3. Sleeping'
    BY <2>1 DEF QueueInv, Sleeping
  <2> QED
    BY <1>0, <2>1, <2>2, <2>3, EventCountStep DEF Making, ProducerLabel
<1>3. CASE Signal_CAS(Producer)
  <2>1. PICK i \in Extendable(Producer, Count, OrderSignalCAS) :
          ReadModifyWrite(Producer, Count, i, CountOf((cmp[Producer].n + 1) % CountRange, FALSE),
                          OrderSignalCAS)
    BY <1>3 DEF Signal_CAS
  <2>2. CountOf((cmp[Producer].n + 1) % CountRange, FALSE) \in CountValue
    <3>1. cmp[Producer].n \in Nat
      BY <1>0, Constants DEF CountValue
    <3>2. (cmp[Producer].n + 1) % CountRange \in 0..(CountRange - 1)
      BY <3>1, Constants
    <3> QED
      BY <3>2 DEF CountValue, CountOf
  <2>3. Quiet /\ hist'[Guard] = hist[Guard]
    BY <1>0, <2>1, <2>2, Counting
  <2>4. /\ pc[Producer] = "signalCAS" /\ DOMAIN pc' = Thread
        /\ pc'[Producer] = "signalUnlock" /\ pc'[Consumer] = pc[Consumer]
        /\ waiters' = waiters /\ cmp' = cmp
    BY <1>0, <1>3 DEF Signal_CAS, Goto, MoveTo, ecVars
  <2>5. Locked'
    BY <1>0, <2>3, <2>4, SameHolder, Constants DEF Holds
  <2>6. Sleeping'
    BY <2>4 DEF QueueInv, Sleeping
  <2> QED
    BY <1>0, <2>3, <2>4, <2>5, <2>6, EventCountStep DEF Making, ProducerLabel
<1>4. CASE Signal_CASFails(Producer)
  <2>1. PICK i \in Readable(Producer, Count, OrderSignalCAS) :
          /\ Load(Producer, Count, i, OrderSignalCAS)
          /\ cmp' = [cmp EXCEPT ![Producer] = Val(Count, i)]
    BY <1>4 DEF Signal_CASFails
  <2>2. hist' = hist /\ Quiet /\ i \in 1..Newest(Count)
    BY <1>0, <2>1, Loading
  <2>3. pc[Producer] = "signalCAS" /\ pc' = pc /\ waiters' = waiters
    BY <1>4 DEF Signal_CASFails
  <2>4. Locked' /\ Sleeping'
    <3>1. \A t \in Thread : Holds(t)' => Holds(t)
      BY <2>3 DEF Holds
    <3> QED
      BY <2>2, <2>3, <3>1, SameHolder DEF QueueInv, Sleeping
  <2>5. cmp' \in [Thread -> CountValue]
    BY <1>0, <2>1, <2>2
  <2> QED
    BY <1>0, <2>2, <2>3, <2>4, <2>5, EventCountStep
<1>5. CASE Signal_Unlock(Producer, "idle")
  <2>1. /\ pc[Producer] = "signalUnlock" /\ DOMAIN pc' = Thread
        /\ pc'[Producer] = (IF waiters > 0 THEN "notify" ELSE "idle") /\ pc'[Consumer] = pc[Consumer]
        /\ waiters' = 0 /\ cmp' = cmp /\ UnlockGuard(Producer)
    BY <1>0, <1>5 DEF Signal_Unlock, Goto, MoveTo
  <2>2. Holds(Producer) /\ ~Holds(Producer)'
    BY <2>1 DEF Holds
  <2>3. Locked' /\ Quiet
    BY <1>0, <2>1, <2>2, NoHolder, Constants
  <2>4. Sleeping'
    <3>1. pc[Consumer] # "sleep"
      BY <2>2 DEF QueueInv, Locked, Holds
    <3> QED
      BY <1>0, <2>1, <3>1 DEF QueueInv, Sleeping
  <2> QED
    BY <1>0, <2>1, <2>3, <2>4, EventCountStep DEF Making, ProducerLabel
<1>6. CASE Signal_Notify(Producer, "idle")
  <2>1. /\ pc[Producer] = "notify" /\ DOMAIN pc' = Thread /\ pc'[Producer] = "idle"
        /\ pc'[Consumer] = (IF pc[Consumer] = "asleep" THEN "relock" ELSE pc[Consumer])
        /\ waiters' = waiters /\ cmp' = cmp /\ UNCHANGED memVars
    BY <1>0, <1>6 DEF Signal_Notify, ecVars
  <2>2. Quiet /\ hist' = hist
    BY <2>1 DEF memVars, QueueInv, QueueTypes, Chain, Quiet, MemType, Linear, Newest, Val
  <2>3. Locked'
    <3>1. \A t \in Thread : Holds(t)' => Holds(t)
      BY <2>1, Constants DEF Holds
    <3> QED
      BY <2>2, <3>1, SameHolder
  <2>4. Sleeping'
    BY <2>1 DEF QueueInv, Sleeping
  <2> QED
    BY <1>0, <2>1, <2>2, <2>3, <2>4, EventCountStep DEF Making, ProducerLabel, ConsumerLabel
<1> QED
  BY <1>1, <1>2, <1>3, <1>4, <1>5, <1>6 DEF Signal

(* get() and the actions of wait().                                        *)
LEMMA WaitStep ==
  ASSUME QueueInv, Get(Consumer, "tryAgain") \/ Wait(Consumer, "awake"), UNCHANGED queueVars
  PROVE  QueueInv'
<1>0. /\ Producer \in Thread /\ Consumer \in Thread /\ Producer # Consumer
      /\ DOMAIN pc = Thread /\ pc[Producer] \in ProducerLabel /\ pc[Consumer] \in ConsumerLabel
      /\ cmp \in [Thread -> CountValue] /\ waiters \in Nat
      /\ \A i \in 1..Newest(Count) : Val(Count, i) \in CountValue
      /\ Count \in SPSCLoc
  BY Constants, Locations DEF QueueInv, QueueTypes
<1>1. CASE Get(Consumer, "tryAgain")
  <2>1. PICK i \in Extendable(Consumer, Count, OrderGet) :
          /\ ReadModifyWrite(Consumer, Count, i, CountOf(Val(Count, i).n, TRUE), OrderGet)
          /\ cmp' = [cmp EXCEPT ![Consumer] = CountOf(Val(Count, i).n, FALSE)]
    BY <1>1 DEF Get
  <2>2. /\ CountOf(Val(Count, i).n, TRUE) \in CountValue
        /\ CountOf(Val(Count, i).n, FALSE) \in CountValue
    <3>1. Val(Count, i) \in CountValue
      BY <1>0, <2>1, ExtendableRange
    <3> QED
      BY <3>1 DEF CountValue, CountOf
  <2>3. Quiet /\ hist'[Guard] = hist[Guard]
    BY <1>0, <2>1, <2>2, Counting
  <2>4. /\ pc[Consumer] = "get" /\ DOMAIN pc' = Thread
        /\ pc'[Consumer] = "tryAgain" /\ pc'[Producer] = pc[Producer]
        /\ waiters' = waiters
    BY <1>0, <1>1 DEF Get, Goto, MoveTo
  <2>5. Locked'
    BY <1>0, <2>3, <2>4, SameHolder, Constants DEF Holds
  <2>6. Sleeping'
    BY <2>4 DEF Sleeping
  <2>7. cmp' \in [Thread -> CountValue]
    BY <1>0, <2>1, <2>2
  <2> QED
    BY <1>0, <2>3, <2>4, <2>5, <2>6, <2>7, EventCountStep DEF ConsumerLabel
<1>2. CASE Wait_Load(Consumer, "awake")
  <2>1. PICK i \in Readable(Consumer, Count, OrderWait) :
          /\ Load(Consumer, Count, i, OrderWait)
          /\ MoveTo(Consumer, IF Val(Count, i).n = cmp[Consumer].n THEN "waitLock" ELSE "awake")
    BY <1>2 DEF Wait_Load
  <2>2. hist' = hist /\ Quiet
    BY <1>0, <2>1, Loading
  <2>3. /\ pc[Consumer] = "wait" /\ DOMAIN pc' = Thread
        /\ pc'[Consumer] \in {"waitLock", "awake"} /\ pc'[Producer] = pc[Producer]
        /\ waiters' = waiters /\ cmp' = cmp
    BY <1>0, <1>2, <2>1 DEF Wait_Load, MoveTo, ecVars
  <2>4. Locked'
    <3>1. \A t \in Thread : Holds(t)' => Holds(t)
      BY <2>3, Constants DEF Holds
    <3> QED
      BY <2>2, <3>1, SameHolder
  <2>5. Sleeping'
    BY <2>3 DEF Sleeping
  <2> QED
    BY <1>0, <2>2, <2>3, <2>4, <2>5, EventCountStep DEF ConsumerLabel
<1>3. CASE Wait_Lock(Consumer)
  <2>1. /\ pc[Consumer] = "waitLock" /\ DOMAIN pc' = Thread
        /\ pc'[Consumer] = "recheck" /\ pc'[Producer] = pc[Producer]
        /\ waiters' = waiters /\ cmp' = cmp /\ LockGuard(Consumer)
    BY <1>0, <1>3 DEF Wait_Lock, Goto, MoveTo, ecVars
  <2>2. Locked' /\ Quiet
    BY <1>0, <2>1, NewHolder, Constants
  <2>3. Sleeping'
    BY <2>1 DEF Sleeping
  <2> QED
    BY <1>0, <2>1, <2>2, <2>3, EventCountStep DEF ConsumerLabel
<1>4. CASE Wait_Recheck(Consumer)
  <2>1. PICK i \in Readable(Consumer, Count, OrderWait) :
          /\ Load(Consumer, Count, i, OrderWait)
          /\ LET again == Val(Count, i).n = cmp[Consumer].n
             IN  /\ MoveTo(Consumer, IF again THEN "sleep" ELSE "waitUnlock")
                 /\ waiters' = IF again THEN waiters + 1 ELSE waiters
    BY <1>4 DEF Wait_Recheck
  <2>2. hist' = hist /\ Quiet
    BY <1>0, <2>1, Loading
  <2>3. /\ pc[Consumer] = "recheck" /\ DOMAIN pc' = Thread
        /\ \/ pc'[Consumer] = "sleep" /\ waiters' = waiters + 1
           \/ pc'[Consumer] = "waitUnlock" /\ waiters' = waiters
        /\ pc'[Producer] = pc[Producer] /\ cmp' = cmp
    BY <1>0, <1>4, <2>1 DEF Wait_Recheck, MoveTo
  <2>4. Locked'
    <3>1. \A t \in Thread : Holds(t)' => Holds(t)
      BY <2>3, Constants DEF Holds
    <3> QED
      BY <2>2, <3>1, SameHolder
  <2>5. Sleeping' /\ waiters' \in Nat
    BY <1>0, <2>3 DEF Sleeping
  <2> QED
    BY <1>0, <2>2, <2>3, <2>4, <2>5, EventCountStep DEF ConsumerLabel
<1>5. CASE Wait_Sleep(Consumer)
  <2>1. /\ pc[Consumer] = "sleep" /\ DOMAIN pc' = Thread
        /\ pc'[Consumer] = "asleep" /\ pc'[Producer] = pc[Producer]
        /\ waiters' = waiters /\ cmp' = cmp /\ UnlockGuard(Consumer)
    BY <1>0, <1>5 DEF Wait_Sleep, Goto, MoveTo, ecVars
  <2>2. Holds(Consumer) /\ ~Holds(Consumer)'
    BY <2>1 DEF Holds
  <2>3. Locked' /\ Quiet
    BY <1>0, <2>1, <2>2, NoHolder, Constants
  <2>4. Sleeping'
    BY <2>1 DEF QueueInv, Sleeping
  <2> QED
    BY <1>0, <2>1, <2>3, <2>4, EventCountStep DEF ConsumerLabel
<1>6. CASE Wait_WakeSpuriously(Consumer)
  <2>1. /\ pc[Consumer] = "asleep" /\ DOMAIN pc' = Thread
        /\ pc'[Consumer] = "relock" /\ pc'[Producer] = pc[Producer]
        /\ waiters' = waiters /\ cmp' = cmp /\ UNCHANGED memVars
    BY <1>0, <1>6 DEF Wait_WakeSpuriously, Goto, MoveTo
  <2>2. Quiet /\ hist' = hist
    BY <2>1 DEF memVars, QueueInv, QueueTypes, Chain, Quiet, MemType, Linear, Newest, Val
  <2>3. Locked'
    <3>1. \A t \in Thread : Holds(t)' => Holds(t)
      BY <2>1, Constants DEF Holds
    <3> QED
      BY <2>2, <3>1, SameHolder
  <2>4. Sleeping'
    BY <2>1 DEF Sleeping
  <2> QED
    BY <1>0, <2>1, <2>2, <2>3, <2>4, EventCountStep DEF ConsumerLabel
<1>7. CASE Wait_Relock(Consumer)
  <2>1. /\ pc[Consumer] = "relock" /\ DOMAIN pc' = Thread
        /\ pc'[Consumer] = "waitUnlock" /\ pc'[Producer] = pc[Producer]
        /\ waiters' = waiters /\ cmp' = cmp /\ LockGuard(Consumer)
    BY <1>0, <1>7 DEF Wait_Relock, Goto, MoveTo, ecVars
  <2>2. Locked' /\ Quiet
    BY <1>0, <2>1, NewHolder, Constants
  <2>3. Sleeping'
    BY <2>1 DEF Sleeping
  <2> QED
    BY <1>0, <2>1, <2>2, <2>3, EventCountStep DEF ConsumerLabel
<1>8. CASE Wait_Unlock(Consumer, "awake")
  <2>1. /\ pc[Consumer] = "waitUnlock" /\ DOMAIN pc' = Thread
        /\ pc'[Consumer] = "awake" /\ pc'[Producer] = pc[Producer]
        /\ waiters' = waiters /\ cmp' = cmp /\ UnlockGuard(Consumer)
    BY <1>0, <1>8 DEF Wait_Unlock, Goto, MoveTo, ecVars
  <2>2. Holds(Consumer) /\ ~Holds(Consumer)'
    BY <2>1 DEF Holds
  <2>3. Locked' /\ Quiet
    BY <1>0, <2>1, <2>2, NoHolder, Constants
  <2>4. Sleeping'
    BY <2>1 DEF Sleeping
  <2> QED
    BY <1>0, <2>1, <2>3, <2>4, EventCountStep DEF ConsumerLabel
<1> QED
  BY <1>1, <1>2, <1>3, <1>4, <1>5, <1>6, <1>7, <1>8 DEF Wait

-----------------------------------------------------------------------------
(* The stores of enqueue() go to fields the producer knows.                *)
LEMMA Storing ==
  ASSUME QueueInv, NEW k \in Node, NEW x \in {NextOf(k), DataOf(k)}, NEW v \in Value, NEW ord,
         Store(Producer, x, v, ord), DOMAIN pc' = Thread, pc'[Consumer] = pc[Consumer],
         pc'[Producer] \in ProducerLabel, ~Holds(Producer)',
         pc[Producer] # "notify", UNCHANGED ecVars, DOMAIN n' = Thread
  PROVE  /\ QueueTypes' /\ Chain' /\ Locked' /\ Sleeping'
         /\ Newest(x) \in Nat /\ Newest(x)' = Newest(x) + 1
         /\ \A j \in 1..Newest(x) : hist'[x][j] = hist[x][j]
         /\ hist'[x][Newest(x) + 1].val = v
         /\ hist'[x][Newest(x) + 1].view = Released(Producer, ord)
         /\ \A y \in SPSCLoc \ {x} : hist'[y] = hist[y]
         /\ \A t \in Thread : cur[t] \subseteq cur'[t]
         /\ \A y \in SPSCLoc : Knows(Producer, y) => Knows(Producer, y)'
<1>1. /\ MemType(SPSCLoc, Value) /\ x \in SPSCLoc \ {Count, Guard}
      /\ Newest(x) \in Nat /\ Newest(x) >= 1
      /\ \A y \in SPSCLoc : Linear(y)
      /\ Producer \in Thread /\ Consumer \in Thread /\ Thread = {Producer, Consumer}
  BY Basics, Locations, Constants
<1>2. Knows(Producer, x) /\ Event(x, Newest(x)) \in cur[Producer]
  <2>1. Knows(Producer, x)
    BY DEF QueueInv, List
  <2>2. <<x, Newest(x)>> \in cur[Producer]
    BY <1>1, <2>1 DEF Knows
  <2> QED
    BY <1>1, <2>1, <2>2, Basics
<1>3. /\ Appended(SPSCLoc, x)
      /\ hist'[x][Newest(x) + 1].id = Newest(x) + 1
      /\ hist'[x][Newest(x) + 1].val = v
      /\ hist'[x][Newest(x) + 1].view = Released(Producer, ord)
      /\ cur'[Producer] = cur[Producer] \cup Upto(x, Newest(x)) \cup {NextEvent(x)}
      /\ \A u \in Thread \ {Producer} : cur'[u] = cur[u]
  BY <1>1, <1>2, StoreAtEnd
<1>4. MemType(SPSCLoc, Value)'
  BY <1>1, StoreType
<1>5. \A t \in Thread : cur[t] \subseteq cur'[t]
  BY <1>3
<1>6. /\ Newest(x)' = Newest(x) + 1
      /\ \A j \in 1..Newest(x) : hist'[x][j] = hist[x][j]
      /\ \A y \in SPSCLoc \ {x} : hist'[y] = hist[y]
      /\ hist'[Count] = hist[Count] /\ hist'[Guard] = hist[Guard]
  BY <1>1, <1>3, Locations DEF Appended, Newest
<1>7. QueueTypes'
  BY <1>4, <1>6 DEF QueueInv, QueueTypes, ecVars, Newest, Val
<1>8. Chain'
  <2>1. \A y \in SPSCLoc : Linear(y)'
    BY <1>1, <1>3, AppendedLinear
  <2> QED
    BY <1>6, <2>1 DEF QueueInv, Chain, Newest
<1>9. Locked'
  <2>1. Current(Guard)' = Current(Guard) /\ Newest(Guard)' = Newest(Guard)
    BY <1>6 DEF Current, Val, Newest
  <2>2. Holds(Consumer)' => Holds(Consumer)
    BY DEF Holds
  <2> QED
    BY <1>1, <1>5, <2>1, <2>2 DEF QueueInv, Locked
<1>10. Sleeping'
  BY DEF QueueInv, Sleeping, ecVars
<1>11. \A y \in SPSCLoc : Knows(Producer, y) => Knows(Producer, y)'
  <2>1. ASSUME NEW y \in SPSCLoc, Knows(Producer, y), y # x
        PROVE  Knows(Producer, y)'
    BY <1>1, <1>5, <1>6, <2>1 DEF Knows, Newest
  <2>2. Knows(Producer, x)'
    <3>1. \A j \in 1..(Newest(x) + 1) : j \in 1..Newest(x) \/ j = Newest(x) + 1
      BY <1>1
    <3> QED
      BY <1>2, <1>3, <1>6, <3>1 DEF Knows, NextEvent
  <2> QED
    BY <2>1, <2>2
<1> QED
  BY <1>1, <1>3, <1>5, <1>6, <1>7, <1>8, <1>9, <1>10, <1>11

(* What the invariant says of the numbers.                                 *)
LEMMA Numbers ==
  ASSUME QueueInv
  PROVE  /\ enqueues \in Nat /\ enqueues <= MaxEnqueues /\ enqueues \in Node
         /\ head \in Nat /\ head <= enqueues /\ head \in Node
         /\ tail \in Nat /\ tail <= head /\ tail \in Node
         /\ Making => head = enqueues - 1 /\ n[Producer] = enqueues
         /\ ~Making => head = enqueues
         /\ \A k \in Node : k \in Nat /\ k <= MaxEnqueues
         /\ \A k \in Nat : k <= enqueues => k \in Node
         /\ Producer \in Thread /\ Consumer \in Thread /\ Producer # Consumer
         /\ DOMAIN pc = Thread /\ DOMAIN n = Thread
BY Constants DEF QueueInv, List, Reading, QueueTypes

LEMMA NewDataStep ==
  ASSUME QueueInv, Enqueue_NewData
  PROVE  QueueInv'
<1>0. PICK e : e = enqueues + 1
  OBVIOUS
<1>9. PICK x : x = DataOf(e)
  OBVIOUS
<1>1. /\ pc[Producer] = "idle" /\ DOMAIN pc' = Thread
      /\ pc'[Producer] = "newNext" /\ pc'[Consumer] = pc[Consumer]
      /\ enqueues < MaxEnqueues /\ enqueues' = e
      /\ DOMAIN n' = Thread /\ n'[Producer] = e /\ n'[Consumer] = n[Consumer]
      /\ Store(Producer, x, e, relaxed) /\ UNCHANGED ecVars
      /\ head' = head /\ tail' = tail /\ deleted' = deleted /\ dequeues' = dequeues /\ out' = out
  BY <1>0, <1>9, Numbers DEF Enqueue_NewData, Goto, MoveTo
<1>2. /\ e \in Node /\ e \in Value /\ e \in Nat /\ head = enqueues /\ ~Making /\ Making'
      /\ \A k \in Node : k = e \/ k <= enqueues \/ k > e
  BY <1>0, <1>1, Numbers, Constants DEF Value, Making
<1>3. x \in {NextOf(e), DataOf(e)} /\ x \in SPSCLoc /\ x = DataOf(e)
  BY <1>2, <1>9, Locations
<1>4. /\ QueueTypes' /\ Chain' /\ Locked' /\ Sleeping'
      /\ Newest(x) \in Nat /\ Newest(x)' = Newest(x) + 1
      /\ hist'[x][Newest(x) + 1].val = e
      /\ \A y \in SPSCLoc \ {x} : hist'[y] = hist[y]
      /\ \A t \in Thread : cur[t] \subseteq cur'[t]
      /\ \A y \in SPSCLoc : Knows(Producer, y) => Knows(Producer, y)'
  <2>1. /\ pc'[Producer] \in ProducerLabel /\ ~Holds(Producer)' /\ pc[Producer] # "notify"
        /\ DOMAIN n' = Thread
    BY <1>1, Numbers DEF ProducerLabel, Holds
  <2> QED
    BY <1>1, <1>2, <1>3, <2>1, Storing
<1>5. \A k \in Node : NextOf(k) \in SPSCLoc \ {x} /\ (k # e => DataOf(k) \in SPSCLoc \ {x})
  BY <1>2, <1>3, Locations
<1>6. List'
  <2>1. ASSUME NEW k \in Node
        PROVE  /\ Newest(NextOf(k))' = NextLength(k)'
               /\ \A i \in 1..Newest(NextOf(k))' : Val(NextOf(k), i)' = NextValue(k, i)'
    <3>1. NextLength(k)' = NextLength(k)
      BY <1>1 DEF NextLength, Ready
    <3>2. hist'[NextOf(k)] = hist[NextOf(k)]
      BY <1>4, <1>5
    <3> QED
      BY <3>1, <3>2 DEF QueueInv, List, Newest, Val, NextValue, Ready
  <2>2. ASSUME NEW k \in Node
        PROVE  Newest(DataOf(k))' = DataLength(k)' /\ (k <= enqueues' => Current(DataOf(k))' = k)
    <3>1. CASE k = e
      <4>1. Newest(x) = 1
        BY <1>0, <1>2, <1>3, Numbers DEF QueueInv, List, DataLength
      <4>2. DataLength(k)' = 2
        <5>1. k # 0 /\ ~(k > enqueues')
          BY <1>0, <1>1, <1>2, <3>1, Numbers
        <5> QED
          BY <5>1 DEF DataLength
      <4>3. Newest(x)' = 2 /\ hist'[x][2].val = e
        BY <1>4, <4>1
      <4>4. Current(x)' = e
        BY <4>3 DEF Current, Val
      <4> QED
        BY <1>3, <3>1, <4>2, <4>3, <4>4
    <3>2. CASE k # e
      <4>1. hist'[DataOf(k)] = hist[DataOf(k)]
        BY <1>4, <1>5, <3>2
      <4>2. DataLength(k)' = DataLength(k)
        BY <1>0, <1>1, <1>2, <3>2, Numbers DEF DataLength
      <4>3. k <= enqueues' => k <= enqueues
        BY <1>0, <1>1, <1>2, <3>2, Numbers
      <4> QED
        BY <4>1, <4>2, <4>3 DEF QueueInv, List, Newest, Current, Val
    <3> QED
      BY <3>1, <3>2
  <2>3. \A k \in Node : Knows(Producer, NextOf(k))' /\ Knows(Producer, DataOf(k))'
    BY <1>4, Locations DEF QueueInv, List
  <2>4. /\ enqueues' \in 0..MaxEnqueues /\ head' \in 0..enqueues' /\ head' = enqueues' - 1
        /\ n'[Producer] = enqueues'
    BY <1>0, <1>1, <1>2, Numbers, Constants
  <2> QED
    BY <1>2, <2>1, <2>2, <2>3, <2>4 DEF List
<1>7. Links'
  BY <1>1, <1>4, <1>5 DEF QueueInv, Links, Made, Ready
<1>8. Reading'
  BY <1>1, <1>4, Numbers DEF QueueInv, Reading, Made, Ready
<1> QED
  BY <1>4, <1>6, <1>7, <1>8 DEF QueueInv

LEMMA NewNextStep ==
  ASSUME QueueInv, Enqueue_NewNext
  PROVE  QueueInv'
<1>0. PICK e : e = enqueues
  OBVIOUS
<1>9. PICK x : x = NextOf(e)
  OBVIOUS
<1>1. /\ pc[Producer] = "newNext" /\ DOMAIN pc' = Thread
      /\ pc'[Producer] = "link" /\ pc'[Consumer] = pc[Consumer]
      /\ Store(Producer, NextOf(n[Producer]), null, seq_cst) /\ UNCHANGED ecVars
      /\ enqueues' = enqueues /\ n' = n
      /\ head' = head /\ tail' = tail /\ deleted' = deleted /\ dequeues' = dequeues /\ out' = out
  BY Numbers DEF Enqueue_NewNext, Goto, MoveTo, queueVars
<1>2. /\ e \in Node /\ null \in Value /\ head = e - 1 /\ n[Producer] = e /\ e >= 1
      /\ Making /\ Making'
  BY <1>0, <1>1, Numbers, Constants DEF Value, Making
<1>3. x \in {NextOf(e), DataOf(e)} /\ x \in SPSCLoc /\ x = NextOf(e)
  BY <1>2, <1>9, Locations
<1>4. /\ QueueTypes' /\ Chain' /\ Locked' /\ Sleeping'
      /\ Newest(x) \in Nat /\ Newest(x)' = Newest(x) + 1
      /\ \A j \in 1..Newest(x) : hist'[x][j] = hist[x][j]
      /\ hist'[x][Newest(x) + 1].val = null
      /\ \A y \in SPSCLoc \ {x} : hist'[y] = hist[y]
      /\ \A t \in Thread : cur[t] \subseteq cur'[t]
      /\ \A y \in SPSCLoc : Knows(Producer, y) => Knows(Producer, y)'
  <2>2. x \in SPSCLoc /\ Store(Producer, x, null, seq_cst)
    BY <1>1, <1>2, <1>3
  <2>1. /\ pc'[Producer] \in ProducerLabel /\ ~Holds(Producer)' /\ pc[Producer] # "notify"
        /\ DOMAIN n' = Thread
    BY <1>1, Numbers DEF ProducerLabel, Holds
  <2> QED
    BY <1>1, <1>2, <1>3, <2>1, <2>2, Storing
<1>5. \A k \in Node : DataOf(k) \in SPSCLoc \ {x} /\ (k # e => NextOf(k) \in SPSCLoc \ {x})
  BY <1>2, <1>3, Locations
<1>6. List'
  <2>1. ASSUME NEW k \in Node
        PROVE  /\ Newest(NextOf(k))' = NextLength(k)'
               /\ \A i \in 1..Newest(NextOf(k))' : Val(NextOf(k), i)' = NextValue(k, i)'
    <3>1. CASE k = e
      <4>1. Newest(x) = 1 /\ Val(x, 1) = Uninit
        BY <1>0, <1>1, <1>2, <1>3, Numbers DEF QueueInv, List, NextLength, NextValue, Ready
      <4>2. NextLength(k)' = 2
        BY <1>0, <1>1, <1>2, <3>1, Numbers DEF NextLength, Ready
      <4>3. NextValue(k, 1)' = Uninit /\ NextValue(k, 2)' = null
        BY <1>2, <3>1 DEF NextValue, Ready
      <4>4. Newest(x)' = 2 /\ hist'[x][1] = hist[x][1] /\ hist'[x][2].val = null
        BY <1>4, <4>1
      <4>5. Val(x, 1)' = Uninit /\ Val(x, 2)' = null
        BY <4>1, <4>4 DEF Val
      <4>6. \A i \in 1..2 : i = 1 \/ i = 2
        OBVIOUS
      <4> QED
        BY <1>3, <3>1, <4>2, <4>3, <4>4, <4>5, <4>6
    <3>2. CASE k # e
      <4>1. NextLength(k)' = NextLength(k)
        BY <1>0, <1>1, <1>2, <3>2 DEF NextLength, Ready
      <4>2. hist'[NextOf(k)] = hist[NextOf(k)]
        BY <1>4, <1>5, <3>2
      <4> QED
        BY <4>1, <4>2 DEF QueueInv, List, Newest, Val, NextValue, Ready
    <3> QED
      BY <3>1, <3>2
  <2>2. ASSUME NEW k \in Node
        PROVE  Newest(DataOf(k))' = DataLength(k)' /\ (k <= enqueues' => Current(DataOf(k))' = k)
    BY <1>0, <1>1, <1>4, <1>5 DEF QueueInv, List, Newest, Current, Val, DataLength
  <2>3. \A k \in Node : Knows(Producer, NextOf(k))' /\ Knows(Producer, DataOf(k))'
    BY <1>4, Locations DEF QueueInv, List
  <2> QED
    BY <1>0, <1>1, <1>2, <2>1, <2>2, <2>3 DEF QueueInv, List
<1>7. Links'
  BY <1>0, <1>1, <1>2, <1>4, <1>5, Numbers DEF QueueInv, Links, Made, Ready
<1>8. Reading'
  BY <1>0, <1>1, <1>4, Numbers DEF QueueInv, Reading, Made, Ready
<1> QED
  BY <1>4, <1>6, <1>7, <1>8 DEF QueueInv

LEMMA LinkStep ==
  ASSUME QueueInv, Enqueue_Link
  PROVE  QueueInv'
<1>0. PICK e, h : e = enqueues /\ h = head
  OBVIOUS
<1>10. PICK x : x = NextOf(h)
  OBVIOUS
<1>1. /\ pc[Producer] = "link" /\ DOMAIN pc' = Thread
      /\ pc'[Producer] = "signal" /\ pc'[Consumer] = pc[Consumer]
      /\ Store(Producer, x, n[Producer], release) /\ UNCHANGED ecVars
      /\ head' = n[Producer] /\ enqueues' = enqueues /\ n' = n
      /\ tail' = tail /\ deleted' = deleted /\ dequeues' = dequeues /\ out' = out
  BY <1>0, <1>10, Numbers DEF Enqueue_Link, Goto, MoveTo, OrderLink
<1>2. /\ e \in Node /\ e \in Value /\ e \in Nat /\ n[Producer] = e /\ e >= 1
      /\ e = h + 1 /\ Making /\ ~Making' /\ h \in Node /\ h \in Nat
  BY <1>0, <1>1, Numbers, Constants DEF Value, Making
<1>3. x \in {NextOf(h), DataOf(h)} /\ x \in SPSCLoc /\ x = NextOf(h)
  BY <1>2, <1>10, Locations
<1>4. /\ QueueTypes' /\ Chain' /\ Locked' /\ Sleeping'
      /\ Newest(x) \in Nat /\ Newest(x)' = Newest(x) + 1
      /\ \A j \in 1..Newest(x) : hist'[x][j] = hist[x][j]
      /\ hist'[x][Newest(x) + 1].val = e
      /\ hist'[x][Newest(x) + 1].view = Released(Producer, release)
      /\ \A y \in SPSCLoc \ {x} : hist'[y] = hist[y]
      /\ \A t \in Thread : cur[t] \subseteq cur'[t]
      /\ \A y \in SPSCLoc : Knows(Producer, y) => Knows(Producer, y)'
  <2>1. /\ pc'[Producer] \in ProducerLabel /\ ~Holds(Producer)' /\ pc[Producer] # "notify"
        /\ DOMAIN n' = Thread
    BY <1>1, Numbers DEF ProducerLabel, Holds
  <2> QED
    BY <1>0, <1>1, <1>2, <1>3, <2>1, Storing
<1>5. \A k \in Node : DataOf(k) \in SPSCLoc \ {x} /\ (k # h => NextOf(k) \in SPSCLoc \ {x})
  BY <1>2, <1>3, Locations
<1>6. /\ Newest(x) = Ready(h) /\ \A i \in 1..Newest(x) : Val(x, i) = NextValue(h, i)
      /\ Newest(NextOf(e)) = 2 /\ Newest(DataOf(e)) = 2
  <2>1. NextLength(h) = Ready(h) /\ NextLength(e) = 2 /\ DataLength(e) = 2
    BY <1>0, <1>1, <1>2 DEF NextLength, DataLength, Ready
  <2> QED
    BY <1>2, <1>3, <2>1 DEF QueueInv, List
<1>7. List'
  <2>1. ASSUME NEW k \in Node
        PROVE  /\ Newest(NextOf(k))' = NextLength(k)'
               /\ \A i \in 1..Newest(NextOf(k))' : Val(NextOf(k), i)' = NextValue(k, i)'
    <3>1. CASE k = h
      <4>1. NextLength(k)' = Newest(x) + 1
        BY <1>0, <1>1, <1>2, <1>6, <3>1, Numbers DEF NextLength, Ready
      <4>2. \A i : NextValue(k, i)' = NextValue(k, i)
        BY DEF NextValue, Ready
      <4>3. NextValue(k, Newest(x) + 1) = e
        BY <1>0, <1>2, <1>4, <1>6, <3>1, Numbers DEF NextValue, Ready
      <4>4. ASSUME NEW i \in 1..(Newest(x) + 1)
            PROVE  hist'[x][i].val = NextValue(k, i)
        <5>1. CASE i = Newest(x) + 1
          BY <1>4, <4>3, <5>1
        <5>2. CASE i \in 1..Newest(x)
          BY <1>4, <1>6, <3>1, <5>2 DEF Val
        <5> QED
          BY <1>4, <5>1, <5>2
      <4>5. \A i \in 1..Newest(x)' : Val(x, i)' = NextValue(k, i)'
        BY <1>4, <4>2, <4>4 DEF Val
      <4> QED
        BY <1>3, <1>4, <3>1, <4>1, <4>5
    <3>2. CASE k # h
      <4>1. NextLength(k)' = NextLength(k)
        <5>1. CASE k < h
          BY <1>0, <1>1, <1>2, <5>1, Numbers DEF NextLength, Ready
        <5>2. CASE k = e
          BY <1>0, <1>1, <1>2, <5>2, Numbers DEF NextLength, Ready
        <5>3. CASE k > e
          BY <1>0, <1>1, <1>2, <5>3, Numbers DEF NextLength, Ready
        <5>4. k \in Nat
          BY Numbers
        <5> QED
          BY <1>2, <3>2, <5>1, <5>2, <5>3, <5>4
      <4>2. hist'[NextOf(k)] = hist[NextOf(k)]
        BY <1>4, <1>5, <3>2
      <4> QED
        BY <4>1, <4>2 DEF QueueInv, List, Newest, Val, NextValue, Ready
    <3> QED
      BY <3>1, <3>2
  <2>2. ASSUME NEW k \in Node
        PROVE  Newest(DataOf(k))' = DataLength(k)' /\ (k <= enqueues' => Current(DataOf(k))' = k)
    BY <1>0, <1>1, <1>4, <1>5 DEF QueueInv, List, Newest, Current, Val, DataLength
  <2>3. \A k \in Node : Knows(Producer, NextOf(k))' /\ Knows(Producer, DataOf(k))'
    BY <1>4, Locations DEF QueueInv, List
  <2>4. enqueues' \in 0..MaxEnqueues /\ head' \in 0..enqueues' /\ head' = enqueues'
    BY <1>0, <1>1, <1>2, Numbers, Constants
  <2> QED
    BY <1>2, <2>1, <2>2, <2>3, <2>4 DEF List
<1>8. Links'
  <2>1. ASSUME NEW k \in Node, k < e
        PROVE  Made(k + 1) \subseteq hist'[NextOf(k)][Ready(k) + 1].view
    <3>1. CASE k = h
      <4>1. Made(k + 1) \subseteq cur[Producer]
        <5>1. Knows(Producer, NextOf(e)) /\ Knows(Producer, DataOf(e))
          BY <1>2 DEF QueueInv, List
        <5>2. <<NextOf(e), 2>> \in cur[Producer] /\ <<DataOf(e), 2>> \in cur[Producer]
          BY <1>6, <5>1 DEF Knows
        <5>3. Ready(e) = 2
          BY <1>2 DEF Ready
        <5> QED
          BY <1>2, <3>1, <5>2, <5>3 DEF Made
      <4> QED
        BY <1>3, <1>4, <1>6, <3>1, <4>1 DEF Released, Releasing
    <3>2. CASE k # h
      BY <1>0, <1>2, <1>4, <1>5, <2>1, <3>2, Numbers DEF QueueInv, Links
    <3> QED
      BY <3>1, <3>2
  <2> QED
    BY <1>0, <1>1, <1>2, <2>1 DEF Links, Made, Ready
<1>9. Reading'
  BY <1>0, <1>1, <1>2, <1>4, Numbers DEF QueueInv, Reading, Made, Ready
<1> QED
  BY <1>4, <1>7, <1>8, <1>9 DEF QueueInv

-----------------------------------------------------------------------------
(* A look for a node after tail finds it, with its fields initialised, or  *)
(* the null its next was initialised with.                                 *)
LEMMA Looking ==
  ASSUME QueueInv, NEW x, x = NextOf(tail), NEW i, Load(Consumer, x, i, acquire)
  PROVE  \/ i = Ready(tail) /\ Val(x, i) = null
         \/ /\ tail < head /\ Val(x, i) = tail + 1
            /\ Made(tail + 1) \subseteq cur'[Consumer]
<1>1. /\ x \in SPSCLoc /\ Consumer \in Thread /\ tail \in Node /\ tail \in Nat /\ tail <= head
      /\ head \in Nat /\ head <= enqueues /\ enqueues \in Nat
  BY Numbers, Locations
<1>2. /\ i \in 1..Newest(x) /\ i \in Readable(Consumer, x, acquire)
      /\ cur'[Consumer] = Observe(Consumer, x, i, acquire)
  BY <1>1, Loading DEF Load
<1>3. /\ Newest(x) = NextLength(tail) /\ Val(x, i) = NextValue(tail, i)
      /\ <<x, Ready(tail)>> \in cur[Consumer] /\ Linear(x)
  BY <1>1, <1>2, Basics DEF QueueInv, List, Reading
<1>4. /\ Ready(tail) \in Nat /\ Ready(tail) >= 1
      /\ Newest(x) = (IF tail < head THEN Ready(tail) + 1 ELSE Ready(tail))
  BY <1>1, <1>3 DEF Ready, NextLength
<1>5. i >= Ready(tail)
  <2>1. SUFFICES ASSUME i < Ready(tail)
                 PROVE  FALSE
    BY <1>2, <1>4
  <2>2. Ready(tail) \in (i + 1)..Newest(x) /\ Ready(tail) \in 1..Newest(x)
    BY <1>2, <1>4, <2>1
  <2>3. Event(x, Ready(tail)) = <<x, Ready(tail)>>
    BY <1>3, <2>2 DEF Event, Linear, Newest
  <2>4. acquire # seq_cst
    BY DEF acquire, seq_cst
  <2> QED
    BY <1>2, <1>3, <2>2, <2>3, <2>4 DEF Readable, Seen
<1>6. CASE i = Ready(tail)
  BY <1>3, <1>4, <1>6 DEF NextValue
<1>7. CASE i > Ready(tail)
  <2>1. i = Ready(tail) + 1 /\ tail < head
    BY <1>2, <1>4, <1>7
  <2>2. Val(x, i) = tail + 1
    BY <1>3, <1>7 DEF NextValue
  <2>3. Made(tail + 1) \subseteq hist[x][i].view
    BY <1>1, <2>1 DEF QueueInv, Links
  <2>4. hist[x][i].view \subseteq cur'[Consumer]
    BY <1>2 DEF Observe, Acquiring
  <2> QED
    BY <2>1, <2>2, <2>3, <2>4
<1> QED
  BY <1>2, <1>4, <1>5, <1>6, <1>7

LEMMA TryDequeueStep ==
  ASSUME QueueInv, NEW from \in {"idle", "tryAgain", "awake"}, NEW empty \in {"get", "wait"},
         TryDequeue(from, "data", empty),
         dequeues' = (IF from = "idle" THEN dequeues + 1 ELSE dequeues)
  PROVE  QueueInv'
<1>0. PICK x : x = NextOf(tail)
  OBVIOUS
<1>1. PICK i \in Readable(Consumer, x, acquire) :
        /\ Load(Consumer, x, i, acquire)
        /\ n' = [n EXCEPT ![Consumer] = Val(x, i)]
        /\ MoveTo(Consumer, IF Val(x, i) = null THEN empty ELSE "data")
  BY <1>0 DEF TryDequeue, OrderTryDequeue
<1>2. PICK v : v = Val(x, i)
  OBVIOUS
<1>3. /\ Producer \in Thread /\ Consumer \in Thread /\ Producer # Consumer
      /\ x \in SPSCLoc /\ tail \in Node /\ tail \in Nat /\ MaxEnqueues \in Nat
      /\ DOMAIN pc = Thread /\ pc[Producer] \in ProducerLabel
      /\ DOMAIN n = Thread /\ cmp \in [Thread -> CountValue] /\ waiters \in Nat
  BY <1>0, Numbers, Locations, Constants DEF QueueInv, QueueTypes
<1>4. /\ pc[Consumer] = from /\ DOMAIN pc' = Thread /\ pc'[Producer] = pc[Producer]
      /\ pc'[Consumer] = (IF v = null THEN empty ELSE "data")
      /\ DOMAIN n' = Thread /\ n'[Producer] = n[Producer] /\ n'[Consumer] = v
      /\ UNCHANGED ecVars /\ head' = head /\ tail' = tail /\ deleted' = deleted
      /\ enqueues' = enqueues /\ out' = out
  BY <1>1, <1>2, <1>3 DEF TryDequeue, MoveTo
<1>5. hist' = hist /\ Quiet
  BY <1>1, <1>3, Loading
<1>6. \/ v = null
      \/ tail < head /\ v = tail + 1 /\ Made(tail + 1) \subseteq cur'[Consumer]
  BY <1>0, <1>1, <1>2, Looking
<1>7. tail < head /\ v = tail + 1 => v # null
  <2>1. tail < head => tail + 1 \in Node
    BY Numbers
  <2> QED
    BY <2>1, Constants
<1>8. QueueTypes' /\ Chain'
  BY <1>3, <1>4, <1>5 DEF QueueInv, QueueTypes, Quiet, ConsumerLabel, ecVars
<1>9. Locked' /\ Sleeping'
  <2>1. \A t \in Thread : Holds(t)' => Holds(t)
    BY <1>4, Constants DEF Holds
  <2> QED
    BY <1>4, <1>5, <2>1, SameHolder DEF Sleeping
<1>10. List' /\ Links'
  BY <1>4, <1>5, SameNodes
<1>11. Reading'
  <2>1. /\ tail' \in 0..head' /\ out' = [k \in 1..tail' |-> k] /\ deleted' = 0..(tail' - 1)
    BY <1>4 DEF QueueInv, Reading
  <2>2. dequeues' = (IF pc'[Consumer] = "idle" THEN tail' ELSE tail' + 1)
    BY <1>4 DEF QueueInv, Reading
  <2>3. <<NextOf(tail'), Ready(tail')>> \in cur'[Consumer]
    BY <1>3, <1>4, <1>5 DEF QueueInv, Reading, Quiet
  <2>4. pc'[Consumer] = "data" =>
          tail' < head' /\ n'[Consumer] = tail' + 1 /\ Made(tail' + 1) \subseteq cur'[Consumer]
    BY <1>4, <1>6
  <2> QED
    BY <2>1, <2>2, <2>3, <2>4 DEF Reading, Made, Ready
<1> QED
  BY <1>8, <1>9, <1>10, <1>11, <1>5 DEF QueueInv, Quiet

(* What dequeue() takes is the item its node was made with.                *)
LEMMA Taking ==
  ASSUME QueueInv, pc[Consumer] = "data", NEW y, y = DataOf(tail + 1), NEW i,
         Load(Consumer, y, i, relaxed)
  PROVE  Val(y, i) = tail + 1
<1>1. /\ tail < head /\ Made(tail + 1) \subseteq cur[Consumer] /\ tail \in Nat /\ tail + 1 \in Node
      /\ tail + 1 <= enqueues /\ head <= enqueues /\ head \in Nat /\ enqueues \in Nat
      /\ Consumer \in Thread
  BY Numbers DEF QueueInv, Reading
<1>2. y \in SPSCLoc /\ MemType(SPSCLoc, Value)
  BY <1>1, Locations, Basics
<1>3. Newest(y) = 2 /\ Current(y) = tail + 1
  BY <1>1 DEF QueueInv, List, DataLength
<1>4. Event(y, Newest(y)) \in cur[Consumer]
  <2>1. <<y, 2>> \in cur[Consumer]
    BY <1>1 DEF Made
  <2> QED
    BY <1>1, <1>2, <1>3, <2>1, Basics
<1>5. i = Newest(y)
  BY <1>1, <1>2, <1>4, NewestSeen DEF Load
<1> QED
  BY <1>3, <1>5 DEF Current

LEMMA TakeStep ==
  ASSUME QueueInv, TryDequeue_Take
  PROVE  QueueInv' /\ out' = Append(out, tail + 1) /\ tail < head
<1>0. PICK y : y = DataOf(tail + 1)
  OBVIOUS
<1>1. /\ pc[Consumer] = "data" /\ n[Consumer] = tail + 1 /\ tail < head
      /\ Made(tail + 1) \subseteq cur[Consumer]
  BY DEF QueueInv, Reading, TryDequeue_Take, Goto
<1>2. PICK i \in Readable(Consumer, y, relaxed) :
        Load(Consumer, y, i, relaxed) /\ out' = Append(out, Val(y, i))
  BY <1>0, <1>1 DEF TryDequeue_Take
<1>3. /\ Producer \in Thread /\ Consumer \in Thread /\ Producer # Consumer
      /\ y \in SPSCLoc /\ tail + 1 \in Node /\ tail \in Nat /\ MaxEnqueues \in Nat
      /\ head \in Nat /\ DOMAIN pc = Thread
  BY <1>0, <1>1, Numbers, Locations, Constants
<1>4. /\ DOMAIN pc' = Thread /\ pc'[Producer] = pc[Producer] /\ pc'[Consumer] = "idle"
      /\ UNCHANGED ecVars /\ head' = head /\ tail' = tail + 1 /\ deleted' = deleted \cup {tail}
      /\ enqueues' = enqueues /\ dequeues' = dequeues /\ n' = n
  BY <1>1, <1>3 DEF TryDequeue_Take, Goto, MoveTo
<1>5. hist' = hist /\ Quiet
  BY <1>2, <1>3, Loading
<1>6. out' = Append(out, tail + 1)
  BY <1>0, <1>1, <1>2, Taking
<1>7. QueueTypes' /\ Chain'
  BY <1>3, <1>4, <1>5 DEF QueueInv, QueueTypes, Quiet, ConsumerLabel, ecVars
<1>8. Locked' /\ Sleeping'
  <2>1. \A t \in Thread : Holds(t)' => Holds(t)
    BY <1>4, Constants DEF Holds
  <2> QED
    BY <1>4, <1>5, <2>1, SameHolder DEF Sleeping
<1>9. List' /\ Links'
  BY <1>4, <1>5, SameNodes
<1>10. Reading'
  <2>1. out' = [k \in 1..(tail + 1) |-> k]
    <3>1. out = [k \in 1..tail |-> k]
      BY DEF QueueInv, Reading
    <3>2. out \in Seq(Nat) /\ Len(out) = tail
      BY <1>3, <3>1
    <3>3. /\ Append(out, tail + 1) \in Seq(Nat) /\ Len(Append(out, tail + 1)) = tail + 1
          /\ \A k \in 1..tail : Append(out, tail + 1)[k] = k
          /\ Append(out, tail + 1)[tail + 1] = tail + 1
      BY <1>3, <3>1, <3>2
    <3>4. \A k \in 1..(tail + 1) : k \in 1..tail \/ k = tail + 1
      BY <1>3
    <3>5. DOMAIN Append(out, tail + 1) = 1..(tail + 1)
      BY <3>3
    <3> QED
      BY <1>6, <3>3, <3>4, <3>5
  <2>2. deleted' = 0..tail
    BY <1>3, <1>4 DEF QueueInv, Reading
  <2>3. dequeues' = tail + 1
    BY <1>1, <1>4 DEF QueueInv, Reading
  <2>4. <<NextOf(tail + 1), Ready(tail + 1)>> \in cur'[Consumer]
    BY <1>1, <1>3, <1>5 DEF Made, Quiet
  <2>5. tail' \in 0..head' /\ (tail + 1) - 1 = tail
    BY <1>1, <1>3, <1>4
  <2> QED
    BY <1>4, <2>1, <2>2, <2>3, <2>4, <2>5 DEF Reading
<1> QED
  BY <1>1, <1>5, <1>6, <1>7, <1>8, <1>9, <1>10 DEF QueueInv, Quiet

-----------------------------------------------------------------------------
THEOREM QueueNext ==
  ASSUME QueueInv, [SPSCNext]_spscVars
  PROVE  QueueInv'
<1>1. CASE Enqueue_NewData
  BY <1>1, NewDataStep
<1>2. CASE Enqueue_NewNext
  BY <1>2, NewNextStep
<1>3. CASE Enqueue_Link
  BY <1>3, LinkStep
<1>4. CASE Signal(Producer, "idle") /\ UNCHANGED queueVars
  BY <1>4, SignalStep
<1>5. CASE Dequeue_First
  <2>1. TryDequeue("idle", "data", "get") /\ dequeues' = dequeues + 1
    BY <1>5 DEF Dequeue_First
  <2> QED
    BY <2>1, TryDequeueStep
<1>6. CASE Dequeue_AfterGet
  <2>1. TryDequeue("tryAgain", "data", "wait") /\ dequeues' = dequeues
    BY <1>6 DEF Dequeue_AfterGet
  <2> QED
    BY <2>1, TryDequeueStep
<1>7. CASE Dequeue_AfterWait
  <2>1. TryDequeue("awake", "data", "get") /\ dequeues' = dequeues
    BY <1>7 DEF Dequeue_AfterWait
  <2> QED
    BY <2>1, TryDequeueStep
<1>8. CASE TryDequeue_Take
  BY <1>8, TakeStep
<1>9. CASE (Get(Consumer, "tryAgain") \/ Wait(Consumer, "awake")) /\ UNCHANGED queueVars
  BY <1>9, WaitStep
<1>10. CASE UNCHANGED spscVars
  <2>1. /\ hist' = hist /\ cur' = cur /\ acq' = acq /\ rel' = rel /\ sc' = sc /\ pc' = pc
        /\ UNCHANGED ecVars /\ UNCHANGED queueVars
    BY <1>10 DEF spscVars
  <2>2. Quiet
    BY <2>1 DEF QueueInv, QueueTypes, Chain, Quiet, MemType, Linear, Newest, Val
  <2>3. Locked' /\ Sleeping'
    BY <2>1 DEF ecVars, QueueInv, Locked, Sleeping, Holds, Current, Val, Newest
  <2> QED
    BY <2>1, <2>2, <2>3, EventCountStep DEF ecVars, QueueInv, QueueTypes
<1> QED
  BY <1>1, <1>2, <1>3, <1>4, <1>5, <1>6, <1>7, <1>8, <1>9, <1>10 DEF SPSCNext, Enqueue, Dequeue

(* Every reachable state satisfies the invariant.                          *)
THEOREM QueueInvariance == SPSCSpec => []QueueInv
<1>1. SPSCInit => QueueInv
  BY QueueInit
<1>2. QueueInv /\ [SPSCNext]_spscVars => QueueInv'
  BY QueueNext
<1> QED
  BY <1>1, <1>2, PTL DEF SPSCSpec

(* No thread touches a node that has been deleted or not been made, who    *)
(* sleeps has been counted, and at the end the queue is empty.             *)
THEOREM QueueTypeCorrectness == SPSCSpec => []SPSCTypeOK
<1>1. ASSUME QueueInv
      PROVE  SPSCTypeOK
  <2>1. /\ waiters \in Nat
        /\ pc[Consumer] = "asleep" => waiters > 0 \/ pc[Producer] = "notify"
    BY <1>1 DEF QueueInv, QueueTypes, Sleeping
  <2>2. /\ head \in Node \ deleted /\ tail \in Node \ deleted
        /\ pc[Consumer] = "data" => n[Consumer] \in Node \ deleted
    <3>1. deleted = 0..(tail - 1)
          /\ (pc[Consumer] = "data" => tail < head /\ n[Consumer] = tail + 1)
      BY <1>1 DEF QueueInv, Reading
    <3> QED
      BY <1>1, <3>1, Numbers
  <2>3. \A k \in 1..Len(out) : out[k] \in 1..enqueues
    <3>1. out = [k \in 1..tail |-> k] /\ Len(out) = tail
      BY <1>1, Numbers DEF QueueInv, Reading
    <3> QED
      BY <1>1, <3>1, Numbers
  <2>4. dequeues = enqueues /\ (\A t \in Thread : pc[t] = "idle") => head = tail
    <3>1. ASSUME dequeues = enqueues, \A t \in Thread : pc[t] = "idle"
          PROVE  head = tail
      <4>1. dequeues = tail
        BY <1>1, <3>1, Numbers DEF QueueInv, Reading
      <4>2. ~Making
        BY <1>1, <3>1, Numbers DEF Making
      <4> QED
        BY <1>1, <3>1, <4>1, <4>2, Numbers
    <3> QED
      BY <3>1
  <2> QED
    BY <2>1, <2>2, <2>3, <2>4 DEF SPSCTypeOK
<1> QED
  BY <1>1, QueueInvariance, PTL

-----------------------------------------------------------------------------
(* What has been enqueued and not dequeued are the items up to head that   *)
(* come after tail.                                                        *)
Mapped == Content = [k \in 1..(head - tail) |-> tail + k]

LEMMA Mapping == QueueInv => Mapped
<1> SUFFICES ASSUME QueueInv
             PROVE  Mapped
  OBVIOUS
<1>1. Linked = 1..head
  <2>1. ASSUME NEW j \in Node
        PROVE  Current(NextOf(j)) = (IF j < head THEN j + 1 ELSE Current(NextOf(j)))
               /\ (~(j < head) => Current(NextOf(j)) \in {null, Uninit})
    <3>1. /\ Newest(NextOf(j)) = NextLength(j) /\ Newest(NextOf(j)) >= 1
          /\ Newest(NextOf(j)) \in Nat
          /\ Current(NextOf(j)) = NextValue(j, NextLength(j))
      <4>1. NextOf(j) \in SPSCLoc
        BY Locations
      <4>2. Newest(NextOf(j)) \in 1..Newest(NextOf(j))
        BY <4>1, Basics
      <4> QED
        BY <4>1, <4>2, Basics DEF QueueInv, List, Current
    <3>2. Ready(j) \in {1, 2} /\ NextLength(j) \in {1, Ready(j), Ready(j) + 1}
      BY DEF Ready, NextLength
    <3>3. CASE j < head
      BY <3>1, <3>2, <3>3 DEF NextLength, NextValue
    <3>4. CASE ~(j < head)
      <4>1. NextLength(j) <= Ready(j)
        BY <3>2, <3>4 DEF NextLength, Ready
      <4> QED
        BY <3>1, <3>2, <3>4, <4>1 DEF NextValue
    <3> QED
      BY <3>3, <3>4
  <2>2. /\ \A k \in 1..head : k \in Node \ {0} /\ k - 1 \in Node /\ k - 1 < head /\ (k - 1) + 1 = k
        /\ \A j \in Node : j < head => j + 1 \in 1..head
    BY Numbers
  <2>3. ASSUME NEW k \in Linked
        PROVE  k \in 1..head
    <3>1. k \in Node /\ \E j \in Node : Current(NextOf(j)) = k
      BY DEF Linked
    <3>2. PICK j \in Node : Current(NextOf(j)) = k
      BY <3>1
    <3>3. j < head /\ k = j + 1
      BY <2>1, <3>1, <3>2, Constants
    <3> QED
      BY <2>2, <3>3
  <2>4. ASSUME NEW k \in 1..head
        PROVE  k \in Linked
    <3>1. Current(NextOf(k - 1)) = k
      BY <2>1, <2>2
    <3> QED
      BY <2>2, <3>1 DEF Linked
  <2> QED
    BY <2>3, <2>4
<1>2. Cardinality(Linked) = head
  <2>1. Cardinality(1..head) = IF 1 > head THEN 0 ELSE head - 1 + 1
    <3>1. 1 \in Int /\ head \in Int
      BY Numbers
    <3> QED
      BY <3>1, FS_Interval
  <2> QED
    BY <1>1, <2>1, Numbers
<1>3. Len(out) = tail
  BY Numbers DEF QueueInv, Reading
<1>4. \A k \in 1..(head - tail) : Current(DataOf(tail + k)) = tail + k
  <2>1. \A k \in 1..(head - tail) : tail + k \in Node /\ tail + k <= enqueues
    BY Numbers
  <2> QED
    BY <2>1 DEF QueueInv, List
<1> QED
  BY <1>2, <1>3, <1>4 DEF Content, Mapped

LEMMA MappingThen == QueueInv' => Mapped'
BY Mapping, PTL

(* Linking a node is the enqueue() of the abstract queue.                  *)
LEMMA LinkRefines ==
  ASSUME QueueInv, QueueInv', Enqueue_Link
  PROVE  Fifo!Enqueue
<1>0. PICK h, a : h = head /\ a = tail
  OBVIOUS
<1>1. /\ head' = h + 1 /\ tail' = a /\ out' = out /\ a \in Nat /\ h \in Nat /\ a <= h
      /\ h + 1 \in 1..MaxEnqueues
  <2>1. Making /\ n[Producer] = head'
    BY DEF Making, Enqueue_Link, Goto
  <2> QED
    BY <1>0, <2>1, Numbers DEF Enqueue_Link
<1>2. Content = [k \in 1..(h - a) |-> a + k] /\ out = [k \in 1..a |-> k]
  BY <1>0, Mapping DEF QueueInv, Reading, Mapped
<1>3. Content' = [k \in 1..((h + 1) - a) |-> a + k]
  BY <1>1, MappingThen DEF Mapped
<1>4. h + 1 \notin ToSet(Content) \cup ToSet(out)
  <2>1. DOMAIN Content = 1..(h - a) /\ DOMAIN out = 1..a
    BY <1>2
  <2> QED
    BY <1>1, <1>2, <2>1 DEF ToSet
<1>5. Content' = Append(Content, h + 1)
  <2>1. Content \in Seq(Nat) /\ Len(Content) = h - a
    BY <1>1, <1>2
  <2>2. /\ DOMAIN Append(Content, h + 1) = 1..((h + 1) - a)
        /\ \A k \in 1..(h - a) : Append(Content, h + 1)[k] = a + k
        /\ Append(Content, h + 1)[(h - a) + 1] = h + 1
    BY <1>1, <1>2, <2>1
  <2>3. \A k \in 1..((h + 1) - a) : k \in 1..(h - a) \/ (k = (h - a) + 1 /\ a + k = h + 1)
    BY <1>1
  <2>4. \A k \in 1..((h + 1) - a) : Append(Content, h + 1)[k] = a + k
    BY <2>2, <2>3
  <2>5. Append(Content, h + 1) = [k \in 1..((h + 1) - a) |-> Append(Content, h + 1)[k]]
    BY <1>1, <2>1, <2>2
  <2> QED
    BY <1>3, <2>4, <2>5
<1> QED
  BY <1>1, <1>4, <1>5 DEF Fifo!Enqueue, Fifo!ToSet, ToSet

(* Taking the data of a node is the dequeue() of the abstract queue.       *)
LEMMA TakeRefines ==
  ASSUME QueueInv, QueueInv', TryDequeue_Take
  PROVE  Fifo!Dequeue
<1>0. PICK h, a : h = head /\ a = tail
  OBVIOUS
<1>1. /\ head' = h /\ tail' = a + 1 /\ out' = Append(out, a + 1)
      /\ a \in Nat /\ h \in Nat /\ a < h
  <2>1. n[Consumer] = tail + 1
    BY DEF QueueInv, Reading, TryDequeue_Take, Goto
  <2> QED
    BY <1>0, <2>1, TakeStep, Numbers DEF TryDequeue_Take
<1>2. Content = [k \in 1..(h - a) |-> a + k]
  BY <1>0, Mapping DEF Mapped
<1>3. Content' = [k \in 1..(h - (a + 1)) |-> (a + 1) + k]
  BY <1>1, MappingThen DEF Mapped
<1>4. Content \in Seq(Nat) /\ Len(Content) = h - a /\ Content # <<>> /\ Head(Content) = a + 1
  BY <1>1, <1>2
<1>5. Content' = Tail(Content)
  <2>1. /\ Tail(Content) \in Seq(Nat) /\ Len(Tail(Content)) = h - (a + 1)
        /\ \A k \in 1..(h - (a + 1)) : Tail(Content)[k] = Content[k + 1]
    BY <1>1, <1>4
  <2>2. \A k \in 1..(h - (a + 1)) : Content[k + 1] = (a + 1) + k
    BY <1>1, <1>2
  <2>3. Tail(Content) = [k \in 1..(h - (a + 1)) |-> Tail(Content)[k]]
    <3>1. PICK T \in Seq(Nat) : T = Tail(Content)
      BY <2>1
    <3>2. T = [k \in 1..Len(T) |-> T[k]]
      OBVIOUS
    <3> QED
      BY <2>1, <3>1, <3>2
  <2> QED
    BY <1>3, <2>1, <2>2, <2>3
<1> QED
  BY <1>1, <1>4, <1>5 DEF Fifo!Dequeue

(* First in, first out, each item once.                                    *)
THEOREM QueueRefinement == SPSCSpec => ImplementsQueue
<1>1. ASSUME SPSCInit
      PROVE  Fifo!Init
  <2>1. QueueInv /\ head = 0 /\ tail = 0 /\ out = <<>>
    BY <1>1, QueueInit DEF SPSCInit
  <2>2. Content = <<>>
    BY <2>1, Mapping DEF Mapped
  <2> QED
    BY <2>1, <2>2 DEF Fifo!Init
<1>2. ASSUME QueueInv, QueueInv', [SPSCNext]_spscVars
      PROVE  [Fifo!Enqueue \/ Fifo!Dequeue]_<<Content, out>>
  <2>1. CASE Enqueue_Link
    BY <1>2, <2>1, LinkRefines
  <2>2. CASE TryDequeue_Take
    BY <1>2, <2>2, TakeRefines
  <2>3. CASE ~Enqueue_Link /\ ~TryDequeue_Take
    <3>1. head' = head /\ tail' = tail /\ out' = out
      BY <1>2, <2>3
         DEF SPSCNext, Enqueue, Dequeue, spscVars, queueVars, Enqueue_NewData, Enqueue_NewNext,
             Dequeue_First, Dequeue_AfterGet, Dequeue_AfterWait, TryDequeue
    <3>2. Content' = Content
      BY <1>2, <3>1, Mapping, MappingThen DEF Mapped
    <3> QED
      BY <3>1, <3>2
  <2> QED
    BY <2>1, <2>2, <2>3
<1> QED
  BY <1>1, <1>2, QueueInvariance, PTL DEF SPSCSpec, ImplementsQueue, Fifo!Spec
=============================================================================
