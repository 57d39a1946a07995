--------------------------- MODULE MCSLockProofs ---------------------------
(***************************************************************************)
(* Proofs about MCSLock, for every set of threads and any number of calls. *)
(***************************************************************************)
EXTENDS MCSLock, C11MemoryProofs

(* The labels between the exchange that puts a thread into the queue and   *)
(* the end of its unlock().                                                *)
HoldLabel == {"cs", "unlock", "cas", "await", "open"}
QueueLabel == Waiting \cup HoldLabel
Label == {"idle", "setgate", "exchange", "done"} \cup QueueLabel

Queue == {t \in Thread : pc[t] \in QueueLabel}
Link == Thread \cup {Null}
Content == Link \cup {0, 1}

Cell(x) == Val(x, Newest(x))
Knows(t, x) == \A j \in 1..Newest(x) : <<x, j>> \in cur[t]
KnowsAllBut(t, x) == \A j \in 1..(Newest(x) - 1) : <<x, j>> \in cur[t]
Carries(view, x) == \A j \in 2..Newest(x) : <<x, j>> \in view
NewestView(x) == hist[x][Newest(x)].view

(* The inductive invariant.  Types: of the memory and of the locals.       *)
Types ==
  /\ MemType(Loc, Content)
  /\ \A x \in {MTail} \cup {NextOf(n) : n \in Thread} : \A i \in 1..Newest(x) : Val(x, i) \in Link
  /\ \A n \in Thread : \A i \in 1..Newest(Gate(n)) : Val(Gate(n), i) \in {0, 1}
  /\ pc \in [Thread -> Label]
  /\ peer \in [Thread -> Link]
  /\ calls \in 0..MaxCalls

(* Chain: the tail is only changed by read-modify-writes, one after the    *)
(* other; all locations are written in the order of their histories.       *)
Chain ==
  /\ \A x \in Loc : Linear(x)
  /\ \A k \in 2..Newest(MTail) : hist[MTail][k].kind = "rmw"

(* Line: from the exchange of a thread in the queue on, the history of the *)
(* tail is the queue.                                                      *)
InLine(k) == \E n \in Queue : Val(MTail, k) = n /\ Turn(n) = k
Line ==
  /\ \A t \in Queue : Turn(t) \in 2..Newest(MTail) /\ Val(MTail, Turn(t)) = t
  /\ \A t \in Queue : \A k \in Turn(t)..Newest(MTail) : InLine(k)
  /\ Cell(MTail) # Null => InLine(Newest(MTail))

(* Service: who has the lock, or has been handed it, is the first.         *)
Served(t) == t \in Queue /\ pc[t] # "link" /\ ~(pc[t] = "wait" /\ Cell(Gate(t)) = 1)
Service ==
  \A t \in Queue :
    IF Served(t) THEN \A u \in Queue : Turn(t) <= Turn(u) ELSE InLine(Turn(t) - 1)

(* Links: the next of a node is null until its successor has linked        *)
(* itself, and the link brings the gate of the successor along.            *)
Follows(s, t) == s \in Queue /\ t \in Queue /\ Turn(s) = Turn(t) + 1
Unlinked(t) ==
  /\ Cell(NextOf(t)) = Null /\ Knows(t, NextOf(t))
  /\ \A s \in Thread : Follows(s, t) => pc[s] = "link"
LinkedTo(t, s) ==
  /\ Follows(s, t) /\ pc[s] = "wait"
  /\ Cell(NextOf(t)) = s
  /\ Newest(NextOf(t)) >= 2 /\ Val(NextOf(t), Newest(NextOf(t)) - 1) = Null
  /\ KnowsAllBut(t, NextOf(t))
  /\ Carries(NewestView(NextOf(t)), Gate(s))
NextWell(t) ==
  /\ pc[t] \in {"idle", "done", "setgate", "exchange", "open"} => Knows(t, NextOf(t))
  /\ pc[t] \in {"setgate", "exchange"} => Cell(NextOf(t)) = Null
  /\ t \in Queue => Unlinked(t) \/ \E s \in Thread : LinkedTo(t, s)
  /\ pc[t] = "link" => \E p \in Thread : peer[t] = p /\ Follows(t, p) /\ Knows(t, NextOf(p))
  /\ pc[t] = "open" => \E s \in Thread : peer[t] = s /\ LinkedTo(t, s) /\ Knows(t, Gate(s))

(* Gates: a gate is shut when its thread gets in line; who opens it passes *)
(* on what has been written under the lock.                                *)
Opened(t) ==
  /\ Cell(Gate(t)) = 0
  /\ Newest(Gate(t)) >= 2 /\ Val(Gate(t), Newest(Gate(t)) - 1) = 1
  /\ KnowsAllBut(t, Gate(t))
  /\ Carries(NewestView(Gate(t)), Shared)
GateWell(t) ==
  /\ pc[t] # "wait" => Knows(t, Gate(t))
  /\ pc[t] \in {"exchange", "link"} => Cell(Gate(t)) = 1
  /\ pc[t] = "wait" => (Cell(Gate(t)) = 1 /\ Knows(t, Gate(t))) \/ Opened(t)

(* Handoff: a holder has seen every write under the lock; the tail carries *)
(* them when the queue is empty, else the next of the last node.           *)
Handoff ==
  /\ \A t \in Thread, x \in Loc : <<x, 1>> \in cur[t]
  /\ \A t \in Thread : pc[t] \in HoldLabel => Knows(t, Shared)
  /\ Cell(MTail) = Null => Carries(NewestView(MTail), Shared)
  /\ \A n \in Thread : Cell(MTail) = n => Carries(NewestView(MTail), NextOf(n))

IInv ==
  /\ Types /\ Chain /\ Line /\ Service /\ Handoff
  /\ \A t \in Thread : NextWell(t) /\ GateWell(t)

-----------------------------------------------------------------------------
(* The locations are different.                                            *)
LEMMA Locations ==
  /\ MTail \in Loc /\ Shared \in Loc \ {MTail}
  /\ \A n \in Thread : NextOf(n) \in Loc \ {MTail, Shared} /\ Gate(n) \in Loc \ {MTail, Shared}
  /\ \A m, n : NextOf(m) # Gate(n)
  /\ \A m, n : NextOf(m) = NextOf(n) => m = n
  /\ \A m, n : Gate(m) = Gate(n) => m = n
<1>1. Len(MTail) = 1 /\ MTail[1] = "tail" /\ Len(Shared) = 1 /\ Shared[1] = "shared"
  BY DEF MTail, Shared
<1>2. \A n : Len(NextOf(n)) = 2 /\ NextOf(n)[1] = "next" /\ NextOf(n)[2] = n
  BY DEF NextOf
<1>3. \A n : Len(Gate(n)) = 2 /\ Gate(n)[1] = "gate" /\ Gate(n)[2] = n
  BY DEF Gate
<1> QED
  BY <1>1, <1>2, <1>3 DEF Loc

(* Lengths of the histories are positive numbers.                          *)
LEMMA Lengths ==
  ASSUME Types, NEW x \in Loc
  PROVE  Newest(x) \in Nat /\ Newest(x) >= 1 /\ hist[x] \in Seq(Messages(Loc, Content))
BY LenProperties DEF Types, MemType, Newest

(* A thread that knows a location reads its newest message.                *)
LEMMA Known ==
  ASSUME IInv, NEW t \in Thread, NEW x \in Loc, Knows(t, x)
  PROVE  Event(x, Newest(x)) \in cur[t] /\ \A ord : Readable(t, x, ord) \subseteq {Newest(x)}
<1>1. MemType(Loc, Content) /\ Newest(x) \in Nat /\ Newest(x) >= 1
  BY Lengths DEF IInv, Types
<1>2. Event(x, Newest(x)) \in cur[t]
  BY <1>1 DEF Knows, Event, IInv, Chain, Linear, Newest
<1> QED
  BY <1>1, <1>2, NewestSeen

(* One that knows all but the newest message reads it or the one before.   *)
LEMMA AlmostKnown ==
  ASSUME IInv, NEW t \in Thread, NEW x \in Loc, KnowsAllBut(t, x), Newest(x) >= 2, NEW ord,
         NEW i \in Readable(t, x, ord)
  PROVE  i = Newest(x) \/ i = Newest(x) - 1
<1>1. Newest(x) \in Nat
  BY Lengths DEF IInv
<1>2. Event(x, Newest(x) - 1) \in Seen(t, ord)
  BY <1>1 DEF KnowsAllBut, Event, IInv, Chain, Linear, Newest, Seen
<1>3. i \in 1..Newest(x) /\ \A j \in (i + 1)..Newest(x) : Event(x, j) \notin Seen(t, ord)
  BY DEF Readable
<1>4. (Newest(x) - 1) \notin (i + 1)..Newest(x)
  BY <1>2, <1>3
<1> QED
  BY <1>1, <1>3, <1>4

(* The turn of a thread is the place of its last exchange.                 *)
LEMMA TurnIs ==
  ASSUME NEW t, NEW k \in 1..Newest(MTail), Newest(MTail) \in Nat, Val(MTail, k) = t,
         \A j \in (k + 1)..Newest(MTail) : Val(MTail, j) # t
  PROVE  Turn(t) = k
<1> DEFINE S == {i \in 1..Newest(MTail) : Val(MTail, i) = t}
<1>1. k \in S /\ S \subseteq Nat /\ \A y \in S : k >= y
  OBVIOUS
<1> HIDE DEF S
<1>2. \A n \in S : (\A y \in S : n >= y) => n = k
  BY <1>1
<1>3. Max(S) = k
  BY <1>1, <1>2 DEF Max
<1> QED
  BY <1>3 DEF Turn, S

(* Threads of the queue have turns of their own.                           *)
LEMMA Turns ==
  ASSUME IInv, NEW t \in Queue
  PROVE  /\ Turn(t) \in 2..Newest(MTail) /\ Val(MTail, Turn(t)) = t
         /\ \A u \in Queue : Turn(t) = Turn(u) => t = u
         /\ \A k \in (Turn(t) + 1)..Newest(MTail) : Val(MTail, k) # t
         /\ Newest(MTail) \in Nat
<1>1. /\ \A u \in Queue : Turn(u) \in 2..Newest(MTail) /\ Val(MTail, Turn(u)) = u
      /\ \A k \in Turn(t)..Newest(MTail) : InLine(k)
  BY DEF IInv, Line
<1>2. Newest(MTail) \in Nat
  BY Lengths, Locations DEF IInv
<1>3. ASSUME NEW k \in (Turn(t) + 1)..Newest(MTail), Val(MTail, k) = t
      PROVE  FALSE
  <2>1. InLine(k) /\ k # Turn(t)
    BY <1>1, <1>2
  <2> QED
    BY <1>3, <2>1 DEF InLine
<1> QED
  BY <1>1, <1>2, <1>3

(* Turns stay as long as the tail is not written.                          *)
LEMMA TurnKept ==
  ASSUME hist'[MTail] = hist[MTail]
  PROVE  \A u : Turn(u)' = Turn(u)
BY DEF Turn, Newest, Val

(* Nobody but the thread that is made the tail gets another turn.          *)
LEMMA TurnAppended ==
  ASSUME Appended(Loc, MTail), Newest(MTail) \in Nat, NEW v, hist'[MTail][Newest(MTail) + 1].val = v
  PROVE  (\A u : u # v => Turn(u)' = Turn(u)) /\ Turn(v)' = Newest(MTail) + 1
<1>1. /\ Newest(MTail)' = Newest(MTail) + 1
      /\ \A k \in 1..Newest(MTail) : Val(MTail, k)' = Val(MTail, k)
      /\ hist'[MTail][Newest(MTail) + 1].val = v
  BY DEF Appended, Newest, Val
<1>2. ASSUME NEW u, u # v
      PROVE  Turn(u)' = Turn(u)
  <2>1. \A i : i \in 1..Newest(MTail)' /\ Val(MTail, i)' = u
                <=> i \in 1..Newest(MTail) /\ Val(MTail, i) = u
    BY <1>1, <1>2 DEF Val
  <2> QED
    BY <2>1 DEF Turn
<1>3. Turn(v)' = Newest(MTail) + 1
  <2> DEFINE S == {i \in 1..(Newest(MTail) + 1) : hist'[MTail][i].val = v}
             k == Newest(MTail) + 1
  <2>1. k \in S /\ S \subseteq Nat /\ \A y \in S : k >= y
    OBVIOUS
  <2>2. Turn(v)' = Max(S)
    BY <1>1 DEF Turn, Val
  <2> HIDE DEF S, k
  <2>3. \A n \in S : (\A y \in S : n >= y) => n = k
    BY <2>1
  <2>4. Max(S) = k
    BY <2>1, <2>3 DEF Max
  <2> QED
    BY <2>2, <2>4 DEF k
<1> QED
  BY <1>2, <1>3

THEOREM InitInvariant ==
  ASSUME Init
  PROVE  IInv
<1> DEFINE first(x) == IF x = Shared \/ x \in {Gate(n) : n \in Thread} THEN 0 ELSE Null
           m(v) == Message(1, v, {}, "store")
<1>1. /\ hist = [x \in Loc |-> <<m(first(x))>>]
      /\ cur = [t \in Thread |-> {<<x, 1>> : x \in Loc}]
      /\ acq = [t \in Thread |-> {}]
      /\ rel = [t \in Thread |-> {}]
      /\ sc = {}
  BY DEF Init, MemInit
<1>2. /\ pc = [t \in Thread |-> "idle"] /\ peer = [t \in Thread |-> Null]
      /\ calls = 0 /\ MaxCalls \in Nat
  BY MCSAssumption DEF Init
<1>3. \A v \in Content : m(v) \in Messages(Loc, Content) /\ m(v).id = 1 /\ m(v).val = v
  BY DEF Message, Messages
<1>4. \A x : first(x) \in Content
  BY DEF Content, Link
<1>5. first(MTail) = Null /\ \A n \in Thread : first(NextOf(n)) = Null /\ first(Gate(n)) = 0
  BY Locations
<1> HIDE DEF m, first
<1>6. \A x \in Loc : /\ hist[x] = <<m(first(x))>>
                     /\ hist[x] \in Seq(Messages(Loc, Content))
                     /\ Newest(x) = 1
                     /\ hist[x][1].id = 1
                     /\ Val(x, 1) = first(x)
                     /\ \A v : Carries(v, x)
                     /\ \A t \in Thread : Knows(t, x)
  BY <1>1, <1>3, <1>4 DEF Newest, Val, Carries, Knows
<1>7. Types
  <2>1. MemType(Loc, Content)
    BY <1>1, <1>6 DEF MemType, Events, Newest
  <2>2. \A x \in {MTail} \cup {NextOf(n) : n \in Thread} :
          x \in Loc /\ Newest(x) = 1 /\ Val(x, 1) = Null
    BY <1>5, <1>6, Locations
  <2>3. \A n \in Thread : Gate(n) \in Loc /\ Newest(Gate(n)) = 1 /\ Val(Gate(n), 1) = 0
    BY <1>5, <1>6, Locations
  <2> QED
    BY <1>2, <2>1, <2>2, <2>3 DEF Types, Link, Label
<1>8. Chain
  BY <1>6, Locations DEF Chain, Linear, Newest
<1>9. Queue = {}
  BY <1>2 DEF Queue, QueueLabel, Waiting, HoldLabel
<1>10. Line /\ Service
  BY <1>5, <1>6, <1>9, Locations DEF Line, Service, Cell
<1>11. Handoff
  <2>1. \A t \in Thread, x \in Loc : <<x, 1>> \in cur[t]
    BY <1>1
  <2> QED
    BY <1>2, <1>6, <2>1, Locations DEF Handoff, HoldLabel
<1>12. \A t \in Thread : NextWell(t) /\ GateWell(t)
  BY <1>2, <1>5, <1>6, <1>9, Locations DEF NextWell, GateWell, Cell
<1> QED
  BY <1>7, <1>8, <1>10, <1>11, <1>12 DEF IInv

-----------------------------------------------------------------------------
(* What a load leaves alone, and that views only grow.                     *)
LEMMA Loading ==
  ASSUME IInv, NEW t \in Thread, NEW x \in Loc, NEW i, NEW ord, Load(t, x, i, ord)
  PROVE  /\ i \in 1..Newest(x) /\ hist' = hist /\ MemType(Loc, Content)'
         /\ cur'[t] = Observe(t, x, i, ord)
         /\ \A u \in Thread : cur[u] \subseteq cur'[u]
<1>1. MemType(Loc, Content)
  BY DEF IInv, Types
<1>2. MemType(Loc, Content)' /\ i \in 1..Newest(x)
  BY <1>1, LoadType
<1>3. hist' = hist /\ cur' = [cur EXCEPT ![t] = Observe(t, x, i, ord)]
  BY DEF Load
<1> QED
  BY <1>1, <1>2, <1>3 DEF MemType, Observe

(* The values each location may hold.                                      *)
Fits(x, v) ==
  /\ v \in Content
  /\ x \in {MTail} \cup {NextOf(n) : n \in Thread} => v \in Link
  /\ x \in {Gate(n) : n \in Thread} => v \in {0, 1}

(* A message at the end of a history keeps the types of the values.        *)
LEMMA AppendedTypes ==
  ASSUME IInv, NEW x \in Loc, NEW v, Fits(x, v), Appended(Loc, x), MemType(Loc, Content)',
         hist'[x][Newest(x) + 1].val = v,
         pc' \in [Thread -> Label], peer' \in [Thread -> Link], calls' \in 0..MaxCalls
  PROVE  Types'
<1>1. Newest(x) \in Nat
  BY Lengths DEF IInv
<1>2. /\ Newest(x)' = Newest(x) + 1
      /\ \A k \in 1..Newest(x) : Val(x, k)' = Val(x, k)
      /\ \A y \in Loc \ {x} : Newest(y)' = Newest(y) /\ \A k : Val(y, k)' = Val(y, k)
  BY DEF Appended, Newest, Val
<1>3. \A k \in 1..(Newest(x) + 1) : k \in 1..Newest(x) \/ k = Newest(x) + 1
  BY <1>1
<1>4. ASSUME NEW y \in {MTail} \cup {NextOf(n) : n \in Thread}, NEW k \in 1..Newest(y)'
      PROVE  Val(y, k)' \in Link
  <2>1. CASE y = x
    <3>1. \A j \in 1..Newest(x) : Val(x, j) \in Link
      BY <2>1 DEF IInv, Types
    <3> QED
      BY <1>2, <1>3, <2>1, <3>1 DEF Fits, Val
  <2>2. CASE y # x
    BY <1>2, <2>2, Locations DEF IInv, Types
  <2> QED
    BY <2>1, <2>2
<1>5. ASSUME NEW n \in Thread, NEW k \in 1..Newest(Gate(n))'
      PROVE  Val(Gate(n), k)' \in {0, 1}
  <2>1. CASE Gate(n) = x
    <3>1. \A j \in 1..Newest(x) : Val(x, j) \in {0, 1}
      BY <2>1 DEF IInv, Types
    <3> QED
      BY <1>2, <1>3, <2>1, <3>1 DEF Fits, Val
  <2>2. CASE Gate(n) # x
    BY <1>2, <2>2, Locations DEF IInv, Types
  <2> QED
    BY <2>1, <2>2
<1> QED
  BY <1>4, <1>5 DEF Types

(* A store to a location the thread knows goes to the end of its history.  *)
LEMMA Storing ==
  ASSUME IInv, NEW t \in Thread, NEW x \in Loc \ {MTail}, NEW v \in Content, NEW ord,
         Store(t, x, v, ord), Knows(t, x)
  PROVE  /\ Appended(Loc, x) /\ MemType(Loc, Content)' /\ Chain'
         /\ hist'[x][Newest(x) + 1].val = v
         /\ hist'[x][Newest(x) + 1].view = Released(t, ord)
         /\ \A u \in Thread : cur[u] \subseteq cur'[u]
         /\ \A j \in 1..(Newest(x) + 1) : <<x, j>> \in cur'[t]
         /\ Newest(x) \in Nat /\ Newest(x) >= 1
<1>1. MemType(Loc, Content) /\ Newest(x) \in Nat /\ Newest(x) >= 1 /\ \A y \in Loc : Linear(y)
  BY Lengths DEF IInv, Types, Chain
<1>2. Event(x, Newest(x)) \in cur[t]
  BY Known
<1>3. /\ Appended(Loc, x)
      /\ hist'[x][Newest(x) + 1].id = Newest(x) + 1
      /\ hist'[x][Newest(x) + 1].val = v
      /\ hist'[x][Newest(x) + 1].view = Released(t, ord)
      /\ cur'[t] = cur[t] \cup Upto(x, Newest(x)) \cup {NextEvent(x)}
      /\ \A u \in Thread \ {t} : cur'[u] = cur[u]
  BY <1>1, <1>2, StoreAtEnd
<1>4. MemType(Loc, Content)'
  BY <1>1, StoreType
<1>5. \A y \in Loc : Linear(y)'
  BY <1>1, <1>3, AppendedLinear
<1>6. Chain'
  <2>1. hist'[MTail] = hist[MTail]
    BY <1>3, Locations DEF Appended
  <2> QED
    BY <1>5, <2>1 DEF IInv, Chain, Newest
<1>7. \A j \in 1..(Newest(x) + 1) : <<x, j>> \in cur'[t]
  BY <1>1, <1>3 DEF Knows, NextEvent
<1> QED
  BY <1>1, <1>3, <1>4, <1>6, <1>7

(* An exchange of the tail goes to the end of its history as well, since a *)
(* write cannot come between a read-modify-write and what it read.         *)
LEMMA Exchanging ==
  ASSUME IInv, NEW t \in Thread, NEW i, NEW v \in Link,
         NEW ord \in Releasing, ReadModifyWrite(t, MTail, i, v, ord)
  PROVE  /\ i = Newest(MTail) /\ Newest(MTail) \in Nat /\ Newest(MTail) >= 1
         /\ Appended(Loc, MTail) /\ MemType(Loc, Content)' /\ Chain'
         /\ hist'[MTail][Newest(MTail) + 1].val = v
         /\ cur[t] \subseteq hist'[MTail][Newest(MTail) + 1].view
         /\ \A u \in Thread : cur[u] \subseteq cur'[u]
         /\ ord \in Acquiring => NewestView(MTail) \subseteq cur'[t]
<1>1. /\ MemType(Loc, Content) /\ Newest(MTail) \in Nat /\ Newest(MTail) >= 1
      /\ MTail \in Loc /\ v \in Content
  BY Lengths, Locations DEF IInv, Types, Content
<1>2. i \in 1..Newest(MTail) /\ (i < Newest(MTail) => hist[MTail][i + 1].kind # "rmw")
  BY DEF ReadModifyWrite, Extendable, Readable
<1>3. i = Newest(MTail)
  <2>1. i < Newest(MTail) => i + 1 \in 2..Newest(MTail)
    BY <1>1, <1>2
  <2> QED
    BY <1>1, <1>2, <2>1 DEF IInv, Chain
<1>4. /\ Appended(Loc, MTail)
      /\ hist'[MTail][Newest(MTail) + 1].id = Newest(MTail) + 1
      /\ hist'[MTail][Newest(MTail) + 1].val = v
      /\ hist'[MTail][Newest(MTail) + 1].view = Continued(t, MTail, i, ord)
      /\ hist'[MTail][Newest(MTail) + 1].kind = "rmw"
  BY <1>1, <1>3, ReadModifyWriteAtEnd
<1>5. MemType(Loc, Content)'
  BY <1>1, ReadModifyWriteType
<1>6. Chain'
  <2>1. \A y \in Loc : Linear(y)'
    BY <1>1, <1>4, AppendedLinear DEF IInv, Chain
  <2>2. Newest(MTail)' = Newest(MTail) + 1
    BY <1>4 DEF Appended, Newest
  <2>3. \A k \in 2..(Newest(MTail) + 1) : hist'[MTail][k].kind = "rmw"
    <3>1. \A k \in 2..(Newest(MTail) + 1) : k \in 2..Newest(MTail) \/ k = Newest(MTail) + 1
      BY <1>1
    <3>2. \A k \in 2..Newest(MTail) : hist'[MTail][k] = hist[MTail][k]
      BY <1>1, <1>4 DEF Appended, Newest
    <3> QED
      BY <1>4, <3>1, <3>2 DEF IInv, Chain
  <2> QED
    BY <2>1, <2>2, <2>3 DEF Chain
<1>7. cur' = [cur EXCEPT ![t] = Observe(t, MTail, i, ord) \cup {NextEvent(MTail)}]
  BY DEF ReadModifyWrite
<1>8. \A u \in Thread : cur[u] \subseteq cur'[u]
  BY <1>1, <1>7 DEF MemType, Observe
<1>9. cur[t] \subseteq hist'[MTail][Newest(MTail) + 1].view
  BY <1>4 DEF Continued, Observe
<1>10. ord \in Acquiring => NewestView(MTail) \subseteq cur'[t]
  BY <1>1, <1>3, <1>7 DEF MemType, Observe, NewestView
<1> QED
  BY <1>1, <1>3, <1>4, <1>5, <1>6, <1>8, <1>9, <1>10

-----------------------------------------------------------------------------
(* A thread whose predecessor has not left has not been served.            *)
LEMMA NotServed ==
  ASSUME IInv, NEW s \in Thread, NEW t \in Thread, Follows(s, t)
  PROVE  /\ ~Served(s) /\ s # t
         /\ pc[s] = "link" \/ (pc[s] = "wait" /\ Cell(Gate(s)) = 1 /\ Knows(s, Gate(s)))
         /\ \A u \in Thread : Follows(u, t) => u = s
         /\ \A u \in Thread : Follows(s, u) => u = t
<1>1. Turn(s) = Turn(t) + 1 /\ Turn(t) \in Nat /\ s \in Queue /\ t \in Queue
  BY Turns DEF Follows
<1>2. ~Served(s)
  <2>1. ~(Turn(s) <= Turn(t))
    BY <1>1
  <2> QED
    BY <1>1, <2>1 DEF IInv, Service
<1>3. pc[s] = "link" \/ (pc[s] = "wait" /\ Cell(Gate(s)) = 1)
  BY <1>1, <1>2 DEF Served
<1>4. pc[s] = "wait" => Knows(s, Gate(s))
  BY <1>3 DEF IInv, GateWell, Opened
<1>5. \A u \in Thread : Follows(u, t) => u = s
  BY <1>1, Turns DEF Follows
<1>6. \A u \in Thread : Follows(s, u) => u = t
  <2>1. ASSUME NEW u \in Thread, Follows(s, u)
        PROVE  u = t
    <3>1. u \in Queue /\ Turn(u) \in Nat /\ Turn(s) = Turn(u) + 1
      BY <2>1, Turns DEF Follows
    <3> QED
      BY <1>1, <3>1, Turns
  <2> QED
    BY <2>1
<1> QED
  BY <1>1, <1>2, <1>3, <1>4, <1>5, <1>6

(* A thread that is served is alone with that, and follows nobody.         *)
LEMMA OneServed ==
  ASSUME IInv, NEW t \in Queue, Served(t), NEW u \in Queue, t # u
  PROVE  ~Served(u) /\ Turn(t) < Turn(u) /\ ~Follows(t, u)
<1>1. Turn(t) \in Nat /\ Turn(u) \in Nat /\ Turn(t) # Turn(u)
  BY Turns
<1>2. Turn(t) <= Turn(u) /\ (Served(u) => Turn(u) <= Turn(t))
  BY DEF IInv, Service
<1> QED
  BY <1>1, <1>2 DEF Follows

(* The thread at the end of the queue is followed by nobody.               *)
LEMMA LastInLine ==
  ASSUME IInv, NEW t \in Queue
  PROVE  /\ \E n \in Queue : Cell(MTail) = n /\ Turn(n) = Newest(MTail)
         /\ Cell(MTail) \in Thread /\ Cell(MTail) # Null
<1>1. Newest(MTail) \in Turn(t)..Newest(MTail)
  BY Turns
<1>2. InLine(Newest(MTail))
  BY <1>1 DEF IInv, Line
<1> QED
  BY <1>2, MCSAssumption DEF InLine, Cell, Queue

(* The tail names the last thread of the queue, if it is not null.         *)
LEMMA TailInLine ==
  ASSUME IInv, NEW n \in Thread, Cell(MTail) = n
  PROVE  n \in Queue /\ Turn(n) = Newest(MTail)
<1>1. n # Null
  BY MCSAssumption
<1>2. InLine(Newest(MTail))
  BY <1>1 DEF IInv, Line
<1> QED
  BY <1>2 DEF InLine, Cell

(* The queue is as before: nobody has joined or left it, or been served.   *)
LEMMA SameQueue ==
  ASSUME IInv, hist'[MTail] = hist[MTail], Queue' = Queue,
         \A u \in Queue : Served(u)' <=> Served(u)
  PROVE  Line' /\ Service' /\ \A s, u : Follows(s, u)' <=> Follows(s, u)
<1>1. /\ \A u : Turn(u)' = Turn(u)
      /\ Newest(MTail)' = Newest(MTail) /\ Cell(MTail)' = Cell(MTail)
      /\ \A k : Val(MTail, k)' = Val(MTail, k)
  BY TurnKept DEF Newest, Val, Cell
<1>2. \A k : InLine(k) => InLine(k)'
  BY <1>1 DEF InLine
<1>3. Line'
  <2>1. \A u \in Queue : Turn(u)' \in 2..Newest(MTail) /\ Val(MTail, Turn(u))' = u
    BY <1>1 DEF IInv, Line, Val
  <2>2. \A u \in Queue : \A k \in Turn(u)..Newest(MTail) : InLine(k)'
    BY <1>2 DEF IInv, Line
  <2>3. Cell(MTail) # Null => InLine(Newest(MTail))'
    BY <1>1, <1>2 DEF IInv, Line, InLine, Val
  <2> QED
    BY <1>1, <2>1, <2>2, <2>3 DEF Line
<1>4. Service'
  <2>1. ASSUME NEW u \in Queue
        PROVE  IF Served(u)' THEN \A w \in Queue : Turn(u)' <= Turn(w)' ELSE InLine(Turn(u) - 1)'
    <3>1. IF Served(u) THEN \A w \in Queue : Turn(u) <= Turn(w) ELSE InLine(Turn(u) - 1)
      BY DEF IInv, Service
    <3>2. PICK k : k = Turn(u) - 1
      OBVIOUS
    <3>3. InLine(k) => InLine(k)' /\ Turn(u)' - 1 = k
      BY <1>1, <1>2, <3>2
    <3> QED
      BY <1>1, <3>1, <3>2, <3>3 DEF InLine, Val
  <2> QED
    BY <2>1 DEF Service
<1> QED
  BY <1>1, <1>3, <1>4 DEF Follows

(* What is known of the links of a thread stays known.                     *)
LEMMA LinksKept ==
  ASSUME IInv, NEW u \in Queue, cur[u] \subseteq cur'[u], hist'[NextOf(u)] = hist[NextOf(u)],
         \A s \in Thread : Follows(s, u)' <=> Follows(s, u),
         \A s \in Thread : Follows(s, u) => pc'[s] = pc[s] /\ hist'[Gate(s)] = hist[Gate(s)]
  PROVE  /\ Unlinked(u)' \/ \E s \in Thread : LinkedTo(u, s)'
         /\ \A s \in Thread : LinkedTo(u, s) => LinkedTo(u, s)'
<1>1. /\ Newest(NextOf(u))' = Newest(NextOf(u)) /\ Cell(NextOf(u))' = Cell(NextOf(u))
      /\ NewestView(NextOf(u))' = NewestView(NextOf(u))
      /\ \A k : Val(NextOf(u), k)' = Val(NextOf(u), k)
  BY DEF Newest, Cell, Val, NewestView
<1>2. /\ Knows(u, NextOf(u)) => Knows(u, NextOf(u))'
      /\ KnowsAllBut(u, NextOf(u)) => KnowsAllBut(u, NextOf(u))'
  BY <1>1 DEF Knows, KnowsAllBut
<1>3. Unlinked(u) => Unlinked(u)'
  BY <1>1, <1>2 DEF Unlinked
<1>4. ASSUME NEW s \in Thread, LinkedTo(u, s)
      PROVE  LinkedTo(u, s)'
  <2>1. Follows(s, u) /\ Follows(s, u)' /\ pc'[s] = pc[s] /\ hist'[Gate(s)] = hist[Gate(s)]
    BY <1>4 DEF LinkedTo
  <2>2. Carries(NewestView(NextOf(u)), Gate(s))'
    BY <1>1, <1>4, <2>1 DEF LinkedTo, Carries, Newest
  <2>3. Val(NextOf(u), Newest(NextOf(u)) - 1)' = Null
    BY <1>1, <1>4 DEF LinkedTo, Val
  <2> QED
    BY <1>1, <1>2, <1>4, <2>1, <2>2, <2>3 DEF LinkedTo
<1>5. Unlinked(u) \/ \E s \in Thread : LinkedTo(u, s)
  BY DEF IInv, NextWell, Queue
<1> QED
  BY <1>3, <1>4, <1>5

(* So does all that concerns the next of a thread that takes no step.      *)
LEMMA NextKept ==
  ASSUME IInv, NEW u \in Thread, pc'[u] = pc[u], peer'[u] = peer[u], cur[u] \subseteq cur'[u],
         hist'[NextOf(u)] = hist[NextOf(u)],
         \A s \in Thread : Follows(s, u)' <=> Follows(s, u),
         \A s \in Thread : Follows(s, u) => pc'[s] = pc[s] /\ hist'[Gate(s)] = hist[Gate(s)],
         \A p \in Thread : pc[u] = "link" /\ Follows(u, p) =>
           Follows(u, p)' /\ hist'[NextOf(p)] = hist[NextOf(p)]
  PROVE  NextWell(u)'
<1>1. /\ Newest(NextOf(u))' = Newest(NextOf(u)) /\ Cell(NextOf(u))' = Cell(NextOf(u))
      /\ Knows(u, NextOf(u)) => Knows(u, NextOf(u))'
  BY DEF Newest, Cell, Val, Knows
<1>2. u \in Queue' <=> u \in Queue
  BY DEF Queue
<1>3. /\ u \in Queue' => Unlinked(u)' \/ \E s \in Thread : LinkedTo(u, s)'
      /\ u \in Queue' => \A s \in Thread : LinkedTo(u, s) => LinkedTo(u, s)'
  BY <1>2, LinksKept
<1>4. pc'[u] = "link" => \E p \in Thread : peer'[u] = p /\ Follows(u, p)' /\ Knows(u, NextOf(p))'
  <2>1. ASSUME pc[u] = "link"
        PROVE  \E p \in Thread : peer'[u] = p /\ Follows(u, p)' /\ Knows(u, NextOf(p))'
    <3>1. PICK p \in Thread : peer[u] = p /\ Follows(u, p) /\ Knows(u, NextOf(p))
      BY <2>1 DEF IInv, NextWell
    <3>2. Follows(u, p)' /\ Knows(u, NextOf(p))'
      BY <2>1, <3>1 DEF Knows, Newest
    <3> QED
      BY <3>1, <3>2
  <2> QED
    BY <2>1
<1>5. pc'[u] = "open" =>
        \E s \in Thread : peer'[u] = s /\ LinkedTo(u, s)' /\ Knows(u, Gate(s))'
  <2>1. ASSUME pc[u] = "open"
        PROVE  \E s \in Thread : peer'[u] = s /\ LinkedTo(u, s)' /\ Knows(u, Gate(s))'
    <3>1. PICK s \in Thread : peer[u] = s /\ LinkedTo(u, s) /\ Knows(u, Gate(s))
      BY <2>1 DEF IInv, NextWell
    <3>2. u \in Queue' /\ Follows(s, u)
      BY <2>1, <3>1 DEF LinkedTo, Queue, QueueLabel, HoldLabel
    <3>3. LinkedTo(u, s)' /\ Knows(u, Gate(s))'
      BY <1>3, <3>1, <3>2 DEF Knows, Newest
    <3> QED
      BY <3>1, <3>3
  <2> QED
    BY <2>1
<1> QED
  BY <1>1, <1>3, <1>4, <1>5 DEF IInv, NextWell

(* And all that concerns its gate.                                         *)
LEMMA GateKept ==
  ASSUME IInv, NEW u \in Thread, pc'[u] = pc[u], cur[u] \subseteq cur'[u],
         hist'[Gate(u)] = hist[Gate(u)], hist'[Shared] = hist[Shared] \/ ~Served(u)
  PROVE  GateWell(u)'
<1>1. /\ Newest(Gate(u))' = Newest(Gate(u)) /\ Cell(Gate(u))' = Cell(Gate(u))
      /\ NewestView(Gate(u))' = NewestView(Gate(u))
      /\ \A k : Val(Gate(u), k)' = Val(Gate(u), k)
  BY DEF Newest, Cell, Val, NewestView
<1>2. /\ Knows(u, Gate(u)) => Knows(u, Gate(u))'
      /\ KnowsAllBut(u, Gate(u)) => KnowsAllBut(u, Gate(u))'
  BY <1>1 DEF Knows, KnowsAllBut
<1>3. pc[u] = "wait" /\ Opened(u) => Opened(u)'
  <2>1. ASSUME pc[u] = "wait", Opened(u)
        PROVE  Opened(u)'
    <3>1. Served(u)
      BY <2>1 DEF Served, Opened, Queue, QueueLabel, Waiting
    <3>2. Carries(NewestView(Gate(u)), Shared)'
      BY <1>1, <2>1, <3>1 DEF Opened, Carries, Newest
    <3>3. Val(Gate(u), Newest(Gate(u)) - 1)' = 1
      BY <1>1, <2>1 DEF Opened, Val
    <3> QED
      BY <1>1, <1>2, <2>1, <3>2, <3>3 DEF Opened
  <2> QED
    BY <2>1
<1> QED
  BY <1>1, <1>2, <1>3 DEF IInv, GateWell

(* And what the holder and the tail know of the shared data and the links. *)
LEMMA HandoffKept ==
  ASSUME IInv, hist'[MTail] = hist[MTail], hist'[Shared] = hist[Shared],
         \A u \in Thread : cur[u] \subseteq cur'[u],
         \A n \in Thread : Cell(MTail) = n => hist'[NextOf(n)] = hist[NextOf(n)],
         \A u \in Thread : pc'[u] \in HoldLabel => pc[u] \in HoldLabel \/ Knows(u, Shared)'
  PROVE  Handoff'
<1>1. /\ Newest(Shared)' = Newest(Shared) /\ Cell(MTail)' = Cell(MTail)
      /\ NewestView(MTail)' = NewestView(MTail)
      /\ \A v : Carries(v, Shared) => Carries(v, Shared)'
  BY DEF Newest, Cell, Val, NewestView, Carries
<1>2. \A u \in Thread : Knows(u, Shared) => Knows(u, Shared)'
  BY <1>1 DEF Knows
<1>3. \A u \in Thread : pc'[u] \in HoldLabel => Knows(u, Shared)'
  BY <1>2 DEF IInv, Handoff
<1>4. Cell(MTail)' = Null => Carries(NewestView(MTail), Shared)'
  BY <1>1 DEF IInv, Handoff, Carries
<1>5. ASSUME NEW n \in Thread, Cell(MTail)' = n
      PROVE  Carries(NewestView(MTail), NextOf(n))'
  BY <1>1, <1>5 DEF IInv, Handoff, Carries, Newest
<1>6. \A u \in Thread, x \in Loc : <<x, 1>> \in cur'[u]
  BY DEF IInv, Handoff
<1> QED
  BY <1>3, <1>4, <1>5, <1>6 DEF Handoff

-----------------------------------------------------------------------------
(* Inside the queue a thread that loads a location moves on, and leaves    *)
(* the wait only if its gate is open.                                      *)
LEMMA Quiet ==
  ASSUME IInv, NEW t \in Queue, NEW to \in QueueLabel \ {"link"}, NEW p \in Link,
         pc[t] # "link", pc' = [pc EXCEPT ![t] = to], peer' = [peer EXCEPT ![t] = p],
         calls' = calls, hist' = hist, MemType(Loc, Content)',
         \A u \in Thread : cur[u] \subseteq cur'[u],
         to = "wait" => pc[t] = "wait",
         pc[t] = "wait" /\ to # "wait" =>
           Cell(Gate(t)) = 0 /\ Knows(t, Gate(t))' /\ Knows(t, Shared)',
         to = "open" => /\ Knows(t, NextOf(t))'
                        /\ \E s \in Thread : p = s /\ LinkedTo(t, s) /\ Knows(t, Gate(s))'
  PROVE  IInv'
<1>1. \A x : Newest(x)' = Newest(x) /\ Cell(x)' = Cell(x) /\ \A k : Val(x, k)' = Val(x, k)
  BY DEF Newest, Cell, Val
<1>2. t \in Thread /\ pc[t] \in QueueLabel /\ pc'[t] = to /\ peer'[t] = p
  BY DEF Queue, IInv, Types
<1>3. \A u \in Thread \ {t} : pc'[u] = pc[u] /\ peer'[u] = peer[u]
  BY DEF IInv, Types
<1>4. Types'
  <2>1. pc' \in [Thread -> Label] /\ peer' \in [Thread -> Link]
    BY DEF IInv, Types, Label
  <2> QED
    BY <1>1, <2>1 DEF IInv, Types
<1>5. Chain'
  BY DEF IInv, Chain, Linear, Newest
<1>6. Queue' = Queue
  <2>1. \A u \in Thread : pc'[u] \in QueueLabel <=> pc[u] \in QueueLabel
    BY <1>2, <1>3
  <2> QED
    BY <2>1 DEF Queue
<1>7. \A u \in Queue : Served(u)' <=> Served(u)
  BY <1>1, <1>2, <1>3, <1>6 DEF Served, Queue
<1>8. Line' /\ Service' /\ \A s, u : Follows(s, u)' <=> Follows(s, u)
  BY <1>6, <1>7, SameQueue
<1>9. \A u \in Thread : Follows(t, u) => pc'[t] = pc[t]
  <2>1. Served(t) => \A u \in Thread : ~Follows(t, u)
    BY NotServed, <1>2
  <2> QED
    BY <1>2, <2>1 DEF Served
<1>10. ASSUME NEW u \in Thread
       PROVE  \A s \in Thread : Follows(s, u) => pc'[s] = pc[s]
  BY <1>3, <1>9
<1>11. \A u \in Thread \ {t} : NextWell(u)' /\ GateWell(u)'
  BY <1>3, <1>8, <1>10, NextKept, GateKept
<1>12. NextWell(t)'
  <2>1. /\ Unlinked(t)' \/ \E s \in Thread : LinkedTo(t, s)'
        /\ \A s \in Thread : LinkedTo(t, s) => LinkedTo(t, s)'
    BY <1>2, <1>8, <1>10, LinksKept
  <2>2. to = "open" => \E s \in Thread : peer'[t] = s /\ LinkedTo(t, s)' /\ Knows(t, Gate(s))'
    BY <1>2, <2>1
  <2>3. to \notin {"idle", "done", "setgate", "exchange", "link"}
    BY DEF QueueLabel, Waiting, HoldLabel
  <2> QED
    BY <1>2, <2>1, <2>2, <2>3 DEF NextWell
<1>13. GateWell(t)'
  <2>1. CASE to = "wait"
    BY <1>2, <2>1, GateKept
  <2>2. CASE to # "wait" /\ pc[t] = "wait"
    BY <1>2, <2>2 DEF GateWell, QueueLabel, Waiting, HoldLabel
  <2>3. CASE pc[t] # "wait"
    <3>1. Knows(t, Gate(t))'
      BY <1>1, <1>2, <2>3 DEF IInv, GateWell, Knows
    <3> QED
      BY <1>2, <2>3, <3>1 DEF GateWell, QueueLabel, Waiting, HoldLabel
  <2> QED
    BY <2>1, <2>2, <2>3
<1>14. Handoff'
  <2>1. \A u \in Thread : pc'[u] \in HoldLabel => pc[u] \in HoldLabel \/ Knows(u, Shared)'
    BY <1>2, <1>3 DEF QueueLabel, Waiting, HoldLabel
  <2> QED
    BY <2>1, HandoffKept
<1> QED
  BY <1>4, <1>5, <1>8, <1>11, <1>12, <1>13, <1>14 DEF IInv

(* Who acquires the newest message of a location knows the location, and   *)
(* what the message carries.                                               *)
LEMMA Acquired ==
  ASSUME IInv, NEW t \in Thread, NEW x \in Loc, NEW ord \in Acquiring,
         Load(t, x, Newest(x), ord)
  PROVE  Knows(t, x)' /\ \A y \in Loc : Carries(NewestView(x), y) => Knows(t, y)'
<1>1. hist' = hist /\ cur'[t] = Observe(t, x, Newest(x), ord) /\ cur[t] \subseteq cur'[t]
  BY Loading
<1>2. \A j \in 1..Newest(x) : <<x, j>> \in Upto(x, Newest(x))
  BY DEF IInv, Chain, Linear, Upto, Event, Newest
<1>3. Knows(t, x)'
  BY <1>1, <1>2 DEF Knows, Observe, Newest
<1>4. ASSUME NEW y \in Loc, Carries(NewestView(x), y)
      PROVE  Knows(t, y)'
  <2>1. <<y, 1>> \in cur'[t] /\ Newest(y) \in Nat /\ Newest(y)' = Newest(y)
    BY <1>1, Lengths DEF IInv, Handoff, Newest
  <2>2. \A j \in 2..Newest(y) : <<y, j>> \in cur'[t]
    BY <1>1, <1>4 DEF Observe, Carries, NewestView
  <2>3. \A j \in 1..Newest(y) : j = 1 \/ j \in 2..Newest(y)
    BY <2>1
  <2> QED
    BY <2>1, <2>2, <2>3 DEF Knows
<1> QED
  BY <1>3, <1>4

(* A thread waits at its gate, and has the lock when it finds it open.     *)
LEMMA LoadGateStep ==
  ASSUME IInv, NEW t \in Thread, Lock_LoadGate(t)
  PROVE  IInv'
<1> USE DEF OrderSpinGate
<1>1. PICK i \in Readable(t, Gate(t), OrderSpinGate) :
        /\ Load(t, Gate(t), i, OrderSpinGate)
        /\ pc' = [pc EXCEPT ![t] = IF Val(Gate(t), i) = 0 THEN "cs" ELSE "wait"]
  BY DEF Lock_LoadGate, MoveTo
<1>2. pc[t] = "wait" /\ peer' = peer /\ calls' = calls /\ Gate(t) \in Loc /\ t \in Queue
  BY Locations DEF Lock_LoadGate, Queue, QueueLabel, Waiting
<1>3. /\ i \in 1..Newest(Gate(t)) /\ hist' = hist /\ MemType(Loc, Content)'
      /\ \A u \in Thread : cur[u] \subseteq cur'[u]
  BY <1>1, <1>2, Loading
<1>4. peer' = [peer EXCEPT ![t] = peer[t]] /\ peer[t] \in Link
  BY <1>2 DEF IInv, Types
<1>5. Val(Gate(t), i) = 0 => /\ Cell(Gate(t)) = 0
                             /\ Knows(t, Gate(t))' /\ Knows(t, Shared)'
  <2> SUFFICES ASSUME Val(Gate(t), i) = 0
               PROVE  Cell(Gate(t)) = 0 /\ Knows(t, Gate(t))' /\ Knows(t, Shared)'
    OBVIOUS
  <2>1. (Cell(Gate(t)) = 1 /\ Knows(t, Gate(t))) \/ Opened(t)
    BY <1>2 DEF IInv, GateWell
  <2>2. ~(Cell(Gate(t)) = 1 /\ Knows(t, Gate(t)))
    BY <1>2, Known DEF Cell
  <2>3. i = Newest(Gate(t))
    BY <1>2, <2>1, <2>2, AlmostKnown DEF Opened
  <2>4. acquire \in Acquiring /\ Shared \in Loc
    BY Locations DEF Acquiring
  <2> QED
    BY <1>1, <1>2, <2>1, <2>2, <2>3, <2>4, Acquired DEF Opened
<1>6. CASE Val(Gate(t), i) = 0
  <2>1. "cs" \in QueueLabel \ {"link"} /\ "cs" # "wait" /\ "cs" # "open"
    BY DEF QueueLabel, HoldLabel
  <2> QED
    BY <1>1, <1>2, <1>3, <1>4, <1>5, <1>6, <2>1, Quiet
<1>7. CASE Val(Gate(t), i) # 0
  <2>1. "wait" \in QueueLabel \ {"link"} /\ "wait" # "open"
    BY DEF QueueLabel, Waiting
  <2> QED
    BY <1>1, <1>2, <1>3, <1>4, <1>7, <2>1, Quiet
<1> QED
  BY <1>6, <1>7

(* A holder reads the shared data.                                         *)
LEMMA ReadSharedStep ==
  ASSUME IInv, NEW t \in Thread, ReadShared(t)
  PROVE  IInv'
<1>1. PICK i : Load(t, Shared, i, relaxed)
  BY DEF ReadShared
<1>2. /\ pc[t] = "cs" /\ pc' = [pc EXCEPT ![t] = "unlock"] /\ calls' = calls
      /\ peer' = [peer EXCEPT ![t] = peer[t]] /\ peer[t] \in Link
      /\ t \in Queue /\ Shared \in Loc
  BY Locations DEF ReadShared, Goto, MoveTo, IInv, Types, Queue, QueueLabel, HoldLabel
<1>3. /\ hist' = hist /\ MemType(Loc, Content)'
      /\ \A u \in Thread : cur[u] \subseteq cur'[u]
  BY <1>1, <1>2, Loading
<1>4. "unlock" \in QueueLabel \ {"link"} /\ "unlock" # "wait" /\ "unlock" # "open"
  BY DEF QueueLabel, HoldLabel
<1> QED
  BY <1>2, <1>3, <1>4, Quiet

(* Who loads its next finds null, or the successor that linked itself.     *)
LEMMA FoundNext ==
  ASSUME IInv, NEW t \in Queue, NEW i \in Readable(t, NextOf(t), acquire),
         Load(t, NextOf(t), i, acquire), Val(NextOf(t), i) # Null
  PROVE  /\ Knows(t, NextOf(t))'
         /\ \E s \in Thread : Val(NextOf(t), i) = s /\ LinkedTo(t, s) /\ Knows(t, Gate(s))'
<1>1. t \in Thread /\ NextOf(t) \in Loc /\ acquire \in Acquiring
  BY Locations DEF Queue, Acquiring
<1>2. ~Unlinked(t)
  BY <1>1, Known DEF Unlinked, Cell
<1>3. PICK s \in Thread : LinkedTo(t, s)
  BY <1>1, <1>2 DEF IInv, NextWell
<1>4. i = Newest(NextOf(t))
  BY <1>1, <1>3, AlmostKnown DEF LinkedTo
<1>5. Gate(s) \in Loc
  BY Locations
<1> QED
  BY <1>1, <1>3, <1>4, <1>5, Acquired DEF LinkedTo, Cell

(* In unlock() a holder looks for its successor.                           *)
LEMMA LoadNextStep ==
  ASSUME IInv, NEW t \in Thread, Unlock_LoadNext(t) \/ Unlock_AwaitNext(t)
  PROVE  IInv'
<1>1. PICK i \in Readable(t, NextOf(t), acquire), stay \in {"cas", "await"} :
        /\ Load(t, NextOf(t), i, acquire)
        /\ peer' = [peer EXCEPT ![t] = Val(NextOf(t), i)]
        /\ pc' = [pc EXCEPT ![t] = IF Val(NextOf(t), i) = Null THEN stay ELSE "open"]
  BY DEF Unlock_LoadNext, Unlock_AwaitNext, MoveTo, OrderLoadNext, OrderSpinNext
<1>2. /\ pc[t] \in {"unlock", "await"} /\ calls' = calls
      /\ t \in Queue /\ NextOf(t) \in Loc
  BY Locations DEF Unlock_LoadNext, Unlock_AwaitNext, Queue, QueueLabel, HoldLabel
<1>3. /\ hist' = hist /\ MemType(Loc, Content)' /\ i \in 1..Newest(NextOf(t))
      /\ \A u \in Thread : cur[u] \subseteq cur'[u]
  BY <1>1, <1>2, Loading
<1>4. Val(NextOf(t), i) \in Link
  BY <1>3 DEF IInv, Types
<1>5. /\ {"cas", "await", "open"} \subseteq QueueLabel \ {"link"}
      /\ stay \notin {"wait", "open"} /\ "open" # "wait"
  BY DEF QueueLabel, HoldLabel
<1>6. CASE Val(NextOf(t), i) = Null
  BY <1>1, <1>2, <1>3, <1>4, <1>5, <1>6, Quiet
<1>7. CASE Val(NextOf(t), i) # Null
  <2>1. /\ Knows(t, NextOf(t))'
        /\ \E s \in Thread : Val(NextOf(t), i) = s /\ LinkedTo(t, s) /\ Knows(t, Gate(s))'
    BY <1>1, <1>2, <1>7, FoundNext
  <2> QED
    BY <1>1, <1>2, <1>3, <1>4, <1>5, <1>7, <2>1, Quiet
<1> QED
  BY <1>6, <1>7

(* The compare_exchange fails.                                             *)
LEMMA FindSuccessorStep ==
  ASSUME IInv, NEW t \in Thread, Unlock_FindSuccessor(t)
  PROVE  IInv'
<1>1. PICK i : Load(t, MTail, i, relaxed)
  BY DEF Unlock_FindSuccessor
<1>2. /\ pc[t] = "cas" /\ pc' = [pc EXCEPT ![t] = "await"] /\ calls' = calls
      /\ peer' = [peer EXCEPT ![t] = peer[t]] /\ peer[t] \in Link
      /\ t \in Queue /\ MTail \in Loc
  BY Locations DEF Unlock_FindSuccessor, Goto, MoveTo, IInv, Types, Queue, QueueLabel, HoldLabel
<1>3. /\ hist' = hist /\ MemType(Loc, Content)'
      /\ \A u \in Thread : cur[u] \subseteq cur'[u]
  BY <1>1, <1>2, Loading
<1>4. "await" \in QueueLabel \ {"link"} /\ "await" # "wait" /\ "await" # "open"
  BY DEF QueueLabel, HoldLabel
<1> QED
  BY <1>2, <1>3, <1>4, Quiet

(* Outside the queue a thread prepares its own node.                       *)
LEMMA Prepared ==
  ASSUME IInv, NEW t \in Thread \ Queue, NEW to \in Label \ QueueLabel,
         NEW x \in {NextOf(t), Gate(t)}, NEW v, Fits(x, v), Store(t, x, v, relaxed), Knows(t, x),
         pc' = [pc EXCEPT ![t] = to], peer' = peer, calls' \in 0..MaxCalls,
         NextWell(t)', GateWell(t)'
  PROVE  IInv'
<1>1. x \in Loc \ {MTail, Shared} /\ v \in Content
  BY Locations DEF Fits
<1>2. /\ Appended(Loc, x) /\ MemType(Loc, Content)' /\ Chain'
      /\ hist'[x][Newest(x) + 1].val = v
      /\ \A u \in Thread : cur[u] \subseteq cur'[u]
  BY <1>1, Storing
<1>3. \A y \in Loc \ {x} : hist'[y] = hist[y]
  BY <1>2 DEF Appended
<1>4. pc'[t] = to /\ \A u \in Thread \ {t} : pc'[u] = pc[u]
  BY DEF IInv, Types
<1>5. Types'
  <2>1. pc' \in [Thread -> Label] /\ peer' \in [Thread -> Link]
    BY DEF IInv, Types
  <2> QED
    BY <1>1, <1>2, <2>1, AppendedTypes
<1>6. Queue' = Queue
  <2>1. \A u \in Thread : pc'[u] \in QueueLabel <=> pc[u] \in QueueLabel
    BY <1>4 DEF Queue
  <2> QED
    BY <2>1 DEF Queue
<1>7. \A u \in Thread \ {t} : hist'[NextOf(u)] = hist[NextOf(u)] /\ hist'[Gate(u)] = hist[Gate(u)]
  BY <1>3, Locations
<1>8. \A u \in Queue : Served(u)' <=> Served(u)
  BY <1>4, <1>6, <1>7 DEF Served, Queue, Cell, Val, Newest
<1>9. hist'[MTail] = hist[MTail] /\ hist'[Shared] = hist[Shared]
  BY <1>1, <1>3, Locations
<1>10. Line' /\ Service' /\ \A s, u : Follows(s, u)' <=> Follows(s, u)
  BY <1>6, <1>8, <1>9, SameQueue
<1>11. \A s, u : Follows(s, u) => s \in Thread \ {t} /\ u \in Thread \ {t}
  BY DEF Follows, Queue
<1>12. ASSUME NEW u \in Thread \ {t}
       PROVE  NextWell(u)' /\ GateWell(u)'
  <2>1. NextWell(u)'
    BY <1>2, <1>4, <1>7, <1>10, <1>11, NextKept
  <2>2. GateWell(u)'
    BY <1>2, <1>4, <1>7, <1>9, GateKept
  <2> QED
    BY <2>1, <2>2
<1>13. Handoff'
  <2>1. \A n \in Thread : Cell(MTail) = n => n # t
    BY TailInLine
  <2>2. \A u \in Thread : pc'[u] \in HoldLabel => pc[u] \in HoldLabel
    BY <1>4 DEF QueueLabel
  <2> QED
    BY <1>2, <1>7, <1>9, <2>1, <2>2, HandoffKept
<1> QED
  BY <1>2, <1>5, <1>10, <1>12, <1>13 DEF IInv

(* lock() starts with the node of the thread: its next is null.            *)
LEMMA StoreNextStep ==
  ASSUME IInv, NEW t \in Thread, Lock_StoreNext(t)
  PROVE  IInv'
<1>1. /\ pc[t] = "idle" /\ pc' = [pc EXCEPT ![t] = "setgate"] /\ peer' = peer
      /\ calls < MaxCalls /\ calls' = calls + 1 /\ Store(t, NextOf(t), Null, relaxed)
  BY DEF Lock_StoreNext, Goto, MoveTo
<1>2. t \notin Queue /\ "setgate" \in Label \ QueueLabel
  BY <1>1 DEF Queue, Label, QueueLabel, Waiting, HoldLabel
<1>3. /\ NextOf(t) \in Loc \ {MTail, Shared} /\ Fits(NextOf(t), Null)
      /\ Gate(t) \in Loc \ {NextOf(t)}
  BY Locations DEF Fits, Content, Link
<1>4. Knows(t, NextOf(t)) /\ Knows(t, Gate(t))
  BY <1>1 DEF IInv, NextWell, GateWell
<1>5. calls' \in 0..MaxCalls
  BY <1>1, MCSAssumption DEF IInv, Types
<1>6. /\ Appended(Loc, NextOf(t)) /\ hist'[NextOf(t)][Newest(NextOf(t)) + 1].val = Null
      /\ \A j \in 1..(Newest(NextOf(t)) + 1) : <<NextOf(t), j>> \in cur'[t]
      /\ \A u \in Thread : cur[u] \subseteq cur'[u]
  BY <1>1, <1>3, <1>4, Storing DEF Fits
<1>7. Newest(NextOf(t))' = Newest(NextOf(t)) + 1 /\ hist'[Gate(t)] = hist[Gate(t)]
  BY <1>3, <1>6 DEF Appended, Newest
<1>8. pc'[t] = "setgate"
  BY <1>1 DEF IInv, Types
<1>9. NextWell(t)'
  <2>1. Knows(t, NextOf(t))' /\ Cell(NextOf(t))' = Null
    BY <1>6, <1>7 DEF Knows, Cell, Val
  <2>2. t \notin Queue'
    BY <1>2, <1>8 DEF Queue
  <2> QED
    BY <1>8, <2>1, <2>2 DEF NextWell
<1>10. GateWell(t)'
  BY <1>4, <1>6, <1>7, <1>8 DEF GateWell, Knows, Newest
<1> QED
  BY <1>1, <1>2, <1>3, <1>4, <1>5, <1>9, <1>10, Prepared

(* And its gate is shut.                                                   *)
LEMMA StoreGateStep ==
  ASSUME IInv, NEW t \in Thread, Lock_StoreGate(t)
  PROVE  IInv'
<1>1. /\ pc[t] = "setgate" /\ pc' = [pc EXCEPT ![t] = "exchange"] /\ peer' = peer
      /\ calls' = calls /\ Store(t, Gate(t), 1, relaxed)
  BY DEF Lock_StoreGate, Goto, MoveTo
<1>2. t \notin Queue /\ "exchange" \in Label \ QueueLabel
  BY <1>1 DEF Queue, Label, QueueLabel, Waiting, HoldLabel
<1>3. /\ Gate(t) \in Loc \ {MTail, Shared} /\ Fits(Gate(t), 1)
      /\ NextOf(t) \in Loc \ {Gate(t)}
  BY Locations DEF Fits, Content
<1>4. Knows(t, NextOf(t)) /\ Knows(t, Gate(t)) /\ Cell(NextOf(t)) = Null
  BY <1>1 DEF IInv, NextWell, GateWell
<1>5. calls' \in 0..MaxCalls
  BY <1>1 DEF IInv, Types
<1>6. /\ Appended(Loc, Gate(t)) /\ hist'[Gate(t)][Newest(Gate(t)) + 1].val = 1
      /\ \A j \in 1..(Newest(Gate(t)) + 1) : <<Gate(t), j>> \in cur'[t]
      /\ \A u \in Thread : cur[u] \subseteq cur'[u]
  BY <1>1, <1>3, <1>4, Storing DEF Fits
<1>7. Newest(Gate(t))' = Newest(Gate(t)) + 1 /\ hist'[NextOf(t)] = hist[NextOf(t)]
  BY <1>3, <1>6 DEF Appended, Newest
<1>8. pc'[t] = "exchange"
  BY <1>1 DEF IInv, Types
<1>9. NextWell(t)'
  <2>1. Knows(t, NextOf(t))' /\ Cell(NextOf(t))' = Null
    BY <1>4, <1>6, <1>7 DEF Knows, Cell, Val, Newest
  <2>2. t \notin Queue'
    BY <1>2, <1>8 DEF Queue
  <2> QED
    BY <1>8, <2>1, <2>2 DEF NextWell
<1>10. GateWell(t)'
  BY <1>6, <1>7, <1>8 DEF GateWell, Knows, Cell, Val
<1> QED
  BY <1>1, <1>2, <1>3, <1>4, <1>5, <1>9, <1>10, Prepared

(* The holder writes the shared data.                                      *)
LEMMA WriteSharedStep ==
  ASSUME IInv, NEW t \in Thread, WriteShared(t)
  PROVE  IInv'
<1>1. /\ pc[t] = "cs" /\ pc' = [pc EXCEPT ![t] = "unlock"] /\ peer' = peer
      /\ calls' = calls /\ Store(t, Shared, 1, relaxed)
  BY DEF WriteShared, Goto, MoveTo
<1>2. /\ t \in Queue /\ Served(t) /\ Knows(t, Shared) /\ Shared \in Loc \ {MTail}
      /\ 1 \in Content
  BY <1>1, Locations
  DEF Queue, QueueLabel, HoldLabel, Served, IInv, Handoff, Content
<1>3. /\ Appended(Loc, Shared) /\ MemType(Loc, Content)' /\ Chain'
      /\ hist'[Shared][Newest(Shared) + 1].val = 1
      /\ \A u \in Thread : cur[u] \subseteq cur'[u]
      /\ \A j \in 1..(Newest(Shared) + 1) : <<Shared, j>> \in cur'[t]
  BY <1>1, <1>2, Storing
<1>4. Newest(Shared)' = Newest(Shared) + 1 /\ \A y \in Loc \ {Shared} : hist'[y] = hist[y]
  BY <1>3 DEF Appended, Newest
<1>5. pc'[t] = "unlock" /\ \A u \in Thread \ {t} : pc'[u] = pc[u]
  BY <1>1 DEF IInv, Types
<1>6. Types'
  <2>1. pc' \in [Thread -> Label] /\ peer' \in [Thread -> Link] /\ calls' \in 0..MaxCalls
    BY <1>1 DEF IInv, Types, Label, QueueLabel, HoldLabel
  <2>2. Fits(Shared, 1)
    BY <1>2, Locations DEF Fits
  <2> QED
    BY <1>2, <1>3, <2>1, <2>2, AppendedTypes
<1>7. Queue' = Queue
  <2>1. \A u \in Thread : pc'[u] \in QueueLabel <=> pc[u] \in QueueLabel
    BY <1>1, <1>5 DEF QueueLabel, HoldLabel
  <2> QED
    BY <2>1 DEF Queue
<1>8. /\ \A u \in Thread : hist'[NextOf(u)] = hist[NextOf(u)] /\ hist'[Gate(u)] = hist[Gate(u)]
      /\ hist'[MTail] = hist[MTail]
  BY <1>4, Locations
<1>9. \A u \in Queue : Served(u)' <=> Served(u)
  BY <1>1, <1>5, <1>7, <1>8 DEF Served, Queue, Cell, Val, Newest
<1>10. Line' /\ Service' /\ \A s, u : Follows(s, u)' <=> Follows(s, u)
  BY <1>7, <1>8, <1>9, SameQueue
<1>11. \A u \in Thread : ~Follows(t, u)
  BY <1>2, NotServed
<1>12. ASSUME NEW u \in Thread \ {t}
       PROVE  NextWell(u)' /\ GateWell(u)'
  <2>1. NextWell(u)'
    BY <1>1, <1>3, <1>5, <1>8, <1>10, <1>11, NextKept
  <2>2. ~Served(u)
    BY <1>2, OneServed DEF Served
  <2>3. GateWell(u)'
    BY <1>3, <1>5, <1>8, <2>2, GateKept
  <2> QED
    BY <2>1, <2>3
<1>13. NextWell(t)'
  <2>1. Unlinked(t)' \/ \E s \in Thread : LinkedTo(t, s)'
    BY <1>2, <1>3, <1>5, <1>8, <1>10, <1>11, LinksKept
  <2> QED
    BY <1>5, <2>1 DEF NextWell
<1>14. GateWell(t)'
  <2>1. Knows(t, Gate(t))
    BY <1>1 DEF IInv, GateWell
  <2> QED
    BY <1>3, <1>5, <1>8, <2>1 DEF GateWell, Knows, Newest
<1>15. Handoff'
  <2>1. \A u \in Thread, x \in Loc : <<x, 1>> \in cur'[u]
    BY <1>3 DEF IInv, Handoff
  <2>2. \A u \in Thread : pc'[u] \in HoldLabel => u = t
    <3>1. \A u \in Thread : pc'[u] \in HoldLabel /\ u # t => u \in Queue /\ Served(u)
      BY <1>5 DEF Queue, QueueLabel, HoldLabel, Served
    <3> QED
      BY <1>2, <3>1, OneServed
  <2>3. Knows(t, Shared)'
    BY <1>3, <1>4 DEF Knows
  <2>4. Cell(MTail)' = Cell(MTail) /\ NewestView(MTail)' = NewestView(MTail)
    BY <1>8 DEF Cell, Val, NewestView, Newest
  <2>5. Cell(MTail) # Null
    BY <1>2, LastInLine
  <2>6. \A n \in Thread : Cell(MTail)' = n => Carries(NewestView(MTail), NextOf(n))'
    BY <1>8, <2>4 DEF IInv, Handoff, Carries, Newest
  <2> QED
    BY <2>1, <2>2, <2>3, <2>4, <2>5, <2>6 DEF Handoff
<1> QED
  BY <1>3, <1>6, <1>10, <1>12, <1>13, <1>14, <1>15 DEF IInv

(* A thread that has a predecessor links itself to it.                     *)
LEMMA LinkPredStep ==
  ASSUME IInv, NEW t \in Thread, Lock_LinkPred(t)
  PROVE  IInv'
<1>1. PICK p \in Thread : peer[t] = p /\ Follows(t, p) /\ Knows(t, NextOf(p))
  BY DEF Lock_LinkPred, Goto, IInv, NextWell
<1>2. /\ pc[t] = "link" /\ pc' = [pc EXCEPT ![t] = "wait"] /\ peer' = peer
      /\ calls' = calls /\ Store(t, NextOf(p), t, release)
  BY <1>1 DEF Lock_LinkPred, Goto, MoveTo, OrderLink
<1>3. /\ t \in Queue /\ p \in Queue /\ t # p /\ ~Served(t)
      /\ \A u \in Thread : Follows(u, p) => u = t
      /\ \A u \in Thread : Follows(t, u) => u = p
  BY <1>1, NotServed DEF Follows
<1>4. NextOf(p) \in Loc \ {MTail, Shared} /\ t \in Content /\ Fits(NextOf(p), t)
  BY Locations DEF Fits, Content, Link
<1>5. /\ Appended(Loc, NextOf(p)) /\ MemType(Loc, Content)' /\ Chain'
      /\ hist'[NextOf(p)][Newest(NextOf(p)) + 1].val = t
      /\ hist'[NextOf(p)][Newest(NextOf(p)) + 1].view = cur[t]
      /\ \A u \in Thread : cur[u] \subseteq cur'[u]
      /\ Newest(NextOf(p)) \in Nat /\ Newest(NextOf(p)) >= 1
  BY <1>1, <1>2, <1>4, Storing DEF Released, Releasing
<1>6. /\ Newest(NextOf(p))' = Newest(NextOf(p)) + 1
      /\ \A k \in 1..Newest(NextOf(p)) : hist'[NextOf(p)][k] = hist[NextOf(p)][k]
      /\ \A y \in Loc \ {NextOf(p)} : hist'[y] = hist[y]
  BY <1>5 DEF Appended, Newest
<1>7. pc'[t] = "wait" /\ \A u \in Thread \ {t} : pc'[u] = pc[u]
  BY <1>2 DEF IInv, Types
<1>8. Types'
  <2>1. pc' \in [Thread -> Label] /\ peer' \in [Thread -> Link] /\ calls' \in 0..MaxCalls
    BY <1>2 DEF IInv, Types, Label, QueueLabel, Waiting
  <2> QED
    BY <1>4, <1>5, <2>1, AppendedTypes
<1>9. Queue' = Queue
  <2>1. \A u \in Thread : pc'[u] \in QueueLabel <=> pc[u] \in QueueLabel
    BY <1>2, <1>7 DEF QueueLabel, Waiting
  <2> QED
    BY <2>1 DEF Queue
<1>10. /\ \A u \in Thread \ {p} : hist'[NextOf(u)] = hist[NextOf(u)]
       /\ \A u \in Thread : hist'[Gate(u)] = hist[Gate(u)]
       /\ hist'[MTail] = hist[MTail] /\ hist'[Shared] = hist[Shared]
  BY <1>6, Locations
<1>11. Cell(Gate(t)) = 1 /\ Knows(t, Gate(t))
  BY <1>2 DEF IInv, GateWell
<1>12. \A u \in Queue : Served(u)' <=> Served(u)
  <2>1. Cell(Gate(t))' = Cell(Gate(t))
    BY <1>10 DEF Cell, Val, Newest
  <2>2. ~Served(t)'
    BY <1>7, <1>11, <2>1 DEF Served
  <2> QED
    BY <1>3, <1>7, <1>9, <1>10, <2>2 DEF Served, Queue, Cell, Val, Newest
<1>13. Line' /\ Service' /\ \A s, u : Follows(s, u)' <=> Follows(s, u)
  BY <1>9, <1>10, <1>12, SameQueue
<1>14. ASSUME NEW u \in Thread \ {t, p}
       PROVE  NextWell(u)'
  <2>1. \A s \in Thread : Follows(s, u) => pc'[s] = pc[s] /\ hist'[Gate(s)] = hist[Gate(s)]
    BY <1>3, <1>7, <1>10
  <2>2. \A q \in Thread : Follows(u, q) => q # p
    BY <1>3
  <2> QED
    BY <1>2, <1>5, <1>7, <1>10, <1>13, <2>1, <2>2, NextKept
<1>15. LinkedTo(p, t)'
  <2>1. ~\E s \in Thread : LinkedTo(p, s)
    BY <1>2, <1>3 DEF LinkedTo
  <2>2. Unlinked(p)
    BY <1>3, <2>1 DEF IInv, NextWell
  <2>3. Follows(t, p)' /\ pc'[t] = "wait"
    BY <1>1, <1>7, <1>13
  <2>4. Cell(NextOf(p))' = t
    BY <1>5, <1>6 DEF Cell, Val
  <2>5. Newest(NextOf(p))' >= 2 /\ Val(NextOf(p), Newest(NextOf(p)) - 1)' = Null
    BY <1>5, <1>6, <2>2 DEF Unlinked, Cell, Val
  <2>6. KnowsAllBut(p, NextOf(p))'
    BY <1>3, <1>5, <1>6, <2>2 DEF Unlinked, Knows, KnowsAllBut
  <2>7. Carries(NewestView(NextOf(p)), Gate(t))'
    BY <1>5, <1>6, <1>10, <1>11 DEF Carries, NewestView, Knows, Newest
  <2> QED
    BY <2>3, <2>4, <2>5, <2>6, <2>7 DEF LinkedTo
<1>16. NextWell(p)'
  <2>1. pc[p] \notin {"idle", "done", "setgate", "exchange"}
    BY <1>3 DEF Queue, QueueLabel, Waiting, HoldLabel
  <2>2. pc[p] # "open"
    BY <1>2, <1>3 DEF IInv, NextWell, LinkedTo
  <2>3. pc[p] = "link" =>
          \E q \in Thread : peer'[p] = q /\ Follows(p, q)' /\ Knows(p, NextOf(q))'
    <3> SUFFICES ASSUME pc[p] = "link"
                 PROVE  \E q \in Thread : peer'[p] = q /\ Follows(p, q)' /\ Knows(p, NextOf(q))'
      OBVIOUS
    <3>1. PICK q \in Thread : peer[p] = q /\ Follows(p, q) /\ Knows(p, NextOf(q))
      BY DEF IInv, NextWell
    <3>2. q # p
      BY <3>1, NotServed
    <3> QED
      BY <1>2, <1>5, <1>10, <1>13, <3>1, <3>2 DEF Knows, Newest
  <2> QED
    BY <1>3, <1>7, <1>15, <2>1, <2>2, <2>3 DEF NextWell
<1>17. NextWell(t)'
  <2>1. \A s \in Thread : Follows(s, t) => s # t
    BY NotServed
  <2>2. Unlinked(t)' \/ \E s \in Thread : LinkedTo(t, s)'
    BY <1>3, <1>5, <1>7, <1>10, <1>13, <2>1, LinksKept
  <2> QED
    BY <1>7, <2>2 DEF NextWell
<1>18. \A u \in Thread \ {t} : GateWell(u)'
  BY <1>5, <1>7, <1>10, GateKept
<1>19. GateWell(t)'
  BY <1>5, <1>7, <1>10, <1>11 DEF GateWell, Cell, Val, Knows, Newest
<1>20. Handoff'
  <2>1. \A n \in Thread : Cell(MTail) = n => n # p
    <3>1. Turn(t) = Turn(p) + 1 /\ Turn(t) \in 2..Newest(MTail) /\ Turn(p) \in Nat
          /\ Newest(MTail) \in Nat
      BY <1>1, <1>3, Turns DEF Follows
    <3>2. Turn(p) # Newest(MTail)
      BY <3>1
    <3> QED
      BY <3>2, TailInLine
  <2>2. \A u \in Thread : pc'[u] \in HoldLabel => pc[u] \in HoldLabel
    BY <1>7 DEF HoldLabel
  <2> QED
    BY <1>5, <1>10, <2>1, <2>2, HandoffKept
<1> QED
  BY <1>5, <1>8, <1>13, <1>14, <1>16, <1>17, <1>18, <1>19, <1>20 DEF IInv

(* A holder that leaves hands the lock to the thread that follows it.      *)
LEMMA OpenGateStep ==
  ASSUME IInv, NEW t \in Thread, Unlock_OpenGate(t)
  PROVE  IInv'
<1>1. PICK s \in Thread : peer[t] = s /\ LinkedTo(t, s) /\ Knows(t, Gate(s))
  BY DEF Unlock_OpenGate, Return, Goto, IInv, NextWell
<1>2. PICK to \in {"idle", "done"} :
        /\ pc[t] = "open" /\ pc' = [pc EXCEPT ![t] = to] /\ peer' = peer
        /\ calls' = calls /\ Store(t, Gate(s), 0, release)
  BY <1>1 DEF Unlock_OpenGate, Return, Goto, MoveTo, OrderOpenGate
<1>3. /\ t \in Queue /\ s \in Queue /\ Served(t) /\ Follows(s, t) /\ pc[s] = "wait"
  BY <1>1, <1>2 DEF LinkedTo, Follows, Queue, QueueLabel, HoldLabel, Served
<1>4. /\ s # t /\ Cell(Gate(s)) = 1 /\ Knows(s, Gate(s))
      /\ \A u \in Thread : Follows(u, t) => u = s
      /\ \A u \in Thread : Follows(s, u) => u = t
      /\ \A u \in Thread : ~Follows(t, u)
  <2>1. \A u \in Thread : ~Follows(t, u)
    BY <1>3, NotServed
  <2> QED
    BY <1>3, <2>1, NotServed
<1>5. Gate(s) \in Loc \ {MTail, Shared} /\ 0 \in Content /\ Fits(Gate(s), 0)
  BY Locations DEF Fits, Content
<1>6. /\ Appended(Loc, Gate(s)) /\ MemType(Loc, Content)' /\ Chain'
      /\ hist'[Gate(s)][Newest(Gate(s)) + 1].val = 0
      /\ hist'[Gate(s)][Newest(Gate(s)) + 1].view = cur[t]
      /\ \A u \in Thread : cur[u] \subseteq cur'[u]
      /\ Newest(Gate(s)) \in Nat /\ Newest(Gate(s)) >= 1
  BY <1>1, <1>2, <1>5, Storing DEF Released, Releasing
<1>7. /\ Newest(Gate(s))' = Newest(Gate(s)) + 1
      /\ \A k \in 1..Newest(Gate(s)) : hist'[Gate(s)][k] = hist[Gate(s)][k]
      /\ \A y \in Loc \ {Gate(s)} : hist'[y] = hist[y]
  BY <1>6 DEF Appended, Newest
<1>8. pc'[t] = to /\ \A u \in Thread \ {t} : pc'[u] = pc[u]
  BY <1>2 DEF IInv, Types
<1>9. Types'
  <2>1. pc' \in [Thread -> Label] /\ peer' \in [Thread -> Link] /\ calls' \in 0..MaxCalls
    BY <1>2 DEF IInv, Types, Label
  <2> QED
    BY <1>5, <1>6, <2>1, AppendedTypes
<1>10. Queue' = Queue \ {t}
  <2>1. to \notin QueueLabel
    BY DEF QueueLabel, Waiting, HoldLabel
  <2> QED
    BY <1>8, <2>1 DEF Queue
<1>11. /\ \A u \in Thread : hist'[NextOf(u)] = hist[NextOf(u)]
       /\ \A u \in Thread \ {s} : hist'[Gate(u)] = hist[Gate(u)]
       /\ hist'[MTail] = hist[MTail] /\ hist'[Shared] = hist[Shared]
  BY <1>7, Locations
<1>12. /\ \A u : Turn(u)' = Turn(u)
       /\ Newest(MTail)' = Newest(MTail) /\ Cell(MTail)' = Cell(MTail)
       /\ \A k : Val(MTail, k)' = Val(MTail, k)
  BY <1>11, TurnKept DEF Newest, Val, Cell
<1>13. /\ Turn(t) \in Nat /\ Turn(s) = Turn(t) + 1 /\ Newest(MTail) \in Nat
       /\ \A u \in Queue \ {t} : Turn(u) > Turn(t) /\ Turn(u) \in 2..Newest(MTail)
       /\ \A u \in Queue \ {s} : Turn(u) # Turn(s)
  BY <1>3, Turns, OneServed DEF Follows
<1>14. ASSUME NEW k, InLine(k), k > Turn(t)
       PROVE  InLine(k)'
  <2>1. PICK n \in Queue : Val(MTail, k) = n /\ Turn(n) = k
    BY <1>14 DEF InLine
  <2>2. n # t
    BY <1>13, <1>14, <2>1
  <2> QED
    BY <1>10, <1>12, <2>1, <2>2 DEF InLine, Val
<1>15. Line'
  <2>1. ASSUME NEW u \in Queue \ {t}
        PROVE  /\ Turn(u)' \in 2..Newest(MTail) /\ Val(MTail, Turn(u))' = u
               /\ \A k \in Turn(u)..Newest(MTail) : InLine(k)'
    <3>1. \A k \in Turn(u)..Newest(MTail) : InLine(k) /\ k > Turn(t)
      BY <1>13 DEF IInv, Line
    <3> QED
      BY <1>12, <1>14, <3>1, Turns DEF Val
  <2>2. InLine(Newest(MTail))'
    <3>1. Newest(MTail) \in Turn(s)..Newest(MTail)
      BY <1>3, <1>4, <1>13
    <3>2. PICK k : k = Newest(MTail)
      OBVIOUS
    <3>3. InLine(k)' /\ Newest(MTail)' = k
      BY <1>3, <1>4, <1>12, <2>1, <3>1, <3>2
    <3> QED
      BY <3>3 DEF InLine, Val
  <2> QED
    BY <1>10, <1>12, <2>1, <2>2 DEF Line
<1>16. Served(s)'
  <2>1. Cell(Gate(s))' = 0
    BY <1>6, <1>7 DEF Cell, Val
  <2> QED
    BY <1>3, <1>4, <1>8, <1>10, <2>1 DEF Served
<1>17. \A u \in Queue \ {t, s} : ~Served(u)'
  <2>1. \A u \in Queue \ {t, s} : ~Served(u)
    BY <1>3, OneServed
  <2> QED
    BY <1>8, <1>10, <1>11, <2>1 DEF Served, Queue, Cell, Val, Newest
<1>18. Service'
  <2>1. \A w \in Queue \ {t} : Turn(s)' <= Turn(w)'
    BY <1>12, <1>13
  <2>2. ASSUME NEW u \in Queue \ {t, s}
        PROVE  InLine(Turn(u) - 1)'
    <3>1. InLine(Turn(u) - 1)
      BY <1>3, OneServed DEF IInv, Service
    <3>2. PICK k : k = Turn(u) - 1
      OBVIOUS
    <3>3. k > Turn(t)
      BY <1>13, <3>2
    <3>4. InLine(k)' /\ Turn(u)' - 1 = k
      BY <1>12, <1>14, <3>1, <3>2, <3>3
    <3> QED
      BY <3>4 DEF InLine, Val
  <2> QED
    BY <1>10, <1>16, <1>17, <2>1, <2>2 DEF Service
<1>19. \A x, u : u # t => (Follows(x, u)' <=> Follows(x, u))
  BY <1>4, <1>10, <1>12 DEF Follows, Queue
<1>20. ASSUME NEW u \in Thread \ {t}
       PROVE  NextWell(u)'
  <2>1. \A x \in Thread : Follows(x, u) => pc'[x] = pc[x] /\ hist'[Gate(x)] = hist[Gate(x)]
    BY <1>4, <1>8, <1>11
  <2>2. \A p \in Thread : pc[u] = "link" /\ Follows(u, p) => p # t
    BY <1>3, <1>4
  <2> QED
    BY <1>2, <1>6, <1>8, <1>11, <1>19, <2>1, <2>2, NextKept
<1>21. NextWell(t)'
  <2>1. Knows(t, NextOf(t))
    BY <1>2 DEF IInv, NextWell
  <2>2. Knows(t, NextOf(t))'
    BY <1>6, <1>11, <2>1 DEF Knows, Newest
  <2> QED
    BY <1>8, <1>10, <2>2 DEF NextWell
<1>22. \A u \in Thread \ {t, s} : GateWell(u)'
  BY <1>6, <1>8, <1>11, GateKept
<1>23. GateWell(t)'
  <2>1. Knows(t, Gate(t))
    BY <1>2 DEF IInv, GateWell
  <2> QED
    BY <1>4, <1>6, <1>8, <1>11, <2>1 DEF GateWell, Knows, Newest
<1>24. GateWell(s)'
  <2>1. Cell(Gate(s))' = 0
    BY <1>6, <1>7 DEF Cell, Val
  <2>2. Newest(Gate(s))' >= 2 /\ Val(Gate(s), Newest(Gate(s)) - 1)' = 1
    BY <1>4, <1>6, <1>7 DEF Cell, Val
  <2>3. KnowsAllBut(s, Gate(s))'
    BY <1>4, <1>6, <1>7 DEF Knows, KnowsAllBut
  <2>4. Knows(t, Shared) /\ Newest(Shared) \in Nat
    BY <1>2, Lengths, Locations DEF IInv, Handoff, HoldLabel
  <2>5. Carries(NewestView(Gate(s)), Shared)'
    BY <1>6, <1>7, <1>11, <2>4 DEF Carries, NewestView, Knows, Newest
  <2> QED
    BY <1>3, <1>4, <1>8, <2>1, <2>2, <2>3, <2>5 DEF GateWell, Opened
<1>25. Handoff'
  <2>1. \A u \in Thread : pc'[u] \in HoldLabel => pc[u] \in HoldLabel
    BY <1>2, <1>8 DEF HoldLabel
  <2> QED
    BY <1>6, <1>11, <2>1, HandoffKept
<1> QED
  BY <1>6, <1>9, <1>15, <1>18, <1>20, <1>21, <1>22, <1>23, <1>24, <1>25 DEF IInv

(* A thread joins the queue with its exchange of the tail.                 *)
LEMMA ExchangeTailStep ==
  ASSUME IInv, NEW t \in Thread, Lock_ExchangeTail(t)
  PROVE  IInv'
<1>1. PICK i : /\ ReadModifyWrite(t, MTail, i, t, acq_rel)
               /\ peer' = [peer EXCEPT ![t] = Val(MTail, i)]
               /\ pc' = [pc EXCEPT ![t] = IF Val(MTail, i) = Null THEN "cs" ELSE "link"]
  BY DEF Lock_ExchangeTail, MoveTo, OrderExchange
<1>2. pc[t] = "exchange" /\ calls' = calls /\ t \notin Queue
  BY DEF Lock_ExchangeTail, Queue, QueueLabel, Waiting, HoldLabel
<1>3. /\ i = Newest(MTail) /\ Newest(MTail) \in Nat /\ Newest(MTail) >= 1
      /\ Appended(Loc, MTail) /\ MemType(Loc, Content)' /\ Chain'
      /\ hist'[MTail][Newest(MTail) + 1].val = t
      /\ cur[t] \subseteq hist'[MTail][Newest(MTail) + 1].view
      /\ NewestView(MTail) \subseteq cur'[t]
      /\ \A u \in Thread : cur[u] \subseteq cur'[u]
  BY <1>1, Exchanging DEF Releasing, Acquiring, Link
<1>4. /\ Newest(MTail)' = Newest(MTail) + 1
      /\ \A k \in 1..Newest(MTail) : Val(MTail, k)' = Val(MTail, k)
      /\ \A u : u # t => Turn(u)' = Turn(u)
      /\ Turn(t)' = Newest(MTail) + 1
      /\ \A y \in Loc \ {MTail} : hist'[y] = hist[y]
  BY <1>3, TurnAppended DEF Appended, Newest, Val
<1>5. /\ pc'[t] = IF Cell(MTail) = Null THEN "cs" ELSE "link"
      /\ peer'[t] = Cell(MTail)
      /\ \A u \in Thread \ {t} : pc'[u] = pc[u] /\ peer'[u] = peer[u]
  BY <1>1, <1>3 DEF IInv, Types, Cell
<1>6. Types'
  <2>1. Cell(MTail) \in Link
    BY <1>3 DEF IInv, Types, Cell
  <2>2. pc' \in [Thread -> Label] /\ peer' \in [Thread -> Link] /\ calls' \in 0..MaxCalls
    BY <1>1, <1>2, <1>3, <2>1 DEF IInv, Types, Cell, Label, QueueLabel, Waiting, HoldLabel
  <2>3. MTail \in Loc /\ Fits(MTail, t)
    BY Locations DEF Fits, Content, Link
  <2> QED
    BY <1>3, <2>2, <2>3, AppendedTypes
<1>7. Queue' = Queue \cup {t}
  BY <1>5 DEF Queue, QueueLabel, Waiting, HoldLabel
<1>8. /\ \A u \in Thread : hist'[NextOf(u)] = hist[NextOf(u)] /\ hist'[Gate(u)] = hist[Gate(u)]
      /\ hist'[Shared] = hist[Shared]
  BY <1>4, Locations
<1>9. \A u \in Queue : Turn(u) \in 2..Newest(MTail) /\ u # t /\ Turn(u)' = Turn(u)
  BY <1>2, <1>4, Turns
<1>10. ASSUME NEW k \in 1..Newest(MTail), InLine(k)
       PROVE  InLine(k)'
  BY <1>4, <1>7, <1>9, <1>10 DEF InLine, Val
<1>11. Line'
  <2>1. PICK last : last = Newest(MTail) + 1
    OBVIOUS
  <2>2. InLine(last)' /\ Newest(MTail)' = last
    BY <1>3, <1>4, <1>7, <2>1 DEF InLine, Val
  <2>3. ASSUME NEW u \in Queue
        PROVE  \A k \in Turn(u)..last : InLine(k)'
    <3>1. \A k \in Turn(u)..last : k = last \/ (k \in Turn(u)..Newest(MTail) /\ k \in 1..Newest(MTail))
      BY <1>3, <1>9, <2>1
    <3>2. \A k \in Turn(u)..Newest(MTail) : InLine(k)
      BY DEF IInv, Line
    <3> QED
      BY <1>10, <2>2, <3>1, <3>2
  <2>4. \A u \in Queue : Turn(u)' \in 2..last /\ hist'[MTail][Turn(u)].val = u
    <3>1. \A u \in Queue : Turn(u) \in 1..Newest(MTail) /\ Val(MTail, Turn(u)) = u
      BY <1>3, Turns
    <3> QED
      BY <1>3, <1>4, <1>9, <2>1, <3>1 DEF Val
  <2>5. Turn(t)' \in 2..last /\ hist'[MTail][last].val = t /\ Turn(t)' = last
    BY <1>3, <1>4, <2>1
  <2>6. \A k \in last..last : k = last
    BY <1>3, <2>1
  <2>7. InLine(Newest(MTail))'
    BY <2>2 DEF InLine, Val
  <2> QED
    BY <1>7, <1>9, <2>2, <2>3, <2>4, <2>5, <2>6, <2>7 DEF Line, Val
<1>12. \A u \in Queue : Served(u)' <=> Served(u)
  BY <1>5, <1>7, <1>8, <1>9 DEF Served, Queue, Cell, Val, Newest
<1>13. Cell(MTail) = Null => Queue = {}
  BY LastInLine
<1>14. Service'
  <2>1. ASSUME NEW u \in Queue
        PROVE  IF Served(u)' THEN \A w \in Queue' : Turn(u)' <= Turn(w)' ELSE InLine(Turn(u) - 1)'
    <3>1. CASE Served(u)
      <4>1. \A w \in Queue : Turn(u)' <= Turn(w)'
        BY <1>9, <3>1 DEF IInv, Service
      <4>2. Turn(u)' <= Turn(t)'
        BY <1>3, <1>4, <1>9
      <4> QED
        BY <1>7, <1>12, <3>1, <4>1, <4>2
    <3>2. CASE ~Served(u)
      <4>1. PICK k : k = Turn(u) - 1
        OBVIOUS
      <4>2. InLine(k) /\ k \in 1..Newest(MTail) /\ Turn(u)' - 1 = k
        BY <1>3, <1>9, <3>2, <4>1 DEF IInv, Service
      <4>3. InLine(k)'
        BY <1>10, <4>2
      <4> QED
        BY <1>12, <3>2, <4>2, <4>3 DEF InLine, Val
    <3> QED
      BY <3>1, <3>2
  <2>2. CASE Cell(MTail) = Null
    <3>1. Queue' = {t} /\ \A w \in Queue' : Turn(t)' <= Turn(w)'
      BY <1>3, <1>4, <1>7, <1>13, <2>2
    <3>2. Served(t)'
      BY <1>5, <2>2, <3>1 DEF Served
    <3> QED
      BY <3>1, <3>2 DEF Service
  <2>3. CASE Cell(MTail) # Null
    <3>1. PICK k : k = Newest(MTail)
      OBVIOUS
    <3>2. InLine(k)' /\ Turn(t)' - 1 = k
      BY <1>3, <1>4, <1>10, <2>3, <3>1 DEF IInv, Line
    <3>3. ~Served(t)'
      BY <1>5, <2>3 DEF Served
    <3>4. InLine(Turn(t) - 1)'
      BY <3>2 DEF InLine, Val
    <3> QED
      BY <1>7, <2>1, <3>3, <3>4 DEF Service
  <2> QED
    BY <2>2, <2>3
<1>15. /\ \A s, u : s # t => (Follows(s, u)' <=> Follows(s, u))
       /\ \A u : Follows(t, u)' <=> u \in Queue /\ Turn(u) = Newest(MTail)
       /\ \A u : ~Follows(t, u)
  <2>1. \A s, u : s # t /\ u # t => (Follows(s, u)' <=> Follows(s, u))
    BY <1>4, <1>7 DEF Follows
  <2>2. \A s : s # t => ~Follows(s, t)' /\ ~Follows(s, t)
    BY <1>2, <1>3, <1>4, <1>7, <1>9 DEF Follows
  <2>3. \A u : Follows(t, u)' <=> u \in Queue /\ Turn(u) = Newest(MTail)
    BY <1>3, <1>4, <1>7, <1>9 DEF Follows
  <2>4. \A u : ~Follows(t, u)
    BY <1>2 DEF Follows
  <2> QED
    BY <2>1, <2>2, <2>3, <2>4
<1>16. ASSUME NEW u \in Thread \ {t}, ~(u \in Queue /\ Turn(u) = Newest(MTail))
       PROVE  NextWell(u)'
  <2>1. \A s \in Thread : Follows(s, u)' <=> Follows(s, u)
    BY <1>15, <1>16
  <2>2. \A s \in Thread : Follows(s, u) => pc'[s] = pc[s] /\ hist'[Gate(s)] = hist[Gate(s)]
    BY <1>5, <1>8, <1>15
  <2>3. \A p \in Thread : Follows(u, p) => Follows(u, p)' /\ hist'[NextOf(p)] = hist[NextOf(p)]
    BY <1>8, <1>15
  <2> QED
    BY <1>3, <1>5, <1>8, <2>1, <2>2, <2>3, NextKept
<1>17. ASSUME NEW u \in Thread \ {t}, u \in Queue, Turn(u) = Newest(MTail)
       PROVE  NextWell(u)'
  <2>1. \A s \in Thread : ~Follows(s, u)
    BY <1>3, <1>9, <1>17 DEF Follows
  <2>2. Unlinked(u) /\ pc[u] # "open"
    BY <1>17, <2>1 DEF IInv, NextWell, LinkedTo
  <2>3. Unlinked(u)'
    <3>1. Cell(NextOf(u))' = Null /\ Knows(u, NextOf(u))'
      BY <1>3, <1>8, <2>2 DEF Unlinked, Cell, Val, Knows, Newest
    <3>2. \A s \in Thread : Follows(s, u)' => pc'[s] = "link"
      <4>1. Cell(MTail) # Null
        BY <1>13, <1>17
      <4> QED
        BY <1>5, <1>15, <2>1, <4>1
    <3> QED
      BY <3>1, <3>2 DEF Unlinked
  <2>4. pc[u] = "link" =>
          \E q \in Thread : peer'[u] = q /\ Follows(u, q)' /\ Knows(u, NextOf(q))'
    <3> SUFFICES ASSUME pc[u] = "link"
                 PROVE  \E q \in Thread : peer'[u] = q /\ Follows(u, q)' /\ Knows(u, NextOf(q))'
      OBVIOUS
    <3>1. PICK q \in Thread : peer[u] = q /\ Follows(u, q) /\ Knows(u, NextOf(q))
      BY DEF IInv, NextWell
    <3> QED
      BY <1>3, <1>5, <1>8, <1>15, <3>1 DEF Knows, Newest
  <2>5. pc[u] \notin {"idle", "done", "setgate", "exchange"}
    BY <1>17 DEF Queue, QueueLabel, Waiting, HoldLabel
  <2> QED
    BY <1>5, <2>2, <2>3, <2>4, <2>5 DEF NextWell
<1>18. NextWell(t)'
  <2>1. Unlinked(t)'
    <3>1. Cell(NextOf(t)) = Null /\ Knows(t, NextOf(t))
      BY <1>2 DEF IInv, NextWell
    <3>2. \A s \in Thread : ~Follows(s, t)'
      <4>1. \A s \in Thread : ~Follows(s, t)
        BY <1>2 DEF Follows
      <4> QED
        BY <1>2, <1>15, <4>1
    <3> QED
      BY <1>3, <1>8, <3>1, <3>2 DEF Unlinked, Cell, Val, Knows, Newest
  <2>2. CASE Cell(MTail) = Null
    BY <1>5, <2>1, <2>2 DEF NextWell
  <2>3. CASE Cell(MTail) # Null
    <3>1. PICK p \in Thread : Cell(MTail) = p
      BY <1>3, <2>3 DEF IInv, Types, Cell, Link
    <3>2. Follows(t, p)'
      BY <1>15, <3>1, TailInLine
    <3>3. Knows(t, NextOf(p))'
      <4>1. NextOf(p) \in Loc /\ Newest(NextOf(p)) \in Nat
        BY Locations, Lengths DEF IInv
      <4>2. <<NextOf(p), 1>> \in cur'[t]
        BY <1>3, <4>1 DEF IInv, Handoff
      <4>3. \A j \in 2..Newest(NextOf(p)) : <<NextOf(p), j>> \in cur'[t]
        BY <1>3, <3>1 DEF IInv, Handoff, Carries
      <4>4. \A j \in 1..Newest(NextOf(p)) : j = 1 \/ j \in 2..Newest(NextOf(p))
        BY <4>1
      <4> QED
        BY <1>8, <4>2, <4>3, <4>4 DEF Knows, Newest
    <3> QED
      BY <1>5, <2>1, <2>3, <3>1, <3>2, <3>3 DEF NextWell
  <2> QED
    BY <2>2, <2>3
<1>19. \A u \in Thread \ {t} : GateWell(u)'
  BY <1>3, <1>5, <1>8, GateKept
<1>20. GateWell(t)'
  <2>1. Cell(Gate(t)) = 1 /\ Knows(t, Gate(t))
    BY <1>2 DEF IInv, GateWell
  <2> QED
    BY <1>3, <1>5, <1>8, <2>1 DEF GateWell, Cell, Val, Knows, Newest
<1>21. Handoff'
  <2>1. \A u \in Thread, x \in Loc : <<x, 1>> \in cur'[u]
    BY <1>3 DEF IInv, Handoff
  <2>2. Newest(Shared)' = Newest(Shared) /\ Newest(Shared) \in Nat /\ Shared \in Loc
    BY <1>8, Locations, Lengths DEF IInv, Newest
  <2>3. \A u \in Thread \ {t} : pc'[u] \in HoldLabel => Knows(u, Shared)'
    BY <1>3, <1>5, <2>2 DEF IInv, Handoff, Knows
  <2>4. pc'[t] \in HoldLabel => Knows(t, Shared)'
    <3>1. pc'[t] \in HoldLabel => Cell(MTail) = Null
      BY <1>5 DEF HoldLabel
    <3>2. Cell(MTail) = Null => \A j \in 2..Newest(Shared) : <<Shared, j>> \in cur'[t]
      BY <1>3 DEF IInv, Handoff, Carries
    <3>3. \A j \in 1..Newest(Shared) : j = 1 \/ j \in 2..Newest(Shared)
      BY <2>2
    <3> QED
      BY <2>1, <2>2, <3>1, <3>2, <3>3 DEF Knows
  <2>5. Cell(MTail)' = t
    BY <1>3, <1>4 DEF Cell, Val
  <2>6. Carries(NewestView(MTail), NextOf(t))'
    <3>1. Knows(t, NextOf(t)) /\ Newest(NextOf(t)) \in Nat
      BY <1>2, Lengths, Locations DEF IInv, NextWell
    <3> QED
      BY <1>3, <1>4, <1>8, <3>1 DEF Knows, Carries, NewestView, Newest
  <2>7. \A n : Cell(MTail)' = n => n = t /\ n # Null
    BY <2>5, MCSAssumption
  <2> QED
    BY <2>1, <2>3, <2>4, <2>6, <2>7 DEF Handoff
<1> QED
  BY <1>3, <1>6, <1>11, <1>14, <1>16, <1>17, <1>18, <1>19, <1>20, <1>21 DEF IInv

(* A holder that is still the tail leaves the queue empty.                 *)
LEMMA RemoveTailStep ==
  ASSUME IInv, NEW t \in Thread, Unlock_RemoveTail(t)
  PROVE  IInv'
<1>1. PICK i : Val(MTail, i) = t /\ ReadModifyWrite(t, MTail, i, Null, release)
  BY DEF Unlock_RemoveTail, OrderUnlockCAS
<1>2. PICK to \in {"idle", "done"} :
        /\ pc[t] = "cas" /\ pc' = [pc EXCEPT ![t] = to] /\ peer' = peer /\ calls' = calls
  BY DEF Unlock_RemoveTail, Return, Goto, MoveTo
<1>3. /\ i = Newest(MTail) /\ Newest(MTail) \in Nat /\ Newest(MTail) >= 1
      /\ Appended(Loc, MTail) /\ MemType(Loc, Content)' /\ Chain'
      /\ hist'[MTail][Newest(MTail) + 1].val = Null
      /\ cur[t] \subseteq hist'[MTail][Newest(MTail) + 1].view
      /\ \A u \in Thread : cur[u] \subseteq cur'[u]
  BY <1>1, Exchanging DEF Releasing, Link
<1>4. /\ t \in Queue /\ Served(t) /\ Turn(t) = Newest(MTail)
  BY <1>1, <1>2, <1>3, TailInLine DEF Cell, Served
<1>5. Queue = {t}
  <2>1. \A u \in Queue : u # t => Turn(t) < Turn(u) /\ Turn(u) \in 2..Newest(MTail)
    BY <1>4, OneServed, Turns
  <2> QED
    BY <1>3, <1>4, <2>1
<1>6. pc'[t] = to /\ \A u \in Thread \ {t} : pc'[u] = pc[u]
  BY <1>2 DEF IInv, Types
<1>7. Queue' = {}
  BY <1>5, <1>6 DEF Queue, QueueLabel, Waiting, HoldLabel
<1>8. Types'
  <2>1. pc' \in [Thread -> Label] /\ peer' \in [Thread -> Link] /\ calls' \in 0..MaxCalls
    BY <1>2 DEF IInv, Types, Label
  <2>2. MTail \in Loc /\ Fits(MTail, Null)
    BY Locations DEF Fits, Content, Link
  <2> QED
    BY <1>3, <2>1, <2>2, AppendedTypes
<1>9. /\ Newest(MTail)' = Newest(MTail) + 1
      /\ \A y \in Loc \ {MTail} : hist'[y] = hist[y]
  BY <1>3 DEF Appended, Newest
<1>10. Cell(MTail)' = Null
  BY <1>3, <1>9 DEF Cell, Val
<1>11. Line' /\ Service'
  BY <1>7, <1>10 DEF Line, Service
<1>12. /\ \A u \in Thread : hist'[NextOf(u)] = hist[NextOf(u)] /\ hist'[Gate(u)] = hist[Gate(u)]
       /\ hist'[Shared] = hist[Shared]
  BY <1>9, Locations
<1>13. ASSUME NEW u \in Thread \ {t}
       PROVE  NextWell(u)' /\ GateWell(u)'
  <2>1. u \notin Queue /\ u \notin Queue' /\ pc[u] # "link"
    BY <1>5, <1>7 DEF Queue, QueueLabel, Waiting
  <2>2. \A s : ~Follows(s, u) /\ ~Follows(s, u)'
    BY <2>1 DEF Follows
  <2>3. NextWell(u)'
    BY <1>2, <1>3, <1>6, <1>12, <2>1, <2>2, NextKept
  <2> QED
    BY <1>3, <1>6, <1>12, <2>3, GateKept
<1>14. NextWell(t)'
  <2>1. \A s \in Thread : ~LinkedTo(t, s)
    BY <1>5, NotServed DEF LinkedTo, Follows
  <2>2. Knows(t, NextOf(t))
    BY <1>4, <2>1 DEF IInv, NextWell, Unlinked
  <2>3. Knows(t, NextOf(t))'
    BY <1>3, <1>12, <2>2 DEF Knows, Newest
  <2> QED
    BY <1>6, <1>7, <2>3 DEF NextWell
<1>15. GateWell(t)'
  <2>1. Knows(t, Gate(t))
    BY <1>2 DEF IInv, GateWell
  <2> QED
    BY <1>3, <1>6, <1>12, <2>1 DEF GateWell, Knows, Newest
<1>16. Handoff'
  <2>1. \A u \in Thread, x \in Loc : <<x, 1>> \in cur'[u]
    BY <1>3 DEF IInv, Handoff
  <2>2. \A u \in Thread : pc'[u] \notin HoldLabel
    BY <1>7 DEF Queue, QueueLabel
  <2>3. Knows(t, Shared) /\ Newest(Shared) \in Nat
    BY <1>2, Lengths, Locations DEF IInv, Handoff, HoldLabel
  <2>4. Carries(NewestView(MTail), Shared)'
    BY <1>3, <1>9, <1>12, <2>3 DEF Carries, NewestView, Knows, Newest
  <2>5. \A n \in Thread : Cell(MTail)' # n
    BY <1>10, MCSAssumption
  <2> QED
    BY <2>1, <2>2, <2>4, <2>5 DEF Handoff
<1> QED
  BY <1>3, <1>8, <1>11, <1>13, <1>14, <1>15, <1>16 DEF IInv

(* Every step of a thread keeps the invariant.                             *)
LEMMA StepInvariant ==
  ASSUME IInv, NEW t \in Thread, ThreadStep(t)
  PROVE  IInv'
BY StoreNextStep, StoreGateStep, ExchangeTailStep, LinkPredStep, LoadGateStep, ReadSharedStep,
   WriteSharedStep, LoadNextStep, RemoveTailStep, FindSuccessorStep, OpenGateStep
DEF ThreadStep

(* And so does a step that changes nothing.                                *)
LEMMA StutterInvariant ==
  ASSUME IInv, UNCHANGED vars
  PROVE  IInv'
<1>1. /\ hist' = hist /\ cur' = cur /\ acq' = acq /\ rel' = rel /\ sc' = sc
      /\ pc' = pc /\ peer' = peer /\ calls' = calls
  BY DEF vars
<1>2. Types' /\ Chain'
  BY <1>1 DEF IInv, Types, Chain, MemType, Events, Linear, Newest, Val
<1>3. Queue' = Queue /\ \A u \in Queue : Served(u)' <=> Served(u)
  BY <1>1 DEF Queue, Served, Cell, Val, Newest
<1>4. Line' /\ Service' /\ \A s, u : Follows(s, u)' <=> Follows(s, u)
  BY <1>1, <1>3, SameQueue
<1>5. \A u \in Thread : NextWell(u)' /\ GateWell(u)'
  BY <1>1, <1>4, NextKept, GateKept
<1>6. Handoff'
  BY <1>1, HandoffKept
<1> QED
  BY <1>2, <1>4, <1>5, <1>6 DEF IInv

-----------------------------------------------------------------------------
(* Every reachable state satisfies the invariant.                          *)
THEOREM Invariance == Spec => []IInv
<1>1. Init => IInv
  BY InitInvariant
<1>2. IInv /\ [Next]_vars => IInv'
  BY StepInvariant, StutterInvariant DEF Next, Terminated
<1> QED
  BY <1>1, <1>2, PTL DEF Spec

(* The locals and the atomics only take the values that the declarations   *)
(* of mcs-lock.h allow: a next is a node or null, a gate 0 or 1.           *)
THEOREM TypeCorrectness == Spec => []TypeOK
<1>1. IInv => TypeOK
  BY DEF IInv, Types, TypeOK, Label, QueueLabel, Waiting, HoldLabel, Link
<1> QED
  BY <1>1, Invariance, PTL

(* Whoever enters has seen every write that the earlier holders made under *)
(* the lock, whether its gate was opened or the queue was empty.           *)
THEOREM Synchronization == Spec => []HandoffHappensBefore
<1>1. ASSUME IInv, NEW t \in Thread, pc[t] = "cs"
      PROVE  Synchronized(t, Shared)
  <2>1. Knows(t, Shared) /\ Linear(Shared)
    BY <1>1, Locations DEF IInv, Handoff, HoldLabel, Chain
  <2> QED
    BY <2>1 DEF Knows, Linear, Synchronized, Upto, Event, Newest
<1>2. IInv => HandoffHappensBefore
  BY <1>1 DEF HandoffHappensBefore
<1> QED
  BY <1>2, Invariance, PTL

(* A thread that is about to link itself to its predecessor, or to open    *)
(* the gate of its successor, finds that thread in the call it means.      *)
THEOREM NodeLifetime == Spec => []NodeOutlivesAccess
<1>1. ASSUME IInv, NEW t \in Thread, pc[t] = "link"
      PROVE  pc[peer[t]] \in Waiting \cup {"cs", "unlock", "cas", "await"}
  <2>1. PICK p \in Thread : peer[t] = p /\ Follows(t, p)
    BY <1>1 DEF IInv, NextWell
  <2>2. \A s \in Thread : ~LinkedTo(p, s)
    BY <1>1, <2>1, NotServed DEF LinkedTo
  <2>3. pc[p] # "open" /\ p \in Queue
    BY <1>1, <2>1, <2>2 DEF IInv, NextWell, Follows
  <2> QED
    BY <2>1, <2>3 DEF Queue, QueueLabel, HoldLabel
<1>2. ASSUME IInv, NEW t \in Thread, pc[t] = "open"
      PROVE  pc[peer[t]] = "wait"
  BY <1>2 DEF IInv, NextWell, LinkedTo
<1>3. IInv => NodeOutlivesAccess
  BY <1>1, <1>2 DEF NodeOutlivesAccess
<1> QED
  BY <1>3, Invariance, PTL

(* The lock is first come, first served from the exchange on, and one      *)
(* thread has it at a time.                                                *)
THEOREM Order == Spec => []QueueOrder
<1>1. ASSUME IInv, NEW t \in Holders, NEW u \in Holders \cup At(Waiting), t # u
      PROVE  Turn(t) < Turn(u)
  <2>1. t \in Queue /\ u \in Queue /\ Served(t)
    BY DEF Holders, At, Queue, QueueLabel, HoldLabel, Waiting, Served
  <2> QED
    BY <1>1, <2>1, OneServed
<1>2. IInv => QueueOrder
  BY <1>1 DEF QueueOrder
<1> QED
  BY <1>2, Invariance, PTL
=============================================================================
